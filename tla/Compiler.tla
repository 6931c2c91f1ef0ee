------------------------------- MODULE Compiler ------------------------------
(***************************************************************************)
(* main of main.c from merged program to built program: sema_run accepts   *)
(* or rejects it, then codegen_emit writes C that gcc has to accept and    *)
(* that does what the source says.  The first step writes a program of     *)
(* some mode, a family of CompilerPrograms, further steps let it grow, and *)
(* the last one compiles it.  Careful leaves out the programs that the     *)
(* README lists as accepted but not compiled, or compiled to something     *)
(* else.                                                                   *)
(***************************************************************************)
EXTENDS CompilerPrograms

CONSTANTS Modes, Contexts, MaxNesting, MaxMoves, OracleLength, Careful

VARIABLES mode,     \* the family of the program, "none" while there is none
          work      \* what it is built from
vars == <<mode, work>>

Classes == {"A", "B", "D"}
Orders == {<<"A", "B", "D">>, <<"B", "A", "D">>, <<"D", "B", "A">>}
OnceForms == Forms \ (AssignForms \cup FieldForms \cup {"use", "push", "call", "return", "let", "match", "switch"})
TypesUsed == DOMAIN Types
Smallest(m) ==
  CASE m = "typed"   -> [ctx : Contexts, form : Forms, x : TypesUsed, y : TypesUsed]
    [] m = "once"    -> [form : OnceForms, x : TypesUsed, y : TypesUsed]
    [] m = "nested"  -> [ws : {<<>>}, leaf : Leaves]
    [] m = "classes" -> [order : Orders, bases : {[A |-> "", B |-> "A", D |-> d] : d \in {"A", "B"}},
                         has : SUBSET Classes]
    [] OTHER         -> [ops : {<<>>}]

Init == mode = "none" /\ work = <<>>
Write == mode = "none" /\ mode' \in Modes /\ work' \in Smallest(mode')

Program == CASE mode = "typed"   -> TypedProgram(work.ctx, work.form, work.x, work.y)
             [] mode = "once"    -> OnceProgram(work.form, work.x, work.y)
             [] mode = "nested"  -> NestedProgram(work.ws, work.leaf)
             [] mode = "classes" -> HierarchyProgram(work.order, work.bases, work.has)
             [] OTHER            -> MovesProgram(work.ops)

Enclose == /\ mode = "nested" /\ Len(work.ws) < MaxNesting
           /\ \E w \in Wrappers : work' = [work EXCEPT !.ws = <<w>> \o @]
           /\ UNCHANGED mode
AddMove == /\ mode = "moves" /\ Len(work.ops) < MaxMoves
           /\ \E o \in MoveOps, p \in {"plain", "if", "while"} :
                work' = [work EXCEPT !.ops = Append(@, [op |-> o, place |-> p])]
           /\ UNCHANGED mode
\* The compiler gets the program; what it makes of it is Checked, Output and Outcome.
Compile == mode # "none" /\ mode' = "none" /\ work' = <<>>

Next == Write \/ Enclose \/ AddMove \/ Compile
Spec == Init /\ [][Next]_vars

Checked == sema_run(Program)
Output  == codegen_emit(Checked)
Outcome == IF ~ Checked.st.ok THEN "rejected" ELSE IF gcc_accepts(Output) THEN "built" ELSE "failed"

(***************************************************************************)
(* What the careful programs leave out.                                    *)
(***************************************************************************)
(* Pairs of types with which a form is accepted but not compiled, wherever *)
(* it stands except where parameters come by reference (RoughThere).       *)
Objects == {"a", "o"}
Mixed(S) == S \X {"m"}
RoughPairs(form) ==
  CASE form = "%" -> Mixed(TypesUsed) \cup ({"m"} \X TypesUsed)
    [] form \in {"%=", "<<="} -> (Mixed(TypesUsed) \cup ({"m"} \X TypesUsed) \cup ({"i", "d"} \X {"i", "d"})
                                    \cup IF form = "<<=" THEN {<<"s", "s">>} ELSE {}) \ {<<"b", "m">>, <<"i", "m">>, <<"i", "i">>}
    [] form = "/" -> {<<"s", "s">>} \cup ({"s"} \X {"i", "d"}) \cup ({"i", "d"} \X {"s"})
    [] form = "<" -> ({"d"} \X {"a", "o", "s"}) \cup ({"a", "o", "s"} \X {"d"})
    [] form \in {"+=", "-=", "/=", "field+="} -> Mixed(Objects \cup {"s"})
    [] form \in {"field=", "pass"} -> Mixed(Objects)
    [] form = "=" -> Mixed(Objects) \cup {<<"m", "a">>}
    [] form = "tern" -> Mixed({"o"})
    [] form = "call" -> Mixed({"o"}) \cup {<<"o", "o">>}
    [] form = "??" -> (TypesUsed \ {"m"}) \X TypesUsed
    [] form = "??=" -> Mixed(Objects \cup {"b", "d", "i"}) \cup ({"b", "i"} \X {"b", "i"}) \cup ({"d", "i"} \X {"d", "i"})
                         \cup {<<"m", "a">>, <<"o", "o">>}
    [] form = "field??=" -> ({"m"} \X TypesUsed) \cup Mixed(Objects \cup {"s"}) \cup {<<t, t>> : t \in Objects \cup {"s"}}
    [] form = "let" -> {q \in TypesUsed \X TypesUsed : "m" \in {q[1], q[2]} /\ q[1] # q[2]}
    [] form = "match" -> {q \in TypesUsed \X TypesUsed : q[1] # q[2]} \ ({"b", "d", "i"} \X {"b", "d", "i"})
    [] form = "string" -> {"d", "i", "m"} \X TypesUsed
    [] form \in {"int", "for", "dowhile"} -> {"m"} \X TypesUsed
    [] form = "float" -> {"a", "m", "o", "s"} \X TypesUsed
    [] form \in {"push", "foreach"} -> {"s"} \X TypesUsed
    [] form = "read" -> {"s"} \X {"a", "m", "o", "s"}
    [] form = "switch" -> {"d"} \X TypesUsed
    [] OTHER -> {}
(* What is so in one context only: try bodies, which are functions of      *)
(* their own, functions with a parameter by reference, named functions.    *)
RoughThere ==
  \/ work.ctx \in {"fn", "param", "method"} /\ work.form = "return" /\ <<work.x, work.y>> \in Mixed(Objects)
  \/ work.ctx = "try" /\ (work.form = "use" \/ (work.form = "match" /\ work.x # work.y))
  \/ work.ctx = "ref" /\ \/ work.form \in {"%", "%=", "<<=", "int", "float", "string", "for", "dowhile"}
                         \/ work.form = "let" /\ work.x # "m"
                         \/ work.form = "pass" /\ work.x \in Objects
                         \/ work.form = "call" /\ work.x = "o"
                         \/ work.form = "switch" /\ work.x = "s"
CarefulPair == <<work.x, work.y>> \notin RoughPairs(work.form)
CarefulTyped == ~ RoughThere /\ (work.ctx # "ref" => CarefulPair)
Loops   == {"while", "do", "for", "foreach"}
Switches   == {"switch", "text"}
Helpers == {"try", "tryfin", "catch"}    \* their statements go to a function of their own
Around3(a, b, c) == \E i, j, n \in DOMAIN work.ws : i < j /\ j < n /\ work.ws[i] \in a /\ work.ws[j] \in b /\ work.ws[n] \in c
CarefulNested ==
  /\ work.leaf = "closure" => \A i \in DOMAIN work.ws : work.ws[i] \notin Switches \cup {"do"}
  /\ \A i, j \in DOMAIN work.ws : i < j /\ work.ws[i] = "switch" => work.ws[j] \notin Helpers \cup {"finally"}
  /\ work.leaf \in {"break", "continue"} => ~ Around3(Helpers, Loops \cup Switches, Helpers)
  /\ work.leaf = "continue" => \A i \in DOMAIN work.ws : work.ws[i] \in Switches =>
       \E j \in 1 .. i - 1 : work.ws[j] \in Loops /\ \A n \in j .. i : work.ws[n] \notin Helpers
InOrder == \A i \in DOMAIN work.order :
  work.bases[work.order[i]] # "" => \E j \in 1 .. i - 1 : work.order[j] = work.bases[work.order[i]]
CarefulProgram == CASE mode = "typed" -> CarefulTyped [] mode = "nested" -> CarefulNested
                    [] mode = "classes" -> InOrder [] mode = "once" -> CarefulPair [] OTHER -> TRUE

(* An accepted program compiles: sema gave every expression the type that  *)
(* the code emitted for it has (codegen.c:14), and every name, label and   *)
(* helper the code refers to is in sight.  For single statements the list  *)
(* of what is left out is exact: nothing on it compiles.                   *)
AcceptedCompiles == [][Compile =>
  /\ Outcome = "failed" => Careful /\ ~ CarefulProgram
  /\ Outcome = "built" /\ mode \in {"typed", "once"} /\ Careful => CarefulProgram]_vars

Of(out, name) == out.fns[CHOOSE i \in DOMAIN out.fns : out.fns[i].name = name].body
RunsAlike(o, body, src) ==
  LET c == RunItems(Start(o), body, 0)
      s == Meaning(Start(o), src)
  IN c.tr = s.tr /\ c.o = s.o
(* The compiled statements call the same functions in the same order and   *)
(* ask the same questions as the source, whatever the answers are: through *)
(* switch, break, continue, return and throw inside try, catch and finally.*)
SameControl == [][Compile => (
  mode = "nested" /\ Outcome = "built" /\ (Careful => CarefulNested) =>
    LET body == Of(Output, "w")
    IN \A o \in [1 .. OracleLength -> BOOLEAN] : RunsAlike(o, body, Nested(work.ws, work.leaf)))]_vars

(* The text of a function; the method a call of it reaches in an object of *)
(* class dyn, and the method PHP finds: the nearest definition.            *)
RECURSIVE TextOf(_), Nearest(_)
TextOf(items) == SE!FlattenSeq([n \in DOMAIN items |->
  LET i == items[n]
      x == IF "x" \in DOMAIN i THEN i.x.txt ELSE <<>>
  IN x \o CASE i.k = "if" -> TextOf(i.then \o i.els)
            [] i.k \in {"loop", "block", "try"} -> TextOf(i.body)
            [] i.k = "switch" -> SE!FlattenSeq([c \in DOMAIN i.cases |-> TextOf(i.cases[c].body)])
            [] OTHER -> <<>>])
Count(text, token) == Cardinality({i \in DOMAIN text : text[i] = token})
Nearest(c) == IF c \in work.has THEN c ELSE Nearest(work.bases[c])
Reached(text, dyn) == IF <<"A->>q">> \in SE!ToSet(text) THEN emit_virt(Generator(Checked.st), "A", "q", dyn) ELSE "A"
Inherits(dyn) == dyn \notin work.has /\ Nearest(dyn) # "A"
(* A call of a method runs the definition nearest to the class of the      *)
(* object, whatever class the call is written in.                          *)
OverridesWin == [][Compile => (
  mode = "classes" /\ Outcome = "built" =>
    LET text == TextOf(Of(Output, "A->go"))
    IN \A dyn \in Classes : Reached(text, dyn) = Nearest(dyn) \/ (Careful /\ Inherits(dyn)))]_vars

(* Runs of a program of moves: n[i] times the i-th operation.              *)
Times(place) == CASE place = "plain" -> {1} [] place = "if" -> {0, 1} [] OTHER -> {0, 1, 2}
UsesMoved(ops) ==
  LET Gone[i \in 0 .. Len(ops)] == IF i = 0 THEN {} ELSE
        IF ops[i][1] = "move" THEN (Gone[i - 1] \ {ops[i][2]}) \cup {ops[i][3]} ELSE Gone[i - 1]
  IN \E i \in DOMAIN ops : ops[i][Len(ops[i])] \in Gone[i - 1]
Runs(ops) == {SE!FlattenSeq([i \in DOMAIN ops |-> [j \in 1 .. n[i] |-> ops[i].op]]) :
                n \in {m \in [DOMAIN ops -> 0 .. 2] : \A i \in DOMAIN ops : m[i] \in Times(ops[i].place)}}
(* A program that is accepted reads no owner that an assignment emptied on *)
(* any path (codegen.c:9, "move-only discipline").                         *)
NoUseAfterMove == [][Compile => (
  mode = "moves" /\ Outcome = "built" /\ (Careful => \A i \in DOMAIN work.ops : work.ops[i].place # "while") =>
    \A r \in Runs(work.ops) : ~ UsesMoved(r))]_vars

(* An operand with an effect has it once: no macro and no conversion of    *)
(* the code repeats the text of a call.                                    *)
EvaluatedOnce == [][Compile => (
  mode = "once" /\ Outcome = "built" /\ (Careful => work.form # "elem+=") =>
    LET text == TextOf(Of(Output, "w"))
    IN Count(text, <<"l">>) <= 1 /\ Count(text, <<"r">>) <= 1)]_vars
============================================================================
