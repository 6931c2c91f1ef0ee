-------------------------------- MODULE Sema -------------------------------
(***************************************************************************)
(* sema.c: names, types, closure captures, borrows and moves.  A tree is a *)
(* record with its kind in k, a type a tuple that starts with its kind.    *)
(* The checker st holds every static of the file: symbols (a VarSym is a   *)
(* number, its index), scopes (a number too, in order of creation, which   *)
(* is Scope.seq), loans, the closures being checked, the program globals   *)
(* and sema_ok.  check_expr(st, sc, e) returns [st, e] with e annotated by *)
(* type and, where codegen reads it, sym.                                  *)
(***************************************************************************)
EXTENDS Integers, Sequences, FiniteSets, TLC

CONSTANTS MAX_SCOPE, MAX_LOANS, MAX_CLOSURES
ASSUME SemaLimits == {MAX_SCOPE, MAX_LOANS, MAX_CLOSURES} \subseteq Nat

None == <<"none">>                      \* a null Type pointer
ty_int    == <<"int">>
ty_float  == <<"float">>
ty_bool   == <<"bool">>
ty_string == <<"string">>
ty_void   == <<"void">>
ty_mixed  == <<"mixed">>
type_array_of(t) == <<"array", t>>
Kind(t) == t[1]

type_is_numeric(t)    == Kind(t) \in {"int", "i64", "float"}
type_is_integral(t)   == Kind(t) \in {"int", "i64", "bool"}
type_is_pointerish(t) == Kind(t) \in {"ref", "mutref", "ptr"}
IsRecord(t)           == Kind(t) \in {"class", "struct"}
Smart(t)              == Kind(t) \in {"own", "rc"}

unify_numeric(a, b) ==
  CASE "float" \in {Kind(a), Kind(b)} -> ty_float
    [] a = ty_int /\ b = ty_int -> ty_int
    [] type_is_integral(a) /\ type_is_integral(b) -> <<"i64">>
    [] OTHER -> ty_mixed

RECURSIVE types_equal(_, _), types_compatible(_, _)
types_equal(a, b) ==
  \/ a = b
  \/ type_is_integral(a) /\ type_is_integral(b)
  \/ type_is_numeric(a) /\ type_is_numeric(b)
  \/ /\ Kind(a) = Kind(b)
     /\ CASE Kind(a) = "array" -> a[2] = ty_mixed \/ types_equal(a[2], b[2])
          [] Kind(a) \in {"vec", "ref", "mutref", "ptr", "own"} -> types_equal(a[2], b[2])
          [] Kind(a) \in {"map", "result"} -> types_equal(a[2], b[2]) /\ types_equal(a[3], b[3])
          [] Kind(a) = "fn" -> /\ Len(a[2]) = Len(b[2])
                               /\ \A i \in 1 .. Len(a[2]) : types_equal(a[2][i], b[2][i])
                               /\ types_equal(a[3], b[3])
          [] Kind(a) \in {"class", "enum"} -> FALSE
          [] OTHER -> TRUE

(* <<"fn", parameters, result, variadic>>; `callable` is variadic. *)
types_compatible(want, got) ==
  \/ want \in {None, ty_mixed} \/ got = None
  \/ Kind(got) \in {"mixed", "option", "result"}
  \/ Kind(got) = "fn" /\ (got[4] \/ (Kind(want) = "fn" /\ want[4]))
  \/ types_equal(want, got)
  \/ type_is_numeric(want) /\ type_is_numeric(got)
  \/ IsRecord(want) /\ Kind(got) = "own" /\ IsRecord(got[2]) /\ got[2][2] = want[2]
  \/ Kind(want) = "own" /\ Kind(got) = "class" /\ Len(want[2]) > 1 /\ want[2][2] = got[2]
  \/ Kind(want) = "ref" /\ types_compatible(want[2], got)

RECURSIVE stmt_chain_returns(_)
ChainReturns(body) == \E i \in DOMAIN body : stmt_chain_returns(body[i])
stmt_chain_returns(s) ==
  CASE s.k = "return" -> s.value.k # "none"
    [] s.k = "if" -> ChainReturns(s.then) \/ ChainReturns(s.els)
    [] s.k \in {"while", "do", "for", "foreach", "try", "block"} -> ChainReturns(s.body)
    [] OTHER -> FALSE

fn_has_value_return(fn) == ChainReturns(fn.body)

(* The result type check_fn_body leaves in a function, NULL when it writes *)
(* none and returns nothing; a call of a method turns that into void.      *)
FnRet(fn) == IF fn.ret # None \/ ~ fn_has_value_return(fn) THEN fn.ret ELSE ty_mixed
MethodRet(fn) == IF FnRet(fn) = None THEN ty_void ELSE FnRet(fn)

fn_min_args(fn) ==
  LET need == {i \in DOMAIN fn.params : fn.params[i].dflt.k = "none"}
  IN IF need = {} THEN 0 ELSE CHOOSE i \in need : \A j \in need : j <= i

(***************************************************************************)
(* Declarations.  prog has the functions, classes and enums; a later       *)
(* function or class of the same name hides the earlier one.               *)
(***************************************************************************)
Named(decls, name) == {i \in DOMAIN decls : decls[i].name = name}
Latest(decls, name) == decls[CHOOSE i \in Named(decls, name) :
                                 \A j \in Named(decls, name) : j <= i]
First(decls, name) == decls[CHOOSE i \in Named(decls, name) :
                                \A j \in Named(decls, name) : i <= j]
IsClass(st, name) == Named(st.prog.classes, name) # {}
find_class(st, name) == Latest(st.prog.classes, name)
IsEnum(st, name) == Named(st.prog.enums, name) # {}
find_enum(st, name) == Latest(st.prog.enums, name)
IsFn(st, name) == Named(st.prog.fns, name) # {}
find_function(st, name) == Latest(st.prog.fns, name)

sema_error(st) == [st EXCEPT !.ok = FALSE]
ErrorIf(st, wrong) == IF wrong THEN sema_error(st) ELSE st

(* A method is looked for in the class and in its base, not further up; a  *)
(* field in the whole chain.  The result is a sequence of at most one.     *)
MethodsOf(st, c, name) ==
  IF Named(c.methods, name) # {} THEN <<First(c.methods, name)>>
  ELSE IF c.extends # "" /\ IsClass(st, c.extends)
       THEN LET b == find_class(st, c.extends)
            IN IF Named(b.methods, name) # {} THEN <<First(b.methods, name)>> ELSE <<>>
       ELSE <<>>

RECURSIVE class_find_field(_, _, _)
class_find_field(st, c, name) ==          \* <<type>>, with None while it is not known
  IF Named(c.fields, name) # {}
  THEN LET i == CHOOSE i \in Named(c.fields, name) : \A j \in Named(c.fields, name) : i <= j
       IN <<st.ftypes[c.name][i]>>
  ELSE IF c.extends # "" /\ IsClass(st, c.extends)
       THEN class_find_field(st, find_class(st, c.extends), name)
       ELSE <<>>

declare_decls(prog) ==
  [prog |-> prog, syms |-> <<>>, scopes |-> <<>>, loans |-> <<>>, clos |-> <<>>,
   globals |-> <<>>,
   ftypes |-> [n \in {prog.classes[i].name : i \in DOMAIN prog.classes} |->
                 LET fs == Latest(prog.classes, n).fields IN [i \in DOMAIN fs |-> fs[i].type]],
   ok |-> /\ \A i \in Named(prog.fns, "main") :
               prog.fns[i].params = <<>> /\ prog.fns[i].ret \in {None, ty_void, ty_int}
          /\ \A i \in DOMAIN prog.classes :
               prog.classes[i].extends # "" => Named(prog.classes, prog.classes[i].extends) # {}]

(* [st, t]: a class name may turn out to be an enum, or unknown. *)
RECURSIVE resolve_type(_, _, _)
resolve_type(st, self, t) ==
  LET Sub(i) == resolve_type(st, self, t[i])
  IN CASE Kind(t) \in {"array", "vec", "ref", "mutref", "ptr", "own", "option"} ->
            [ok |-> Sub(2).ok, t |-> <<t[1], Sub(2).t>>]
       [] Kind(t) \in {"map", "result"} ->
            [ok |-> Sub(2).ok /\ Sub(3).ok, t |-> <<t[1], Sub(2).t, Sub(3).t>>]
       [] Kind(t) = "fn" ->
            LET ps == [i \in DOMAIN t[2] |-> resolve_type(st, self, t[2][i])]
            IN [ok |-> Sub(3).ok /\ \A i \in DOMAIN ps : ps[i].ok,
                t |-> <<"fn", [i \in DOMAIN ps |-> ps[i].t], Sub(3).t, t[4]>>]
       [] Kind(t) = "class" /\ t[2] = "self" /\ self # None -> [ok |-> TRUE, t |-> self]
       [] Kind(t) = "class" /\ t[2] # "Exception" /\ ~ IsClass(st, t[2]) ->
            IF IsEnum(st, t[2]) THEN [ok |-> TRUE, t |-> <<"enum", t[2]>>]
            ELSE [ok |-> FALSE, t |-> <<"error">>]
       [] OTHER -> [ok |-> TRUE, t |-> t]

(***************************************************************************)
(* Scopes and symbols.                                                     *)
(***************************************************************************)
TopLevel == [top |-> TRUE, ret |-> ty_void, method |-> FALSE, cls |-> ""]

scope_init(st, parent, proto) ==
  [st EXCEPT !.scopes = Append(@, [proto EXCEPT !.parent = parent, !.vars = <<>>])]
EmptyScope == [vars |-> <<>>, parent |-> 0, fn |-> TopLevel, cls |-> "", unsafe |-> FALSE,
               loop |-> 0, self |-> None]
Newest(st) == Len(st.scopes)

RECURSIVE scope_find(_, _, _)
scope_find(st, sc, name) ==               \* 0 is NULL
  IF sc = 0 THEN 0
  ELSE LET vs == st.scopes[sc].vars
           hit == {i \in DOMAIN vs : st.syms[vs[i]].name = name}
       IN IF hit = {} THEN scope_find(st, st.scopes[sc].parent, name)
          ELSE vs[CHOOSE i \in hit : \A j \in hit : j <= i]

NewSym(st, name, t, is_mut) ==
  [name |-> name, type |-> t, is_mut |-> is_mut, uid |-> Len(st.syms) + 1, decl_seq |-> 0,
   is_param |-> FALSE, is_param_ref |-> FALSE, captured |-> FALSE, captured_byref |-> FALSE,
   moved_from |-> FALSE, is_auto |-> FALSE, is_preg_out |-> FALSE, is_global_alias |-> FALSE,
   is_program_global |-> FALSE]

(* The new symbol is the last one; a full scope refuses it. *)
scope_declare(st, sc, name, t, is_mut) ==
  IF Len(st.scopes[sc].vars) >= MAX_SCOPE THEN sema_error(st)
  ELSE [st EXCEPT !.syms = Append(@, [NewSym(st, name, t, is_mut) EXCEPT !.decl_seq = sc]),
                  !.scopes[sc].vars = Append(@, Len(st.syms) + 1)]

(* Symbols that scopes hold without owning them are dropped when it is full. *)
Expose(st, sc, v) ==
  IF Len(st.scopes[sc].vars) >= MAX_SCOPE THEN st
  ELSE [st EXCEPT !.scopes[sc].vars = Append(@, v)]

program_global_find(st, name) ==
  LET hit == {i \in DOMAIN st.globals : st.syms[st.globals[i]].name = name}
  IN IF hit = {} THEN 0 ELSE st.globals[CHOOSE i \in hit : \A j \in hit : i <= j]

program_global_get(st, name) ==
  [st EXCEPT !.syms = Append(@, [NewSym(st, name, ty_mixed, TRUE)
                                   EXCEPT !.is_auto = TRUE, !.is_program_global = TRUE]),
             !.globals = Append(@, Len(st.syms) + 1)]

(* A variable found outside the innermost closure is captured by it and,   *)
(* going outwards, by every closure it is outside of too.                  *)
Add(list, v) == IF \E i \in DOMAIN list : list[i] = v THEN list ELSE Append(list, v)
note_capture(st, v) ==
  [st EXCEPT !.clos[Len(st.clos)].caps = Add(@, v), !.syms[v].captured = TRUE]
Outside(st, v, d) == st.syms[v].decl_seq < st.clos[d].seq
Capture(st, v) ==
  LET n == Len(st.clos)
      reach == {d \in 1 .. n : \A e \in d .. n : Outside(st, v, e)}
  IN IF n = 0 \/ st.syms[v].is_program_global \/ ~ Outside(st, v, n) THEN st
     ELSE [note_capture(st, v) EXCEPT
             !.clos = [d \in 1 .. n |-> IF d \in reach THEN [st.clos[d] EXCEPT !.caps = Add(@, v)]
                                        ELSE st.clos[d]]]

(***************************************************************************)
(* Loans.  A full table forgets the loan; the end of any block ends all.   *)
(***************************************************************************)
loans_push(st, v, is_mut) ==
  IF Len(st.loans) >= MAX_LOANS THEN st
  ELSE [st EXCEPT !.loans = Append(@, [var |-> v, mut |-> is_mut])]
loans_release_all(st) == [st EXCEPT !.loans = <<>>]
loans_of(st, v) == {st.loans[i].mut : i \in {j \in DOMAIN st.loans : st.loans[j].var = v}}

(***************************************************************************)
(* Expressions.                                                            *)
(***************************************************************************)
RECURSIVE check_expr(_, _, _), check_list(_, _, _), check_stmt(_, _, _), StmtList(_, _, _),
          Arms(_, _, _, _), Declared(_, _, _, _), Used(_, _, _, _), Globals(_, _, _),
          Cases(_, _, _, _), Catches(_, _, _), Fields(_, _, _, _), Methods(_, _, _, _)

Ann(st, e, t) == [st |-> st, e |-> [type |-> t] @@ e]
Fail(st, e) == Ann(sema_error(st), e, ty_mixed)

check_list(st, sc, es) ==
  IF es = <<>> THEN [st |-> st, es |-> <<>>]
  ELSE LET a == check_expr(st, sc, Head(es))
           r == check_list(a.st, sc, Tail(es))
       IN [st |-> r.st, es |-> <<a.e>> \o r.es]

Self(st, sc) == st.scopes[sc].self

check_bin(st, sc, e) ==
  LET l == check_expr(st, sc, e.l)
      r == check_expr(l.st, sc, e.r)
      a == l.e.type
      b == r.e.type
      e2 == [e EXCEPT !.l = l.e, !.r = r.e]
      Shiftable(t) == type_is_numeric(t) \/ Kind(t) \in {"string", "mixed"}
      NumOrString(t) == type_is_numeric(t) \/ t = ty_string
  IN CASE e.op = "??" -> Ann(r.st, e2, a)
       [] e.op = "." -> Ann(r.st, e2, ty_string)
       [] e.op \in {"==", "!=", "===", "!==", "<", ">", "<=", ">=", "&&", "||"} ->
            Ann(r.st, e2, ty_bool)
       [] e.op = "<=>" -> Ann(r.st, e2, ty_int)
       [] e.op \in {"<<", ">>"} ->
            Ann(ErrorIf(r.st, ~ (Shiftable(a) /\ Shiftable(b))), e2, ty_int)
       [] e.op \in {"&", "|", "^"} ->
            Ann(ErrorIf(r.st, ~ (type_is_integral(a) /\ type_is_integral(b))), e2,
                unify_numeric(a, b))
       [] type_is_numeric(a) /\ type_is_numeric(b) ->
            Ann(r.st, e2, IF e.op = "/" THEN ty_float ELSE unify_numeric(a, b))
       [] /\ e.op \notin {"%", "**"}
          /\ ty_string \in {a, b} /\ NumOrString(a) /\ NumOrString(b) -> Ann(r.st, e2, ty_mixed)
       [] ty_mixed \in {a, b} -> Ann(r.st, e2, IF e.op = "/" THEN ty_float ELSE ty_mixed)
       [] OTHER -> Fail(r.st, e2)

elem_type_of(t) == CASE Kind(t) \in {"array", "vec"} -> t[2]
                     [] Kind(t) = "map" -> t[3]
                     [] t = ty_string -> ty_string
                     [] OTHER -> ty_mixed

(* Arguments against parameters: those beyond the parameters are not even *)
(* checked, and have no type.                                              *)
check_args(st, sc, ps, args) ==
  LET n == IF Len(args) < Len(ps) THEN Len(args) ELSE Len(ps)
      r == check_list(st, sc, SubSeq(args, 1, n))
      want == [i \in 1 .. n |-> resolve_type(st, Self(st, sc), ps[i])]
  IN [st |-> ErrorIf(r.st, \E i \in 1 .. n : \/ ~ want[i].ok
                                             \/ ~ types_compatible(want[i].t, r.es[i].type)),
      es |-> r.es \o SubSeq(args, n + 1, Len(args))]

UserCall(st, sc, fn, e, ret) ==
  LET r  == check_args(st, sc, [i \in DOMAIN fn.params |-> fn.params[i].type], e.args)
      rt == resolve_type(st, Self(st, sc), ret)
  IN Ann(ErrorIf(r.st, ~ rt.ok \/ Len(e.args) \notin fn_min_args(fn) .. Len(fn.params)),
         [target |-> fn.name] @@ [e EXCEPT !.args = r.es], rt.t)

Collection == [len |-> <<"count", ty_int>>, push |-> <<"array_push", ty_int>>,
               pop |-> <<"array_pop", None>>, get |-> <<"array_get", None>>,
               has |-> <<"array_key_exists", ty_bool>>, keys |-> <<"array_keys", ty_mixed>>,
               values |-> <<"array_values", ty_mixed>>]

check_method_call(st0, sc, e0) ==
  LET o  == check_expr(st0, sc, e0.obj)
      st == o.st
      e  == [e0 EXCEPT !.obj = o.e]
      ot == o.e.type
      ct == IF Kind(ot) \in {"own", "rc", "ref", "mutref"} /\ IsRecord(ot[2]) THEN ot[2] ELSE ot
  IN CASE ot = <<"class", "Exception">> /\ e.name = "getMessage" ->
            Ann(st, [builtin |-> "exception_get_message"] @@ e, ty_string)
       [] Kind(ot) \in {"array", "vec", "map"} /\ e.name \in DOMAIN Collection ->
            LET b == Collection[e.name]
            IN Ann(st, [builtin |-> b[1]] @@ e, IF b[2] = None THEN elem_type_of(ot) ELSE b[2])
       [] ~ IsRecord(ct) \/ ~ IsClass(st, ct[2]) -> Fail(st, e)
       [] OTHER ->
            LET c  == find_class(st, ct[2])
                ms == MethodsOf(st, c, e.name)
                fs == class_find_field(st, c, e.name)
            IN CASE ms # <<>> -> UserCall(st, sc, ms[1], e, MethodRet(ms[1]))
                 [] IsRecord(ot) /\ fs # <<>> ->
                      LET r == check_list(st, sc, e.args)
                      IN Ann(r.st, [sf |-> TRUE] @@ [e EXCEPT !.args = r.es],
                             IF Kind(fs[1]) = "fn" THEN fs[1][3] ELSE ty_mixed)
                 [] OTHER -> Fail(st, e)

(***************************************************************************)
(* The builtins, each with its shape and the type of its result.           *)
(***************************************************************************)
Each(shape, ret, names) == [n \in names |-> [shape |-> shape, ret |-> ret]]

\* Strings and JSON.
StringBuiltins ==
     Each("LEN", ty_int, {"strlen", "count", "sizeof"})
  @@ Each("STR1", ty_string, {"strtoupper", "strtolower", "ucfirst", "lcfirst", "trim",
                              "chop", "strrev", "nl2br", "json_encode_pretty"})
  @@ Each("MISC", ty_string, {"ltrim", "rtrim", "str_pad", "str_replace", "substr",
                              "implode", "join", "number_format", "json_encode"})
  @@ Each("INT_STR", ty_string, {"str_repeat"})
  @@ Each("STR2", ty_mixed, {"strstr", "strchr"})
  @@ Each("MISC", ty_mixed, {"strpos"})
  @@ Each("STR2", ty_bool, {"str_contains", "str_starts_with", "str_ends_with"})
  @@ Each("CMP", ty_int, {"strcmp", "strcasecmp"})
  @@ Each("MISC", ty_int, {"strncmp", "strncasecmp"})
  @@ Each("STR2", type_array_of(ty_string), {"explode", "split"})
  @@ Each("MISC", ty_void, {"unset"})
  @@ Each("STR_INT", ty_mixed, {"json_decode"})
\* Regular expressions, digests, dates, HTTP, MySQL, codecs and formats.
LibraryBuiltins ==
     Each("MISC", ty_mixed, {"preg_match", "preg_match_all", "preg_replace", "preg_split",
                             "preg_grep", "hash_hmac", "http_post", "mysql_connect",
                             "mysql_query", "mysql_exec"})
  @@ Each("STR1", ty_string, {"sha256", "password_hash", "http_build_query", "mysql_escape",
                              "base64_encode", "base64_decode", "urlencode", "urldecode",
                              "htmlentities", "htmlspecialchars", "bin2hex", "hex2bin",
                              "ucwords"})
  @@ Each("STR2", ty_bool, {"password_verify", "hash_equals"})
  @@ Each("INT_INT", ty_string, {"random_bytes", "chr"})
  @@ Each("MISC", ty_int, {"mktime", "mysql_insert_id", "printf"})
  @@ Each("STR1", ty_int, {"strtotime", "crc32", "ord"})
  @@ Each("STR1", ty_mixed, {"parse_url"})
  @@ Each("MISC", ty_bool, {"mysql_close"})
  @@ Each("MISC", ty_string, {"md5", "sha1", "sprintf", "vsprintf", "wordwrap"})
  @@ Each("MISC", type_array_of(ty_string), {"str_split"})
  @@ Each("STR2", ty_int, {"similar_text", "levenshtein"})
\* Arrays.
ArrayBuiltins ==
     Each("ARRAY", ty_mixed, {"array"})
  @@ Each("KEYS", ty_mixed, {"array_keys"})
  @@ Each("VALUES", ty_mixed, {"array_values"})
  @@ Each("MISC", ty_mixed, {"array_merge", "array_slice", "array_sum", "array_product",
                             "compact", "array_column", "array_chunk", "array_pad",
                             "array_replace", "array_fill_keys", "array_key_first",
                             "array_key_last", "array_map", "array_filter", "array_reduce",
                             "array_fill", "array_combine", "array_diff", "array_intersect",
                             "array_pop", "array_shift", "array_splice", "array_search",
                             "end", "reset"})
  @@ Each("SORTISH", ty_mixed, {"array_reverse", "array_unique", "array_flip"})
  @@ Each("MISC", ty_bool, {"in_array", "array_key_exists", "isset", "usort", "uasort",
                            "uksort", "array_walk", "array_walk_recursive", "shuffle"})
  @@ Each("RANGE", ty_mixed, {"range"})
  @@ Each("STR2", ty_int, {"substr_count"})
  @@ Each("STR1", ty_string, {"str_shuffle", "html_entity_decode"})
  @@ Each("MISC", ty_string, {"strip_tags"})
  @@ Each("MISC", ty_int, {"array_push", "array_unshift"})
  @@ Each("SORT", ty_bool, {"sort", "rsort", "ksort", "krsort", "asort"})
\* Numbers.
MathBuiltins ==
     Each("MAXMIN", ty_mixed, {"max", "min"})
  @@ Each("MISC", ty_int, {"rand", "random_int", "intdiv"})
  @@ Each("MISC", ty_float, {"mt_rand", "fmod", "pi", "M_PI", "hypot", "lcg_value"})
  @@ Each("MISC", ty_void, {"srand", "mt_srand"})
  @@ Each("MISC", ty_string, {"fgetc"})
  @@ Each("ABS", ty_mixed, {"abs"})
  @@ Each("MISC", ty_mixed, {"round", "pow"})
  @@ Each("ABS", ty_float, {"floor", "ceil", "sqrt", "sin", "cos", "tan", "atan", "atan2",
                            "asin", "acos", "log", "log2", "log10", "exp", "deg2rad",
                            "rad2deg"})
  @@ Each("ABS", ty_bool, {"is_nan", "is_finite", "is_infinite"})
\* Types and their conversions.
TypeBuiltins ==
     Each("ABS", ty_bool, {"is_int", "is_integer", "is_float", "is_string", "is_bool",
                           "is_array", "is_null", "is_numeric", "boolval"})
  @@ Each("ABS", ty_int, {"intval"})
  @@ Each("ABS", ty_float, {"floatval", "doubleval"})
  @@ Each("ABS", ty_string, {"strval", "gettype", "serialize"})
  @@ Each("MISC", ty_void, {"var_dump"})
  @@ Each("MISC", ty_string, {"print_r", "var_export"})
  @@ Each("ABS", ty_mixed, {"unserialize"})
\* Files, sockets, number bases and the process.
IoBuiltins ==
     Each("STR1", ty_string, {"readline", "dirname", "getenv"})
  @@ Each("STR1", ty_mixed, {"file_get_contents", "fgets", "realpath", "http_get"})
  @@ Each("MISC", ty_mixed, {"file_put_contents", "pathinfo", "http_request",
                             "stream_socket_server", "stream_socket_client",
                             "stream_socket_accept", "stream_socket_accept2",
                             "sys_getloadavg"})
  @@ Each("STR1", ty_bool, {"file_exists", "is_dir", "rmdir", "unlink", "fclose", "is_file",
                            "is_readable", "is_writable", "touch", "putenv"})
  @@ Each("STR1", ty_int, {"filesize", "bindec", "octdec", "hexdec"})
  @@ Each("MISC", ty_bool, {"mkdir", "checkdate", "feof", "stream_set_blocking",
                            "stream_eof", "stream_close"})
  @@ Each("STR2", ty_bool, {"rename"})
  @@ Each("STR2", ty_mixed, {"copy", "fopen"})
  @@ Each("STR2", ty_int, {"fwrite"})
  @@ Each("STR1", type_array_of(ty_string), {"scandir", "glob"})
  @@ Each("MISC", ty_string, {"basename", "fread", "stream_recv", "stream_peer",
                              "php_uname", "phpversion", "php_sapi_name", "php_logo_guid",
                              "date", "php_sapi"})
  @@ Each("ZERO", ty_string, {"sys_get_temp_dir", "getcwd"})
  @@ Each("MISC", type_array_of(ty_mixed), {"stream_ready"})
  @@ Each("MISC", ty_int, {"stream_send", "hrtime", "memory_get_usage",
                           "memory_get_peak_usage", "gc_collect_cycles", "time"})
  @@ Each("INT_INT", ty_string, {"decbin", "decoct", "dechex"})
  @@ Each("MISC", ty_float, {"microtime"})
  @@ Each("INT_INT", ty_void, {"usleep"})
  @@ Each("INT_INT", ty_int, {"sleep"})
  @@ Each("MISC", ty_void, {"exit", "die"})
\* Windows, controls, menus and dialogs.
UiBuiltins ==
     Each("INT_INT", ty_int, {"ui_dispatch"})
  @@ Each("ZERO", ty_void, {"ui_run_main", "ui_quit"})
  @@ Each("MISC", ty_int, {"ui_window", "ui_show", "ui_title", "ui_size", "ui_pos",
                           "ui_close", "ui_add", "ui_set", "ui_enable", "ui_move",
                           "ui_focus", "ui_items", "ui_remove", "ui_clear", "ui_ctrl_show",
                           "ui_selected", "ui_select", "ui_check_get", "ui_check_set",
                           "ui_progress", "ui_slider_get", "ui_slider_set", "ui_bg",
                           "ui_fg", "ui_font", "ui_menu", "ui_menu_item", "ui_menu_sep",
                           "ui_menu_check", "ui_on", "ui_timer", "ui_msg", "ui_theme",
                           "ui_style", "ui_accent", "ui_radius", "ui_range", "ui_repaint",
                           "ui_text_px", "ui_text_lines", "ui_count", "ui_progress_get"})
  @@ Each("MISC", ty_bool, {"ui_alive", "ui_enabled"})
  @@ Each("MISC", ty_string, {"ui_get", "ui_item_text"})
  @@ Each("MISC", ty_mixed, {"ui_open_file", "ui_save_file", "ui_pick_folder",
                             "ui_pick_color"})
  @@ Each("STR1", ty_int, {"ui_clip_set"})
  @@ Each("ZERO", ty_string, {"ui_clip_get"})
  @@ Each("MISC", type_array_of(ty_int), {"ui_rect", "ui_scroll"})
\* The embedded browser.
BrowserBuiltins ==
     Each("MISC", ty_int, {"ui_hwnd", "ui_browser_new", "ui_browser_free", "ui_browser_fit",
                           "ui_browser_go", "ui_browser_html", "ui_browser_back",
                           "ui_browser_forward", "ui_browser_reload", "ui_browser_stop",
                           "ui_browser_zoom", "ui_browser_devtools", "ui_browser_on",
                           "ui_browser_key", "ui_browser_visible"})
  @@ Each("ZERO", ty_bool, {"ui_browser_ready"})
  @@ Each("ZERO", ty_string, {"ui_browser_loader"})
  @@ Each("MISC", ty_bool, {"ui_browser_can_back", "ui_browser_can_forward"})
  @@ Each("MISC", ty_string, {"ui_browser_url", "ui_browser_title"})
  @@ Each("MISC", ty_float, {"ui_browser_zoom_get"})
\* Workers, channels, mutexes, barriers and atomics.
ThreadBuiltins ==
     Each("MISC", ty_mixed, {"thr_spawn", "thr_join", "thr_parallel_map", "chan_recv",
                             "chan_try_recv"})
  @@ Each("ZERO", ty_int, {"thr_current", "thr_id", "thr_cpu_count", "mutex_new"})
  @@ Each("INT_INT", ty_void, {"thr_sleep_ms"})
  @@ Each("INT_INT", ty_int, {"chan_new", "barrier_new"})
  @@ Each("MISC", ty_bool, {"chan_send", "chan_try_send", "chan_close", "mutex_lock",
                            "mutex_trylock", "mutex_unlock", "mutex_free", "atomic_set",
                            "atomic_cas"})
  @@ Each("MISC", ty_int, {"barrier_wait", "atomic_new", "atomic_get", "atomic_add"})
\* Raw memory and foreign functions, for unsafe blocks only.
UnsafeBuiltins ==
     Each("INT_INT", ty_mixed, {"malloc"})
  @@ Each("MISC", ty_void, {"free"})
  @@ Each("MISC", ty_mixed, {"memcpy", "memset", "ffi_call"})
  @@ Each("STR1", ty_mixed, {"ffi_load"})
  @@ Each("MISC", ty_string, {"heap_dump"})

(* How many arguments a shape takes.  *)
ArgCounts(shape) == CASE shape = "ZERO" -> 0 .. 0
                      [] shape \in {"STR1", "LEN", "ABS", "INT_INT", "SORT"} -> 1 .. 1
                      [] shape \in {"STR2", "INT_STR", "CMP"} -> 2 .. 2
                      [] shape \in {"STR_INT", "MAXMIN"} -> 1 .. 99
                      [] OTHER -> 0 .. 99
Listed == StringBuiltins @@ LibraryBuiltins @@ ArrayBuiltins @@ MathBuiltins @@ TypeBuiltins
          @@ IoBuiltins @@ UiBuiltins @@ BrowserBuiltins @@ ThreadBuiltins @@ UnsafeBuiltins
Builtin == [n \in DOMAIN Listed |->
              [args |-> ArgCounts(Listed[n].shape),
               ret |-> IF Listed[n].shape = "ARRAY" THEN type_array_of(ty_mixed) ELSE Listed[n].ret]]
IsBuiltin(name) == name \in DOMAIN Builtin
Unsafe == DOMAIN UnsafeBuiltins

(* The preg matchers declare an unknown third argument before the arguments *)
(* are checked; one that is known keeps its flags.                          *)
PregOut(st, sc, e) ==
  LET m == e.args[3].name
      d == scope_declare(st, sc, m, type_array_of(ty_mixed), TRUE)
      w == scope_find(d, sc, m)
  IN IF scope_find(st, sc, m) # 0 \/ w = 0 THEN st
     ELSE [d EXCEPT !.syms[w].is_auto = TRUE, !.syms[w].is_preg_out = TRUE]

(* compact becomes a map of the variables its literal arguments name. *)
CompactMap(st, sc, e) ==
  LET known == SelectSeq(e.args, LAMBDA a : a.k = "str" /\ scope_find(st, sc, a.v) # 0)
  IN Ann(st, [k |-> "arr",
              keys |-> [i \in DOMAIN known |-> [k |-> "str", v |-> known[i].v, type |-> ty_string]],
              vals |-> [i \in DOMAIN known |->
                          LET v == scope_find(st, sc, known[i].v)
                          IN [k |-> "var", name |-> known[i].v, bare |-> FALSE, sym |-> v,
                              type |-> st.syms[v].type]],
              elems |-> <<>>], type_array_of(ty_mixed))

check_builtin_call(st, sc, name, e) ==
  LET preg == name \in {"preg_match", "preg_match_all"}
      out  == preg /\ Len(e.args) = 3
      st1  == ErrorIf(st, preg /\ Len(e.args) \notin 2 .. 3)
      st2  == CASE out /\ e.args[3].k = "var" -> PregOut(st1, sc, e)
                [] out -> sema_error(st1)
                [] OTHER -> st1
      r    == check_list(st2, sc, e.args)
      e2   == [builtin |-> name] @@ [e EXCEPT !.args = r.es]
  IN IF name = "compact" THEN CompactMap(r.st, sc, e)
     ELSE Ann(ErrorIf(r.st, ~ out /\ Len(e.args) \notin Builtin[name].args), e2,
              IF out THEN ty_int ELSE Builtin[name].ret)

FnValueCall(st, sc, e) ==
  LET f == check_expr(st, sc, e.fn)
      t == f.e.type
      r == check_list(f.st, sc, e.args)
      e2 == [e EXCEPT !.fn = f.e, !.args = r.es]
  IN CASE Kind(t) = "fn" ->
            Ann(ErrorIf(r.st, ~ t[4] /\ \/ Len(e.args) # Len(t[2])
                                        \/ \E i \in DOMAIN e.args :
                                             /\ i <= Len(t[2])
                                             /\ ~ types_compatible(t[2][i], r.es[i].type)),
                e2, IF t[3] = None THEN ty_mixed ELSE t[3])
       [] t = ty_mixed -> Ann(r.st, e2, ty_mixed)
       [] OTHER -> Fail(r.st, e2)

check_call(st, sc, e) ==
  LET name  == e.fn.name
      local == IF e.fn.bare THEN 0 ELSE scope_find(st, sc, name)
  IN CASE e.fn.k # "var" \/ (local # 0 /\ Kind(st.syms[local].type) = "fn") ->
            FnValueCall(st, sc, e)
       [] IsBuiltin(name) -> check_builtin_call(ErrorIf(st, name \in Unsafe /\ ~ st.scopes[sc].unsafe),
                                                sc, name, e)
       [] IsFn(st, name) ->
            LET ret == FnRet(find_function(st, name))
            IN UserCall(st, sc, find_function(st, name), e, IF ret = None THEN ty_mixed ELSE ret)
       [] local # 0 -> FnValueCall(st, sc, e)
       [] OTHER -> LET r == check_list(st, sc, e.args) IN Fail(r.st, [e EXCEPT !.args = r.es])

PhpConst == [PHP_INT_MAX |-> ty_int, PHP_EOL |-> ty_string, M_PI |-> ty_float, PHP_NULL |-> ty_mixed]

(* $this belongs to a method's scope, or to one that has met it before: a  *)
(* closure's scope has it only when its own scope or an outer one met it.  *)
ThisVar(st, sc, e) ==
  LET cls == IF st.scopes[sc].cls # "" THEN st.scopes[sc].cls ELSE st.scopes[sc].fn.cls
      t   == IF Self(st, sc) # None THEN Self(st, sc) ELSE <<"class", cls>>
  IN Ann([st EXCEPT !.scopes[sc].cls = cls, !.scopes[sc].self = t,
                    !.clos = [d \in DOMAIN @ |-> [@[d] EXCEPT !.this = TRUE]]],
         [sym |-> 0] @@ e, t)

check_var(st, sc, e) ==
  LET local == scope_find(st, sc, e.name)
      v     == IF local # 0 THEN local ELSE program_global_find(st, e.name)
  IN CASE e.name = "argc" -> Ann(st, [sym |-> 0] @@ e, ty_int)
       [] e.name = "argv" -> Ann(st, [sym |-> 0] @@ e, type_array_of(ty_string))
       [] e.name = "this" /\ (st.scopes[sc].cls # "" \/ st.scopes[sc].fn.method) -> ThisVar(st, sc, e)
       [] v = 0 /\ e.name \in DOMAIN PhpConst -> Ann(st, e, PhpConst[e.name])
       [] v = 0 -> Fail(st, e)
       [] OTHER -> Ann(ErrorIf(Capture(st, v), st.syms[v].moved_from), [sym |-> v] @@ e, st.syms[v].type)

(* Slots hold values of any kind: only one and the same Type stays static. *)
OneType(a, b) == /\ a.type = b.type
                 /\ Len(a.type) = 1 \/ (a.k = "var" /\ b.k = "var" /\ a.name = b.name)
JoinTypes(es) ==
  IF es # <<>> /\ \A i \in 2 .. Len(es) : OneType(es[1], es[i]) THEN es[1].type ELSE ty_mixed

check_array_lit(st, sc, e) ==
  IF e.vals # <<>>
  THEN LET Pairs[i \in 0 .. Len(e.vals)] ==
             IF i = 0 THEN [st |-> st, ks |-> <<>>, vs |-> <<>>]
             ELSE LET k == check_expr(Pairs[i - 1].st, sc, e.keys[i])
                      v == check_expr(k.st, sc, e.vals[i])
                  IN [st |-> v.st, ks |-> Append(Pairs[i - 1].ks, k.e),
                      vs |-> Append(Pairs[i - 1].vs, v.e)]
           r == Pairs[Len(e.vals)]
       IN Ann(r.st, [e EXCEPT !.keys = r.ks, !.vals = r.vs],
              <<"map", JoinTypes(r.ks), JoinTypes(r.vs)>>)
  ELSE LET r == check_list(st, sc, e.elems)
       IN Ann(r.st, [e EXCEPT !.elems = r.es], type_array_of(JoinTypes(r.es)))

check_index(st, sc, e) ==
  LET o == check_expr(st, sc, e.obj)
      i == IF e.idx.k = "none" THEN [st |-> o.st, e |-> [type |-> ty_int] @@ e.idx]
           ELSE check_expr(o.st, sc, e.idx)
      ot == o.e.type
      it == i.e.type
      want == IF Kind(ot) = "map" THEN ot[2] ELSE ty_int
      e2 == [e EXCEPT !.obj = o.e, !.idx = i.e]
  IN CASE Kind(ot) = "array" /\ it = ty_string -> Ann(i.st, e2, ty_mixed)
       [] Kind(ot) \in {"array", "vec", "map"} ->
            Ann(ErrorIf(i.st, ~ types_compatible(want, it)), e2, elem_type_of(ot))
       [] ot \in {ty_string, ty_mixed} -> Ann(i.st, e2, ot)
       [] OTHER -> Fail(i.st, e2)

check_field(st0, sc, e0) ==
  LET o  == check_expr(st0, sc, e0.obj)
      st == o.st
      e  == [e0 EXCEPT !.obj = o.e]
      ot == IF Kind(o.e.type) \in {"own", "rc", "ref", "mutref"} THEN o.e.type[2] ELSE o.e.type
      case == LET en == find_enum(st, e.obj.name) IN {i \in DOMAIN en.cases : en.cases[i] = e.name}
      Typed(t) == LET r == resolve_type(st, Self(st, sc), t) IN Ann(ErrorIf(st, ~ r.ok), e, r.t)
  IN CASE IsRecord(ot) ->
            LET fs == IF IsClass(st, ot[2]) THEN class_find_field(st, find_class(st, ot[2]), e.name)
                      ELSE <<>>
            IN IF fs = <<>> THEN Fail(st, e)
               ELSE IF fs[1] = None THEN Ann(st, e, ty_mixed) ELSE Typed(fs[1])
       [] e.static /\ e.obj.k = "var" /\ IsEnum(st, e.obj.name) ->
            IF case = {} THEN Fail(st, e) ELSE Ann(st, e, <<"enum", e.obj.name>>)
       [] e.static /\ e.obj.k = "var" /\ IsClass(st, e.obj.name) ->
            LET fs == class_find_field(st, find_class(st, e.obj.name), e.name)
            IN IF fs = <<>> THEN Fail(st, e) ELSE Typed(fs[1])
       [] OTHER -> Fail(st, e)

check_static(st, sc, e) ==
  LET ms == IF IsClass(st, e.cls) THEN MethodsOf(st, find_class(st, e.cls), e.name) ELSE <<>>
  IN CASE ms # <<>> -> UserCall(st, sc, ms[1], e, MethodRet(ms[1]))
       [] IsBuiltin(e.name) -> check_builtin_call(st, sc, e.name, e)
       [] IsFn(st, e.name) ->
            UserCall(st, sc, find_function(st, e.name), e, MethodRet(find_function(st, e.name)))
       [] OTHER -> Fail(st, e)

check_new(st, sc, e) ==
  IF ~ IsClass(st, e.cls)
  THEN IF e.cls = "Exception"
       THEN LET r == check_list(st, sc, e.args)
            IN Ann(ErrorIf(r.st, Len(e.args) > 1), [e EXCEPT !.args = r.es], <<"class", e.cls>>)
       ELSE Fail(st, e)
  ELSE LET ctor == MethodsOf(st, find_class(st, e.cls), "__construct")
       IN IF ctor # <<>> THEN UserCall(st, sc, ctor[1], e, <<"own", <<"class", e.cls>>>>)
          ELSE Ann(ErrorIf(st, e.args # <<>>), e, <<"own", <<"class", e.cls>>>>)

check_unary(st, sc, e) ==
  LET o == check_expr(st, sc, e.e)
      t == o.e.type
      wrong == \/ e.op \in {"-", "+"} /\ ~ type_is_numeric(t)
               \/ e.op = "~" /\ ~ type_is_integral(t)
  IN Ann(ErrorIf(o.st, wrong), [e EXCEPT !.e = o.e], IF e.op = "!" THEN ty_bool ELSE t)

(* Assignment declares the variable; the program's own variables are also  *)
(* remembered for `global`.                                                *)
Declare(st, sc, name, t) ==
  LET d == scope_declare(st, sc, name, t, TRUE)
      v == Len(d.syms)
      top == st.scopes[sc].fn.top /\ program_global_find(d, name) = 0
  IN IF v = Len(st.syms) THEN d
     ELSE [d EXCEPT !.syms[v].is_auto = TRUE, !.globals = IF top THEN Append(@, v) ELSE @]

(* [$a, , $k] = ...: a slot is a variable or, skipped, "none".             *)
Slots(st, sc, slots) ==
  LET Step[i \in 0 .. Len(slots)] ==
        IF i = 0 THEN st
        ELSE LET s == Step[i - 1]
             IN CASE slots[i].k = "none" -> s
                  [] slots[i].k # "var" -> sema_error(s)
                  [] scope_find(s, sc, slots[i].name) # 0 -> s
                  [] OTHER -> LET d == scope_declare(s, sc, slots[i].name, ty_mixed, TRUE)
                              IN IF Len(d.syms) = Len(s.syms) THEN d
                                 ELSE [d EXCEPT !.syms[Len(d.syms)].is_auto = TRUE]
  IN Step[Len(slots)]

check_destructuring(st, sc, e) ==
  LET v == check_expr(st, sc, e.v)
      keyed == e.t.vals # <<>>
      ks == check_list(v.st, sc, IF keyed THEN e.t.keys ELSE <<>>)
      slots == IF keyed THEN e.t.vals ELSE e.t.elems
      d == Slots(ks.st, sc, slots)
      named == [i \in DOMAIN slots |->
                  IF slots[i].k = "var" THEN [sym |-> scope_find(d, sc, slots[i].name)] @@ slots[i]
                  ELSE slots[i]]
  IN Ann(d, [e EXCEPT !.v = v.e, !.t = [@ EXCEPT !.keys = ks.es,
                                          !.vals = IF keyed THEN named ELSE @,
                                          !.elems = IF keyed THEN @ ELSE named]],
         IF Kind(v.e.type) \in {"array", "vec"} THEN v.e.type ELSE ty_mixed)

Target(st, sc, name) ==
  LET local == scope_find(st, sc, name)
  IN IF local = 0 /\ st.scopes[sc].fn.top THEN program_global_find(st, name) ELSE local

(* An owner assigned from another variable empties that one.               *)
SlipMoveOut(st, sc, e) == st
MoveOut(st, sc, e) ==
  LET src == IF e.k = "var" THEN scope_find(st, sc, e.name) ELSE 0
  IN IF src # 0 /\ Smart(st.syms[src].type) THEN [st EXCEPT !.syms[src].moved_from = TRUE] ELSE st

Compound(op, tt, vt) ==
  LET Loose(t) == t # None /\ (type_is_numeric(t) \/ Kind(t) \in {"string", "mixed"})
  IN CASE op \in {"=", "??="} -> TRUE
       [] op = ".=" -> vt = ty_string /\ tt \in {None, ty_string, ty_mixed}
       [] OTHER -> \/ type_is_numeric(tt) /\ type_is_numeric(vt)
                   \/ op \in {"<<=", ">>="} /\ Loose(vt) /\ (tt = None \/ Loose(tt))
                   \/ ty_mixed \in {tt, vt}

check_assign(st, sc, e) ==
  IF e.t.k = "arr" /\ e.op = "=" THEN check_destructuring(st, sc, e)
  ELSE
    LET v  == IF e.v.k = "none" THEN Ann(st, e.v, ty_mixed) ELSE check_expr(st, sc, e.v)
        vt == v.e.type
        x  == IF e.t.k = "var" THEN Target(v.st, sc, e.t.name) ELSE 0
        ann == resolve_type(v.st, Self(st, sc), e.ann)
        new == e.t.k = "var" /\ x = 0
        d  == Declare(ErrorIf(v.st, \/ ~ ann.ok
                                    \/ e.v.k # "none" /\ ~ types_compatible(ann.t, vt)),
                      sc, e.t.name, IF e.ann # None THEN ann.t ELSE vt)
        w  == CASE new -> [st |-> d, e |-> [sym |-> Len(d.syms)] @@ e.t]
                [] e.t.k = "var" ->
                     [st |-> ErrorIf(IF Smart(v.st.syms[x].type) THEN MoveOut(v.st, sc, e.v) ELSE v.st,
                                     ~ v.st.syms[x].is_mut),
                      e |-> [sym |-> x] @@ e.t]
                [] OTHER -> LET t == check_expr(v.st, sc, e.t)
                            IN [st |-> ErrorIf(t.st, e.t.k \notin {"index", "field"}), e |-> t.e]
        tt == CASE new \/ e.t.k = "index" -> None
                [] e.t.k = "var" -> v.st.syms[x].type
                [] OTHER -> w.e.type
    IN Ann(ErrorIf(w.st, ~ Compound(e.op, tt, vt) \/ ~ types_compatible(tt, vt)),
           [e EXCEPT !.t = w.e, !.v = v.e], IF tt = None THEN ty_mixed ELSE tt)

check_ternary(st, sc, e) ==
  LET c == check_expr(st, sc, e.c)
      a == check_expr(c.st, sc, e.a)
      b == check_expr(a.st, sc, e.b)
  IN Ann(b.st, [e EXCEPT !.c = c.e, !.a = a.e, !.b = b.e],
         CASE types_compatible(a.e.type, b.e.type) -> a.e.type
           [] types_compatible(b.e.type, a.e.type) -> b.e.type
           [] OTHER -> ty_mixed)

(* The result type of a match is that of its first arm while the others    *)
(* fit; the default arm is not compared.                                   *)
Arms(st, sc, arms, rt) ==
  IF arms = <<>> THEN [st |-> st, arms |-> <<>>, t |-> rt]
  ELSE LET p == check_list(st, sc, Head(arms).pats)
           b == check_expr(p.st, sc, Head(arms).body)
           t == CASE rt = None -> b.e.type
                  [] types_compatible(rt, b.e.type) -> rt
                  [] OTHER -> ty_mixed
           r == Arms(b.st, sc, Tail(arms), t)
       IN [r EXCEPT !.arms = <<[pats |-> p.es, body |-> b.e]>> \o @]

check_match(st, sc, e) ==
  LET s == check_expr(st, sc, e.subj)
      r == Arms(s.st, sc, e.arms, None)
      d == IF e.dflt.k = "none" THEN Ann(ErrorIf(r.st, e.arms = <<>>), e.dflt, ty_mixed)
           ELSE check_expr(r.st, sc, e.dflt)
  IN Ann(d.st, [e EXCEPT !.subj = s.e, !.arms = r.arms, !.dflt = d.e],
         IF r.t = None THEN d.e.type ELSE r.t)

(* Parameters in order; a reference parameter can be assigned.             *)
Declared(st, sc, ps, self) ==
  IF ps = <<>> THEN st
  ELSE LET p == Head(ps)
           t == resolve_type(st, self, IF p.type = None THEN ty_mixed ELSE p.type)
           d == scope_declare(ErrorIf(st, ~ t.ok), sc, p.name, t.t, p.is_mut \/ p.by_ref)
           v == Len(d.syms)
       IN Declared(IF v = Len(st.syms) THEN d
                   ELSE [d EXCEPT !.syms[v].is_param = TRUE, !.syms[v].is_param_ref = p.by_ref],
                   sc, Tail(ps), self)

(* use (...): the closure's scope holds the outer symbol itself.           *)
Used(st, outer, sc, us) ==
  IF us = <<>> THEN st
  ELSE LET u == Head(us)
           v == scope_find(st, outer, u.name)
           b == IF u.by_ref THEN [st EXCEPT !.syms[v].captured_byref = TRUE, !.syms[v].type = ty_mixed]
                ELSE st
           x == Expose(b, sc, v)
       IN Used(CASE v = 0 -> sema_error(st)
                 [] st.syms[v].is_global_alias \/ st.syms[v].is_program_global -> x
                 [] OTHER -> note_capture(x, v),
               outer, sc, Tail(us))

check_closure(st, sc, e) ==
  LET fn  == e.fn
      ret == resolve_type(st, Self(st, sc), IF fn.ret = None THEN ty_mixed ELSE fn.ret)
      fs  == Newest(st) + 1
      s1  == scope_init(st, sc, [EmptyScope EXCEPT
               !.fn = [TopLevel EXCEPT !.top = FALSE, !.ret = ret.t], !.cls = st.scopes[sc].cls,
               !.self = Self(st, sc), !.unsafe = st.scopes[sc].unsafe])
      s2  == [s1 EXCEPT !.clos = Append(@, [seq |-> fs, caps |-> <<>>, this |-> FALSE]),
                        !.ok = @ /\ ret.ok]
      s3  == Used(Declared(s2, fs, fn.params, Self(st, sc)), sc, fs, fn.use_vars)
      b   == StmtList(s3, fs, fn.body)
      d   == Len(b.st.clos)
      pts == [i \in DOMAIN fn.params |->
                IF fn.params[i].type = None THEN ty_mixed
                ELSE resolve_type(st, Self(st, sc), fn.params[i].type).t]
  IN IF Len(st.clos) >= MAX_CLOSURES THEN Fail(st, e)
     ELSE Ann([b.st EXCEPT !.clos = SubSeq(@, 1, d - 1)],
              [e EXCEPT !.fn = [captures |-> b.st.clos[d].caps, uses_this |-> b.st.clos[d].this,
                                psyms |-> SubSeq(b.st.scopes[fs].vars, 1, Len(fn.params))]
                               @@ [fn EXCEPT !.body = b.ss, !.ret = ret.t]],
              <<"fn", pts, ret.t, FALSE>>)

(* &$x: many readers or one writer.                                        *)
check_borrow(st, sc, e) ==
  LET v == IF e.e.k = "var" THEN scope_find(st, sc, e.e.name) ELSE 0
      n == Len(st.clos)
      c == IF n > 0 /\ Outside(st, v, n) THEN note_capture(st, v) ELSE st
      mut == e.k = "mutborrow"
      others == loans_of(c, v)
      refused == (mut /\ (~ c.syms[v].is_mut \/ others # {})) \/ TRUE \in others
  IN IF v = 0 THEN Fail(st, e)
     ELSE Ann(loans_push(ErrorIf(c, refused), v, mut), [e EXCEPT !.e = [sym |-> v] @@ @],
              <<IF mut THEN "mutref" ELSE "ref", c.syms[v].type>>)

check_deref(st, sc, e) ==
  LET o == check_expr(st, sc, e.e)
      t == o.e.type
  IN IF ~ type_is_pointerish(t) THEN Fail(o.st, [e EXCEPT !.e = o.e])
     ELSE Ann(ErrorIf(o.st, Kind(t) = "ptr" /\ ~ st.scopes[sc].unsafe), [e EXCEPT !.e = o.e], t[2])

check_cast(st, sc, e) ==
  LET o  == check_expr(st, sc, e.e)
      to == resolve_type(o.st, Self(st, sc), e.to)
      wrong == /\ Kind(to.t) = "ptr"
               /\ ~ st.scopes[sc].unsafe \/ (~ type_is_pointerish(o.e.type) /\ o.e.type # ty_int)
  IN Ann(ErrorIf(o.st, ~ to.ok \/ wrong), [e EXCEPT !.e = o.e, !.to = to.t],
         IF e.k = "is" THEN ty_bool ELSE to.t)

LiteralType == [int |-> ty_int, float |-> ty_float, str |-> ty_string, bool |-> ty_bool,
                null |-> ty_mixed]

check_expr(st, sc, e) ==
  CASE e.k \in DOMAIN LiteralType -> Ann(st, e, LiteralType[e.k])
    [] e.k = "tpl"     -> LET r == check_list(st, sc, e.es)
                          IN Ann(r.st, [e EXCEPT !.es = r.es], ty_string)
    [] e.k = "var"     -> check_var(st, sc, e)
    [] e.k = "arr"     -> check_array_lit(st, sc, e)
    [] e.k = "index"   -> check_index(st, sc, e)
    [] e.k = "field"   -> check_field(st, sc, e)
    [] e.k = "call"    -> check_call(st, sc, e)
    [] e.k = "method"  -> check_method_call(st, sc, e)
    [] e.k = "static"  -> check_static(st, sc, e)
    [] e.k = "new"     -> check_new(st, sc, e)
    [] e.k = "bin"     -> check_bin(st, sc, e)
    [] e.k = "un"      -> check_unary(st, sc, e)
    [] e.k = "assign"  -> check_assign(st, sc, e)
    [] e.k = "tern"    -> check_ternary(st, sc, e)
    [] e.k = "match"   -> check_match(st, sc, e)
    [] e.k = "closure" -> check_closure(st, sc, e)
    [] e.k \in {"borrow", "mutborrow"} -> check_borrow(st, sc, e)
    [] e.k = "deref"   -> check_deref(st, sc, e)
    [] e.k \in {"cast", "is"} -> check_cast(st, sc, e)

(***************************************************************************)
(* Statements.                                                             *)
(***************************************************************************)
(* The first error decides the verdict; the program goes on to find more.  *)
StmtList(st, sc, ss) ==
  IF ss = <<>> \/ ~ st.ok THEN [st |-> st, ss |-> ss]
  ELSE LET a == check_stmt(st, sc, Head(ss))
           r == StmtList(a.st, sc, Tail(ss))
       IN [st |-> r.st, ss |-> <<a.s>> \o r.ss]

check_block(st, sc, ss) ==
  LET r == StmtList(st, sc, ss) IN [r EXCEPT !.st = loans_release_all(@)]

Inner(st, sc) == scope_init(st, sc, st.scopes[sc])
Deeper(st, sc, d) == [st EXCEPT !.scopes[sc].loop = @ + d]
Condition(st, sc, e) ==
  LET c == check_expr(st, sc, e)
  IN [c EXCEPT !.st = ErrorIf(@, c.e.type \notin {ty_bool, ty_mixed})]

(* global $a: one symbol for the program, and an alias of it in this scope *)
RECURSIVE Root(_, _)
Root(st, sc) == IF st.scopes[sc].parent = 0 THEN sc ELSE Root(st, st.scopes[sc].parent)
Globals(st, sc, names) ==
  IF names = <<>> THEN [st |-> st, syms |-> <<>>]
  ELSE LET n == Head(names)
           own == SelectSeq(st.scopes[Root(st, sc)].vars,
                            LAMBDA v : st.syms[v].name = n /\ ~ st.syms[v].is_global_alias)
           found == program_global_find(st, n)
           s1 == CASE own # <<>> /\ found = 0 -> [st EXCEPT !.globals = Append(@, own[1])]
                   [] own = <<>> /\ found = 0 -> program_global_get(st, n)
                   [] OTHER -> st
           gv == CASE own # <<>> -> own[1] [] found # 0 -> found [] OTHER -> Len(s1.syms)
           s2 == [s1 EXCEPT !.syms[gv] = [@ EXCEPT !.is_mut = TRUE, !.is_auto = TRUE,
                                                   !.is_program_global = TRUE]]
           s3 == [s2 EXCEPT !.syms = Append(@, [s2.syms[gv] EXCEPT !.is_global_alias = TRUE])]
           r  == Globals(Expose(s3, sc, Len(s3.syms)), sc, Tail(names))
       IN [r EXCEPT !.syms = <<gv>> \o @]

check_let(st, sc, s) ==
  LET i == check_expr(st, sc, s.init)
      t == resolve_type(i.st, Self(st, sc), IF s.ann = None THEN i.e.type ELSE s.ann)
      d == scope_declare(ErrorIf(i.st, ~ t.ok \/ ~ types_compatible(t.t, i.e.type)), sc, s.name,
                         t.t, s.is_mut)
      src == IF s.init.k = "var" THEN scope_find(d, sc, s.init.name) ELSE 0
      moves == Smart(i.e.type) /\ src # 0 /\ ~ s.is_mut
  IN [st |-> IF moves THEN [d EXCEPT !.syms[src].moved_from = TRUE] ELSE d,
      s  |-> [sym |-> Len(d.syms)] @@ [s EXCEPT !.init = i.e]]

check_return(st, sc, s) ==
  LET rt == resolve_type(st, Self(st, sc), IF st.scopes[sc].fn.ret = None THEN ty_void
                                           ELSE st.scopes[sc].fn.ret).t
      v  == check_expr(st, sc, s.value)
  IN IF s.value.k = "none" THEN [st |-> ErrorIf(st, rt \notin {ty_void, ty_mixed}), s |-> s]
     ELSE [st |-> ErrorIf(v.st, rt = ty_void \/ ~ types_compatible(rt, v.e.type)),
           s  |-> [s EXCEPT !.value = v.e]]

Cases(st, sc, t, cs) ==
  IF cs = <<>> THEN [st |-> st, cs |-> <<>>]
  ELSE LET p == check_list(st, sc, Head(cs).pats)
           fits == \A i \in DOMAIN p.es :
                     \/ type_is_numeric(t) /\ (type_is_numeric(p.es[i].type) \/ p.es[i].type = ty_mixed)
                     \/ t \in {ty_string, ty_mixed} /\ p.es[i].type \in {ty_string, ty_mixed}
           b == check_block(ErrorIf(p.st, ~ fits), sc, Head(cs).body)
           r == Cases(b.st, sc, t, Tail(cs))
       IN [r EXCEPT !.cs = <<[Head(cs) EXCEPT !.pats = p.es, !.body = b.ss]>> \o @]

check_switch(st, sc, s) ==
  LET c == check_expr(st, sc, s.c)
      known == type_is_numeric(c.e.type) \/ c.e.type \in {ty_string, ty_mixed}
      r == Cases(Deeper(ErrorIf(c.st, ~ known), sc, 1), sc, c.e.type, s.cases)
  IN [st |-> Deeper(r.st, sc, -1), s |-> [s EXCEPT !.c = c.e, !.cases = r.cs]]

check_for(st, sc, s) ==
  LET i == StmtList(st, sc, s.init)
      c == IF s.c.k = "none" THEN Ann(i.st, s.c, ty_bool) ELSE Condition(i.st, sc, s.c)
      u == StmtList(c.st, sc, s.step)
      b == check_block(Deeper(u.st, sc, 1), sc, s.body)
  IN [st |-> Deeper(b.st, sc, -1),
      s  |-> [s EXCEPT !.init = i.ss, !.c = c.e, !.step = u.ss, !.body = b.ss]]

(* The loop variables live in a scope of their own and cannot be assigned. *)
check_foreach(st, sc, s) ==
  LET i == check_expr(st, sc, s.iter)
      t == i.e.type
      known == Kind(t) \in {"array", "vec", "map", "string", "mixed", "option", "result"}
      key == CASE Kind(t) = "map" -> t[2] [] Kind(t) \in {"array", "vec", "string"} -> ty_int
               [] OTHER -> ty_mixed
      n  == Inner(Deeper(ErrorIf(i.st, ~ known), sc, 1), sc)
      fs == Newest(n)
      v  == scope_declare(Deeper(n, sc, -1), fs, s.var, elem_type_of(t), FALSE)
      k  == IF s.kvar = "" THEN v ELSE scope_declare(v, fs, s.kvar, key, FALSE)
      b  == check_block(k, fs, s.body)
  IN [st |-> b.st, s |-> [vsym |-> Len(v.syms), ksym |-> IF s.kvar = "" THEN 0 ELSE Len(k.syms)]
                         @@ [s EXCEPT !.iter = i.e, !.body = b.ss]]

Catches(st, sc, cs) ==
  IF cs = <<>> THEN [st |-> st, cs |-> <<>>]
  ELSE LET c == Head(cs)
           t == resolve_type(st, Self(st, sc), IF c.type = None THEN ty_mixed ELSE c.type)
           n == Inner(ErrorIf(st, ~ t.ok), sc)
           d == scope_declare(n, Newest(n), c.var, t.t, FALSE)
           b == check_block(d, Newest(n), c.body)
           r == Catches(b.st, sc, Tail(cs))
       IN [r EXCEPT !.cs = <<[sym |-> Len(d.syms)] @@ [c EXCEPT !.body = b.ss]>> \o @]

check_try(st, sc, s) ==
  LET b == check_block(st, sc, s.body)
      c == Catches(b.st, sc, s.catches)
      f == IF s.fin = <<>> THEN [st |-> c.st, ss |-> <<>>] ELSE check_block(c.st, sc, s.fin)
  IN [st |-> f.st, s |-> [s EXCEPT !.body = b.ss, !.catches = c.cs, !.fin = f.ss]]

(* Braces open a scope of their own; unsafe ones allow what is unsafe.     *)
check_braces(st, sc, s) ==
  LET n == Inner(st, sc)
      b == check_block([n EXCEPT !.scopes[Newest(n)].unsafe = @ \/ s.k = "unsafe"], Newest(n), s.body)
  IN [st |-> b.st, s |-> [s EXCEPT !.body = b.ss]]

check_stmt(st, sc, s) ==
  LET One(e, wrong(_)) == [st |-> ErrorIf(e.st, wrong(e.e.type)), s |-> [s EXCEPT !.e = e.e]]
      Loop(c, b) == [st |-> Deeper(b.st, sc, -1), s |-> [s EXCEPT !.c = c, !.body = b.ss]]
  IN CASE s.k = "expr" -> One(check_expr(st, sc, s.e), LAMBDA t : FALSE)
       [] s.k = "throw" -> One(check_expr(st, sc, s.e),
                               LAMBDA t : Kind(t) \notin {"string", "mixed", "class", "own"})
       [] s.k = "echo" -> LET r == check_list(st, sc, s.es) IN [st |-> r.st, s |-> [s EXCEPT !.es = r.es]]
       [] s.k = "global" -> LET r == Globals(st, sc, s.names) IN [st |-> r.st, s |-> [syms |-> r.syms] @@ s]
       [] s.k = "let" -> check_let(st, sc, s)
       [] s.k = "return" -> check_return(st, sc, s)
       [] s.k = "if" -> LET c == Condition(st, sc, s.c)
                            a == check_block(c.st, sc, s.then)
                            b == check_block(a.st, sc, s.els)
                        IN [st |-> b.st, s |-> [s EXCEPT !.c = c.e, !.then = a.ss, !.els = b.ss]]
       [] s.k = "while" -> LET c == Condition(st, sc, s.c)
                           IN Loop(c.e, check_block(Deeper(c.st, sc, 1), sc, s.body))
       [] s.k = "do" -> LET b == check_block(Deeper(st, sc, 1), sc, s.body)
                            c == Condition(b.st, sc, s.c)
                        IN Loop(c.e, [b EXCEPT !.st = c.st])
       [] s.k = "switch" -> check_switch(st, sc, s)
       [] s.k = "for" -> check_for(st, sc, s)
       [] s.k = "foreach" -> check_foreach(st, sc, s)
       [] s.k \in {"break", "continue"} -> [st |-> ErrorIf(st, st.scopes[sc].loop = 0), s |-> s]
       [] s.k \in {"block", "unsafe"} -> check_braces(st, sc, s)
       [] s.k = "try" -> check_try(st, sc, s)

(***************************************************************************)
(* Bodies: every class, then every function, then the script itself.       *)
(***************************************************************************)
check_fn_body(st, parent, fn, self) ==
  LET n  == scope_init(st, parent, [EmptyScope EXCEPT !.self = self,
              !.fn = [top |-> FALSE, ret |-> FnRet(fn), method |-> fn.cls # "", cls |-> fn.cls]])
      d  == Declared(n, Newest(n), fn.params, self)
      b  == StmtList(d, Newest(n), fn.body)
  IN [st |-> b.st, fn |-> [psyms |-> SubSeq(b.st.scopes[Newest(n)].vars, 1, Len(fn.params))]
                          @@ [fn EXCEPT !.body = b.ss, !.ret = FnRet(fn)]]

(* The default fixes the type of a field that has none written.            *)
Fields(st, sc, c, i) ==
  IF i > Len(c.fields) THEN st
  ELSE LET f == c.fields[i]
           t == resolve_type(st, Self(st, sc), f.type)
           d == check_expr(st, sc, f.dflt)
       IN Fields(CASE f.type # None -> [ErrorIf(st, ~ t.ok) EXCEPT !.ftypes[c.name][i] = t.t]
                   [] f.dflt.k # "none" -> [d.st EXCEPT !.ftypes[c.name][i] = d.e.type]
                   [] OTHER -> sema_error(st), sc, c, i + 1)

Methods(st, parent, ms, self) ==
  IF ms = <<>> \/ ~ st.ok THEN [st |-> st, fns |-> ms]
  ELSE LET m == check_fn_body(st, parent, Head(ms), self)
           r == Methods(m.st, parent, Tail(ms), self)
       IN [r EXCEPT !.fns = <<m.fn>> \o @]

check_class(st, c) ==
  LET self == <<"class", c.name>>
      n == scope_init(st, 0, [EmptyScope EXCEPT !.cls = c.name, !.self = self])
      m == Methods(Fields(n, Newest(n), c, 1), Newest(n), c.methods, self)
  IN [st |-> m.st, c |-> [c EXCEPT !.methods = m.fns]]

sema_run(prog) ==
  LET C[i \in 0 .. Len(prog.classes)] ==
        IF i = 0 THEN [st |-> declare_decls(prog), cs |-> <<>>]
        ELSE LET c == check_class(C[i - 1].st, prog.classes[i])
             IN IF C[i - 1].st.ok THEN [st |-> c.st, cs |-> Append(C[i - 1].cs, c.c)] ELSE C[i - 1]
      cs == C[Len(prog.classes)]
      fs == Methods(cs.st, 0, prog.fns, None)
      n  == scope_init(fs.st, 0, EmptyScope)
      b  == check_block(n, Newest(n), prog.stmts)
  IN [st |-> b.st, fns |-> fs.fns, classes |-> cs.cs, stmts |-> b.ss]
============================================================================
