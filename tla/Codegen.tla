------------------------------- MODULE Codegen -----------------------------
(***************************************************************************)
(* codegen.c: from the annotated tree to C.  The text of an expression is  *)
(* kept as what C needs to know of it:                                     *)
(*   c    its C type, as the compiler's type rules give it,                *)
(*   ok   every operator and call in it gets operands C accepts,           *)
(*   txt  its calls and names in the order of the text.                    *)
(* A name is <<"v", uid, the C type it is used with>>, <<"self", class>>   *)
(* or <<"closure", captures>>.  Statements become trees of items.  g is    *)
(* the Codegen record: what surrounds the statement being emitted.         *)
(***************************************************************************)
EXTENDS Sema
SE == INSTANCE SequencesExt

cint64  == <<"int64_t">>
cdouble == <<"double">>
cbool   == <<"bool">>
chstr   == <<"hstr">>
charr   == <<"harr">>
chval   == <<"hval">>
cclo    == <<"hclosure">>
cvoid   == <<"void">>
cany    == <<"void*">>
czero   == <<"0">>                       \* the literal 0: a number or a null pointer
Struct(name) == <<"struct", name>>
PtrTo(c)     == <<"*", c>>
Number(c)    == c \in {cint64, cdouble, cbool, czero, <<"int">>}
Pointer(c)   == c \in {chstr, charr, cclo, cany, czero} \/ c[1] \in {"struct", "*"}

(* What C accepts where a value of type want is expected.                  *)
Fits(want, got) == \/ want = got
                   \/ Number(want) /\ Number(got)
                   \/ Pointer(want) /\ Pointer(got) /\ {want, got} \cap {cany, czero} # {}

Code(c, txt) == [c |-> c, ok |-> TRUE, txt |-> txt]
Texts(codes) == SE!FlattenSeq([i \in DOMAIN codes |-> codes[i].txt])
Oks(codes)   == \A i \in DOMAIN codes : codes[i].ok
Call(name, ret, want, codes) ==
  [c |-> ret, txt |-> <<<<name>>>> \o Texts(codes),
   ok |-> /\ Len(want) = Len(codes) /\ Oks(codes)
          /\ \A i \in DOMAIN want : Fits(want[i], codes[i].c)]
Bad(code) == [code EXCEPT !.ok = FALSE]

IntKinds == {"int", "i64"}
ArrKinds == {"array", "vec", "map"}
BoxKinds == {"mixed", "option", "result"}
IsBox(t) == t = None \/ Kind(t) \in BoxKinds
TypeOf(e) == IF "type" \in DOMAIN e THEN e.type ELSE None

RECURSIVE ctype_of(_)
ctype_of(t) ==
  CASE Kind(t) \in IntKinds \cup {"enum"} -> cint64
    [] Kind(t) = "float"  -> cdouble
    [] Kind(t) = "bool"   -> cbool
    [] Kind(t) = "string" -> chstr
    [] Kind(t) = "void"   -> cvoid
    [] Kind(t) \in ArrKinds -> charr
    [] Kind(t) \in {"ref", "mutref"} -> PtrTo(ctype_of(t[2]))
    [] Kind(t) = "ptr"    -> cany
    [] Smart(t)           -> IF Kind(t[2]) = "map" THEN chval ELSE ctype_of(t[2])
    [] IsRecord(t)        -> Struct(t[2])
    [] Kind(t) = "fn"     -> cclo
    [] OTHER              -> chval

zero_init_of(t) ==
  CASE Kind(t) = "string" -> Code(chstr, <<>>)
    [] Kind(t) \in ArrKinds -> Code(charr, <<>>)
    [] t \in {None, ty_mixed} -> Code(chval, <<>>)
    [] OTHER -> Code(czero, <<>>)

(* The prototypes of hphp_rt.h that emitted code calls by name.            *)
Rt == [hp_of_int |-> <<chval, <<cint64>>>>, hp_of_float |-> <<chval, <<cdouble>>>>,
       hp_of_bool |-> <<chval, <<cbool>>>>, hp_of_str |-> <<chval, <<chstr>>>>,
       hp_of_arr |-> <<chval, <<charr>>>>, hp_of_ptr |-> <<chval, <<cany>>>>,
       hp_of_clo |-> <<chval, <<cclo>>>>,
       hp_val_to_int |-> <<cint64, <<chval>>>>, hp_val_to_float |-> <<cdouble, <<chval>>>>,
       hp_val_to_bool |-> <<cbool, <<chval>>>>, hp_val_to_str |-> <<chstr, <<chval>>>>,
       hp_val_to_arr |-> <<charr, <<chval>>>>, hp_tag |-> <<cint64, <<chval>>>>,
       hp_str_concat_v |-> <<chstr, <<chval, chval>>>>, hp_nullcoal |-> <<chval, <<chval, chval>>>>,
       hp_add |-> <<chval, <<chval, chval>>>>, hpbi_scalar_sub |-> <<chval, <<chval, chval>>>>,
       hpbi_scalar_mul |-> <<chval, <<chval, chval>>>>, hp_divv |-> <<chval, <<chval, chval>>>>,
       hp_powv |-> <<chval, <<chval, chval>>>>, hp_div |-> <<cdouble, <<cdouble, cdouble>>>>,
       hp_mod_i |-> <<cint64, <<cint64, cint64>>>>, hp_mod |-> <<cint64, <<cint64, cint64>>>>,
       hp_pow_i |-> <<cint64, <<cint64, cint64>>>>, hp_str_eq |-> <<cbool, <<chstr, chstr>>>>,
       hp_streq |-> <<cbool, <<chval, chval>>>>, hp_ident_eq |-> <<cbool, <<chval, chval>>>>,
       hp_lt |-> <<cbool, <<chval, chval>>>>, hp_lt_i |-> <<cbool, <<cint64, cint64>>>>,
       hp_lt_f |-> <<cbool, <<cdouble, cdouble>>>>, hp_cmp |-> <<cint64, <<chval, chval>>>>,
       hp_str_char_at |-> <<chstr, <<chstr, cint64>>>>, hp_str_to_int |-> <<cint64, <<chstr>>>>,
       hp_arr_get |-> <<chval, <<charr, chval>>>>, hp_arr_get_v |-> <<chval, <<chval, chval>>>>,
       hp_arr_set |-> <<cvoid, <<charr, chval, chval>>>>,
       hp_arr_set_v |-> <<cvoid, <<chval, chval, chval>>>>,
       hp_arr_push_v |-> <<chval, <<charr, chval>>>>, hp_arr_push_vv |-> <<chval, <<chval, chval>>>>,
       hp_arr_clone |-> <<charr, <<charr>>>>, hp_match_no_default |-> <<chval, <<>>>>,
       hp_exception_msg |-> <<chstr, <<>>>>, hp_throw |-> <<cvoid, <<chval>>>>,
       hp_echo |-> <<cvoid, <<chval>>>>, hpbi_unset |-> <<chval, <<charr, chval>>>>,
       hpbi_unset_slot |-> <<chval, <<PtrTo(charr), chval>>>>,
       hpbi_isset |-> <<chval, <<chval>>>>, hpbi_isset_raw |-> <<chval, <<PtrTo(charr), chval>>>>,
       hpbi_isset_val |-> <<chval, <<PtrTo(chval), chval>>>>]

(* A name hphp_rt.h does not declare is not a function of the program.     *)
Rtc(name, codes) == IF name \in DOMAIN Rt THEN Call(name, Rt[name][1], Rt[name][2], codes)
                    ELSE Bad(Call(name, cint64, [i \in DOMAIN codes |-> codes[i].c], codes))
(* A call with (const hval[]){...}: any number of values.                  *)
Packed(name, ret, front, want, vals) ==
  Call(name, ret, want \o [i \in DOMAIN vals |-> chval], front \o vals)

(* hv(x) is a _Generic over the type of x that boxes anything but void.    *)
hv(x) == [x EXCEPT !.c = chval, !.ok = @ /\ x.c # cvoid]

(* .u.i, .u.s, ... of a value; other types leave the value as it is.       *)
Member(t) == CASE IsRecord(t) -> Struct(t[2])
               [] t # None /\ Kind(t) \in IntKinds \cup ArrKinds \cup {"enum", "float", "bool", "string"} -> ctype_of(t)
               [] OTHER -> chval
project_hval(x, t) ==
  IF Member(t) = chval THEN x ELSE [x EXCEPT !.c = Member(t), !.ok = @ /\ x.c = chval]
proj_hval_expr(t, x) ==
  IF t \in {None, ty_void} \/ Kind(t) \in BoxKinds THEN x
  ELSE [x EXCEPT !.c = ctype_of(t), !.ok = @ /\ x.c = chval]

Sym(g, v) == g.st.syms[v]
(* The C type of a name: an alias of the try helper always has the type of *)
(* the variable, a closure unpacks some names with another type (g.raw),   *)
(* elsewhere boxes and references are pointers.                            *)
VarC(g, v) ==
  LET t == ctype_of(Sym(g, v).type)
  IN CASE v \in g.vs -> t
       [] v \in DOMAIN g.raw -> g.raw[v]
       [] Sym(g, v).captured_byref -> PtrTo(chval)
       [] Sym(g, v).is_param_ref -> PtrTo(t)
       [] OTHER -> t
var_name(g, v) == IF v = 0 THEN Bad(Code(chval, <<<<"hp_missing_var">>>>))
                  ELSE Code(VarC(g, v), <<<<"v", Sym(g, v).uid, VarC(g, v)>>>>)
AddressOf(x) == [x EXCEPT !.c = PtrTo(x.c)]
Deref(x) == IF x.c[1] = "*" THEN [x EXCEPT !.c = x.c[2]] ELSE Bad([x EXCEPT !.c = chval])
(* The variable as an operand: boxes and references are read through.      *)
Slot(g, v) == LET x == var_name(g, v)
              IN IF v # 0 /\ (Sym(g, v).captured_byref \/ Sym(g, v).is_param_ref) THEN Deref(x) ELSE x

(***************************************************************************)
(* Expressions.  The condition operator of C joins two types.              *)
(***************************************************************************)
RECURSIVE emit_expr(_, _), emit_list(_, _), hvals(_, _), MatchChain(_, _, _)

Joined(a, b) == CASE a = b -> a
                  [] Number(a) /\ Number(b) -> IF cdouble \in {a, b} THEN cdouble ELSE cint64
                  [] Pointer(a) /\ b \in {cany, czero} -> a
                  [] Pointer(b) /\ a \in {cany, czero} -> b
                  [] OTHER -> cvoid
Choice(c, a, b) == [c |-> Joined(a.c, b.c), txt |-> c.txt \o a.txt \o b.txt,
                    ok |-> /\ Oks(<<c, a, b>>) /\ c.c # chval
                           /\ Joined(a.c, b.c) # cvoid \/ a.c = cvoid]
Arith(l, r) == [c |-> Joined(l.c, r.c), txt |-> l.txt \o r.txt,
                ok |-> Oks(<<l, r>>) /\ Number(l.c) /\ Number(r.c)]
AsInt(x) == [x EXCEPT !.c = cint64, !.ok = @ /\ x.c # cdouble]     \* an operand of &, |, ^, ~
AsC(x, c) == [x EXCEPT !.c = c]
Not(x) == [x EXCEPT !.c = cbool, !.ok = @ /\ (Number(x.c) \/ Pointer(x.c))]
HpNull == Code(chval, <<>>)
Set(lv, x) == [c |-> lv.c, txt |-> lv.txt \o x.txt, ok |-> Oks(<<lv, x>>) /\ Fits(lv.c, x.c)]

emit_list(g, es) == [i \in DOMAIN es |-> emit_expr(g, es[i])]

(* The boxing of a value by its checked type.                              *)
BoxedAs(x, t) ==
  LET k == IF t = None THEN "none" ELSE Kind(t)
  IN CASE k \in IntKinds -> Rtc("hp_of_int", <<x>>)
       [] k = "float"    -> Rtc("hp_of_float", <<x>>)
       [] k = "bool"     -> Rtc("hp_of_bool", <<x>>)
       [] k = "string"   -> Rtc("hp_of_str", <<x>>)
       [] k \in ArrKinds -> Rtc("hp_of_arr", <<x>>)
       [] OTHER          -> hv(x)

to_hval(g, e) ==
  LET x == emit_expr(g, e)
      t == TypeOf(e)
  IN CASE e.k = "bool" -> Code(chval, <<>>)
       [] t = None -> CASE e.k = "str" -> Rtc("hp_of_str", <<x>>)
                        [] e.k = "int" -> Rtc("hp_of_int", <<x>>)
                        [] e.k = "float" -> Rtc("hp_of_float", <<x>>)
                        [] OTHER -> hv(x)
       [] Kind(t) = "fn" -> Rtc("hp_of_clo", <<x>>)
       [] Kind(t) \in {"class", "struct", "enum"} -> Rtc("hp_of_ptr", <<x>>)
       [] OTHER -> BoxedAs(x, t)
hvals(g, es) == [i \in DOMAIN es |-> to_hval(g, es[i])]

(* Give the value the C type of a slot declared as want.                   *)
emit_to_type(g, e, want) ==
  LET t == TypeOf(e)
      x == emit_expr(g, e)
      box == t # None /\ (Kind(t) \in BoxKinds \/ Kind(t) = "fn")
      k == IF want = None THEN "none" ELSE Kind(want)
      scalar == k \in IntKinds \cup {"float", "bool", "string"}
      conv == CASE type_is_integral(want) -> "hp_val_to_int"
                [] type_is_numeric(want) -> "hp_val_to_float"
                [] OTHER -> "hp_val_to_str"
  IN CASE box /\ scalar -> Rtc(conv, <<hv(x)>>)
       [] ~ box /\ want \in {None, ty_mixed} -> to_hval(g, e)
       [] e.k = "null" /\ want # None /\ (IsRecord(want) \/ Smart(want) \/ k = "fn") ->
            Code(czero, <<>>)
       [] OTHER -> x

SlipEmitCond(g, e) == IF IsBox(TypeOf(e)) THEN Rtc("hp_val_to_bool", <<hv(emit_expr(g, e))>>)
                       ELSE Choice(emit_expr(g, e), emit_expr(g, e), Code(cbool, <<>>))
emit_cond(g, e) == IF IsBox(TypeOf(e)) THEN Rtc("hp_val_to_bool", <<hv(emit_expr(g, e))>>)
                   ELSE emit_expr(g, e)

emit_tpl(g, e) == IF e.es = <<>> THEN Code(chstr, <<>>)
                  ELSE Packed("hp_str_concat_n", chstr, <<>>, <<>>, hvals(g, e.es))

(* A chain of dots: the leaves in source order, then joined by halves.     *)
RECURSIVE dot_chain_len(_), dot_collect(_), emit_dot_chain(_, _)
IsDot(e) == e.k = "bin" /\ e.op = "."
dot_chain_len(e) == IF IsDot(e) THEN 1 + dot_chain_len(e.l) ELSE 1
dot_collect(e) == IF IsDot(e) THEN dot_collect(e.l) \o <<e.r>> ELSE <<e>>
Concat(a, b) == Rtc("hp_str_concat_v", <<hv(a), hv(b)>>)
emit_dot_chain(g, parts) ==
  LET n == Len(parts)
  IN IF n = 1 THEN emit_expr(g, parts[1])
     ELSE Concat(emit_dot_chain(g, SubSeq(parts, 1, n \div 2)),
                 emit_dot_chain(g, SubSeq(parts, n \div 2 + 1, n)))

fold_int_binop(op, b) ==
  CASE op \in {"+", "-", "*", "&", "|", "^"} -> TRUE
    [] op = "%" -> b # 0
    [] op \in {"<<", ">>"} -> b \in 0 .. 63
    [] OTHER -> FALSE

Kinded(t, kinds) == t # None /\ Kind(t) \in kinds
emit_binop(g, e) ==
  LET lt == TypeOf(e.l)
      rt == TypeOf(e.r)
      numeric == lt # None /\ rt # None /\ type_is_numeric(lt) /\ type_is_numeric(rt)
      floats == Kinded(lt, {"float"}) \/ Kinded(rt, {"float"})
      strings == lt = ty_string /\ rt = ty_string
      conv == CASE e.op \in {"&&", "||"} -> "hp_val_to_bool"
                [] floats -> "hp_val_to_float"
                [] OTHER -> "none"
      Opnd(x) == IF conv # "none" /\ TypeOf(x) = ty_mixed
                 THEN Rtc(conv, <<hv(emit_expr(g, x))>>) ELSE emit_expr(g, x)
      l == Opnd(e.l)
      r == Opnd(e.r)
      ints == <<Rtc("hp_val_to_int", <<hv(l)>>), Rtc("hp_val_to_int", <<hv(r)>>)>>
      Boxes(f) == Rtc(f, <<hv(l), hv(r)>>)
      Ident(x, code) == IF x.k = "bool" THEN Code(chval, <<>>) ELSE hv(code)
      same == Rtc("hp_ident_eq", <<Ident(e.l, l), Ident(e.r, r)>>)
      Compare == AsC(Arith(l, r), cbool)
  IN CASE e.op = "??" -> Rtc("hp_nullcoal", <<to_hval(g, e.l), to_hval(g, e.r)>>)
       [] e.op = "." /\ dot_chain_len(e) > 3 -> emit_dot_chain(g, dot_collect(e))
       [] numeric /\ ~ floats /\ e.l.k = "int" /\ e.r.k = "int" /\ fold_int_binop(e.op, e.r.v) ->
            Code(cint64, <<>>)
       [] e.op \in {"+", "-", "*"} /\ numeric -> Arith(l, r)
       [] e.op = "+" -> project_hval(Boxes("hp_add"), IF TypeOf(e) = ty_string THEN ty_string ELSE None)
       [] e.op = "-" -> Boxes("hpbi_scalar_sub")
       [] e.op = "*" -> Boxes("hpbi_scalar_mul")
       [] e.op \in {"<<", ">>"} -> Arith(ints[1], ints[2])
       [] e.op = "/" -> CASE numeric /\ e.r.k = "int" /\ e.r.v # 0 -> AsC(Arith(l, r), cdouble)
                          [] numeric -> Rtc("hp_div", <<l, r>>)
                          [] OTHER -> Rtc("hp_val_to_float", <<Boxes("hp_divv")>>)
       [] e.op = "%" -> IF numeric THEN Rtc("hp_mod_i", <<l, r>>) ELSE Rtc("hp_mod", ints)
       [] e.op = "**" -> IF numeric THEN Rtc("hp_pow_i", <<AsC(l, cint64), AsC(r, cint64)>>)
                         ELSE Boxes("hp_powv")
       [] e.op = "." -> Concat(l, r)
       [] e.op \in {"==", "!="} -> CASE numeric -> Compare
                                     [] strings -> Rtc("hp_str_eq", <<l, r>>)
                                     [] OTHER -> Boxes("hp_streq")
       [] e.op \in {"===", "!=="} -> CASE strings -> Rtc("hp_str_eq", <<l, r>>)
                                       [] numeric /\ Kind(lt) = Kind(rt) -> Compare
                                       [] OTHER -> same
       [] e.op \in {"<", ">", "<=", ">="} -> CASE floats -> Rtc("hp_lt_f", <<l, r>>)
                                               [] numeric -> Rtc("hp_lt_i", <<l, r>>)
                                               [] OTHER -> Boxes("hp_lt")
       [] e.op = "<=>" -> Boxes("hp_cmp")
       [] e.op \in {"&&", "||"} -> [AsC(Choice(l, r, r), cbool) EXCEPT
                                      !.txt = l.txt \o r.txt, !.ok = @ /\ r.c # chval]
       [] OTHER -> Arith(AsInt(l), AsInt(r))

(***************************************************************************)
(* Calls.  A builtin is a C function of a fixed number of hval; the ones   *)
(* that take fewer are padded with hp_null.                                *)
(***************************************************************************)
Taking(n, names) == [f \in names |-> n]
\* Strings, regular expressions, digests, dates, HTTP and MySQL.
TextFunctions ==
     Taking(1, {"strlen", "count", "sizeof", "strtoupper", "strtolower", "ucfirst",
                "lcfirst", "trim", "chop", "strrev", "nl2br", "json_encode", "sha256",
                "password_hash", "random_bytes", "strtotime", "parse_url",
                "http_build_query", "mysql_insert_id", "mysql_close", "mysql_escape",
                "json_decode"})
  @@ Taking(2, {"ltrim", "rtrim", "str_repeat", "strstr", "strchr", "str_contains",
                "str_starts_with", "str_ends_with", "strcmp", "strcasecmp", "explode",
                "split", "implode", "join", "json_encode2", "preg_match", "preg_match_all",
                "preg_split", "preg_grep", "password_verify", "hash_equals", "mysql_query",
                "mysql_exec", "json_decode2", "md5", "sha1"})
  @@ Taking(3, {"str_pad", "str_replace", "substr", "strpos", "strncmp", "strncasecmp",
                "preg_match3", "preg_match_all3", "preg_replace", "http_post"})
  @@ Taking(4, {"number_format", "hash_hmac"})
  @@ Taking(5, {"mysql_connect"})
  @@ Taking(6, {"mktime"})
\* Sockets, threads, channels, mutexes, barriers and atomics.
StreamFunctions ==
     Taking(0, {"thr_current", "thr_id", "thr_cpu_count", "mutex_new"})
  @@ Taking(1, {"stream_socket_server", "stream_socket_client", "stream_socket_accept",
                "stream_eof", "stream_peer", "stream_close", "crc32", "thr_join",
                "thr_sleep_ms", "chan_new", "chan_recv", "chan_try_recv", "chan_close",
                "mutex_lock", "mutex_trylock", "mutex_unlock", "mutex_free", "barrier_new",
                "barrier_wait", "atomic_new", "atomic_get"})
  @@ Taking(2, {"stream_socket_accept2", "stream_set_blocking", "stream_recv",
                "stream_send", "stream_ready", "thr_spawn", "chan_send", "chan_try_send",
                "atomic_set", "atomic_add"})
  @@ Taking(3, {"thr_parallel_map", "atomic_cas"})
\* Codecs and formats.
CodecFunctions ==
     Taking(1, {"base64_encode", "base64_decode", "urlencode", "urldecode", "htmlentities",
                "htmlspecialchars", "ord", "chr", "bin2hex", "hex2bin", "ucwords"})
  @@ Taking(2, {"sprintf", "printf", "str_split", "wordwrap", "similar_text", "levenshtein"})
\* Arrays, numbers and types.
ArrayFunctions ==
     Taking(0, {"pi"})
  @@ Taking(1, {"array_keys", "array_values", "array_reverse", "array_sum", "array_product",
                "array_unique", "isset", "array_flip", "array_pop", "end", "reset",
                "array_shift", "shuffle", "sort", "rsort", "ksort", "krsort", "asort",
                "max", "min", "abs", "floor", "ceil", "sqrt", "sin", "cos", "tan", "atan",
                "asin", "acos", "log", "log2", "log10", "exp", "is_nan", "is_finite",
                "is_infinite", "deg2rad", "rad2deg", "is_int", "is_integer", "is_float",
                "is_string", "is_bool", "is_array", "is_null", "is_numeric", "intval",
                "floatval", "doubleval", "strval", "boolval", "gettype", "var_dump",
                "print_r", "var_export", "serialize", "unserialize", "readline", "srand",
                "mt_srand", "fgetc"})
  @@ Taking(2, {"in_array", "array_search", "array_key_exists", "range", "array_map",
                "array_filter", "array_combine", "array_push", "array_unshift", "pow",
                "intdiv", "fmod", "atan2", "hypot", "rand", "mt_rand", "random_int"})
  @@ Taking(3, {"array_slice", "array_reduce", "array_fill", "array_splice", "round"})
  @@ Taking(4, {"array_merge", "array_diff", "array_intersect"})
\* Files, number bases, the process and what surrounds it.
SystemFunctions ==
     Taking(0, {"getcwd", "php_uname", "phpversion", "php_sapi_name", "microtime",
                "memory_get_usage", "memory_get_peak_usage", "gc_collect_cycles", "time"})
  @@ Taking(1, {"file_exists", "is_dir", "filesize", "rmdir", "unlink", "fgets", "fclose",
                "scandir", "decbin", "decoct", "dechex", "bindec", "octdec", "hexdec",
                "file_get_contents", "getenv", "putenv", "hrtime", "usleep", "sleep",
                "exit", "die"})
  @@ Taking(2, {"rename", "copy", "fwrite", "fopen", "date2"})
  @@ Taking(3, {"mkdir", "file_put_contents"})
\* Windows, controls and the browser.
UiFunctions ==
     Taking(0, {"ui_run_main", "ui_quit", "ui_clip_get", "ui_browser_ready",
                "ui_browser_loader"})
  @@ Taking(1, {"ui_dispatch", "ui_close", "ui_alive", "ui_get", "ui_focus", "ui_clear",
                "ui_selected", "ui_check_get", "ui_slider_get", "ui_menu_sep",
                "ui_menu_check", "ui_pick_folder", "ui_clip_set", "ui_repaint",
                "ui_enabled", "ui_rect", "ui_count", "ui_progress_get", "ui_hwnd",
                "ui_browser_free", "ui_browser_back", "ui_browser_forward",
                "ui_browser_reload", "ui_browser_stop", "ui_browser_can_back",
                "ui_browser_can_forward", "ui_browser_url", "ui_browser_title",
                "ui_browser_zoom_get", "ui_browser_devtools"})
  @@ Taking(2, {"ui_show", "ui_title", "ui_set", "ui_enable", "ui_items", "ui_remove",
                "ui_ctrl_show", "ui_select", "ui_item_text", "ui_check_set", "ui_progress",
                "ui_slider_set", "ui_bg", "ui_fg", "ui_menu", "ui_timer", "ui_open_file",
                "ui_save_file", "ui_pick_color", "ui_style", "ui_accent", "ui_radius",
                "ui_browser_new", "ui_browser_fit", "ui_browser_go", "ui_browser_html",
                "ui_browser_zoom", "ui_browser_visible"})
  @@ Taking(3, {"ui_size", "ui_pos", "ui_font", "ui_menu_item", "ui_on", "ui_range",
                "ui_scroll", "ui_text_px", "ui_browser_on"})
  @@ Taking(4, {"ui_msg", "ui_text_lines"})
  @@ Taking(5, {"ui_window", "ui_move", "ui_browser_key"})
  @@ Taking(7, {"ui_add"})
\* The functions added for PHP 8.
LaterFunctions ==
     Taking(0, {"sys_get_temp_dir"})
  @@ Taking(1, {"array_key_first", "array_key_last", "str_shuffle", "html_entity_decode",
                "dirname", "realpath", "is_file", "is_readable", "is_writable", "touch",
                "glob", "feof", "http_get"})
  @@ Taking(2, {"usort", "uasort", "uksort", "array_fill_keys", "vsprintf", "substr_count",
                "strip_tags", "basename", "pathinfo", "fread"})
  @@ Taking(3, {"array_walk", "array_walk_recursive", "array_column", "array_chunk",
                "array_pad", "checkdate"})
  @@ Taking(4, {"array_replace", "compact", "http_request"})
  @@ Taking(14, {"ui_theme"})
Arity == TextFunctions @@ StreamFunctions @@ CodecFunctions @@ ArrayFunctions @@ SystemFunctions
         @@ UiFunctions @@ LaterFunctions

MinArgs == Taking(1, {"ltrim", "rtrim", "round", "md5", "sha1", "implode", "number_format",
                      "array_merge", "array_replace", "array_diff", "array_intersect", "compact",
                      "mysql_connect"})
           @@ Taking(2, {"substr", "str_replace", "file_put_contents", "array_map", "http_post"})
           @@ Taking(3, {"hash_hmac"}) @@ Taking(6, {"mktime"})
MaxArgs == Taking(2, {"ltrim", "rtrim", "md5", "sha1", "implode", "str_split", "fopen", "fread",
                      "basename", "pathinfo", "strip_tags", "date", "json_encode",
                      "json_encode_pretty", "json_decode", "preg_match", "preg_match_all",
                      "preg_split", "preg_grep", "mysql_query", "mysql_exec"})
           @@ Taking(3, {"substr", "round", "str_replace", "array_slice", "file_put_contents", "mkdir",
                         "array_column", "array_chunk", "array_pad", "array_walk",
                         "array_walk_recursive", "http_post", "preg_replace"})
           @@ Taking(4, {"number_format", "array_merge", "array_replace", "array_diff",
                         "array_intersect", "compact", "http_request", "hash_hmac"})
           @@ Taking(5, {"mysql_connect"}) @@ Taking(6, {"mktime"})
builtin_min_args(name) == IF name \in DOMAIN MinArgs THEN MinArgs[name] ELSE 0
builtin_max_args(name) == IF name \in DOMAIN MaxArgs THEN MaxArgs[name] ELSE -1

(* Three builtins are emitted under another name.  *)
cname(name) == CASE name = "date" -> "date2"
                 [] name \in {"json_encode", "json_encode_pretty"} -> "json_encode2"
                 [] name = "json_decode" -> "json_decode2"
                 [] OTHER -> name

HpBi(name, codes) ==
  [Packed(name, chval, <<>>, <<>>, codes) EXCEPT
     !.ok = @ /\ name \in DOMAIN Arity /\ Len(codes) = Arity[name]]
Padded(codes, n) == codes \o [i \in 1 .. n - Len(codes) |-> HpNull]
ArrOf(codes) == Rtc("hp_of_arr", <<Packed("hp_arr_of", charr, <<>>, <<>>, codes)>>)

VarOf(e) == IF e.k = "var" /\ "sym" \in DOMAIN e THEN e.sym ELSE 0
emit_unset(g, ix) ==
  LET o == ix.obj
      k == hv(emit_expr(g, ix.idx))
  IN IF VarOf(o) # 0 THEN Rtc("hpbi_unset", <<var_name(g, o.sym), k>>)
     ELSE Rtc("hpbi_unset_slot", <<AddressOf(emit_expr(g, o)), k>>)

(* isset of an element reads the raw slot; anything else the value.        *)
emit_isset(g, e) ==
  IF e.k = "index" /\ VarOf(e.obj) # 0
  THEN LET k == IF e.idx.k = "none" THEN Code(chval, <<>>) ELSE hv(emit_expr(g, e.idx))
           v == AddressOf(var_name(g, e.obj.sym))
       IN Rtc(IF Sym(g, e.obj.sym).type = ty_mixed THEN "hpbi_isset_val" ELSE "hpbi_isset_raw", <<v, k>>)
  ELSE Rtc("hpbi_isset", <<hv(emit_expr(g, e))>>)

(* The three-argument preg matchers fill their out variable from a temporary.  *)
PregFill == [preg_match |-> "preg_match3", preg_match_all |-> "preg_match_all3"]
emit_preg(g, name, args) ==
  LET m == emit_expr(g, args[3])
      from == Code(IF Kinded(TypeOf(args[3]), ArrKinds) THEN charr ELSE chval, <<>>)
      call == HpBi(PregFill[name], Append(hvals(g, SubSeq(args, 1, 2)), HpNull))
      set == Set(m, from)
  IN [call EXCEPT !.txt = @ \o set.txt, !.ok = @ /\ set.ok]

(* Calls that always end in one more argument: the given one, 0 or hp_null. *)
HpZero == Rtc("hp_of_int", <<Code(cint64, <<>>)>>)
LastArg == [strpos |-> <<2, HpNull>>, thr_spawn |-> <<1, HpNull>>,
            thr_parallel_map |-> <<2, HpZero>>, stream_socket_accept2 |-> <<1, HpZero>>]
WithLast(vals, k, default) ==
  Append(SubSeq(vals, 1, k), IF Len(vals) = k + 1 THEN vals[k + 1] ELSE default)

emit_builtin_call(g, name, args, ret) ==
  LET n == Len(args)
      vals == hvals(g, args)
      padded == IF n \in builtin_min_args(name) .. builtin_max_args(name)
                THEN Padded(vals, builtin_max_args(name)) ELSE vals
  IN project_hval(
       CASE name \in {"max", "min"} -> HpBi(name, <<IF n = 1 THEN vals[1] ELSE ArrOf(vals)>>)
         [] name = "unset" /\ n = 1 /\ args[1].k = "index" /\ args[1].obj.k \in {"var", "field"} ->
              emit_unset(g, args[1])
         [] name = "exception_get_message" -> Rtc("hp_of_str", <<Rtc("hp_exception_msg", <<>>)>>)
         [] name \in {"sprintf", "printf"} /\ n >= 1 -> HpBi(name, <<vals[1], ArrOf(Tail(vals))>>)
         [] name \in DOMAIN LastArg /\ n >= LastArg[name][1] ->
              HpBi(name, WithLast(vals, LastArg[name][1], LastArg[name][2]))
         [] name = "atomic_new" /\ n = 0 -> HpBi(name, <<HpZero>>)
         [] name = "microtime" /\ n = 1 -> HpBi(name, <<>>)
         [] name = "isset" /\ n = 1 -> emit_isset(g, args[1])
         [] name \in {"preg_match", "preg_match_all"} /\ n = 3 /\ VarOf(args[3]) # 0 ->
              emit_preg(g, name, args)
         [] name = "str_pad" /\ n = 2 -> HpBi(name, Append(vals, Code(chval, <<>>)))
         [] name = "json_encode_pretty" /\ n >= 1 -> HpBi(cname(name), <<vals[1], HpZero>>)
         [] OTHER -> HpBi(cname(name), padded),
       ret)

Resolved(g, p) == resolve_type(g.st, None, IF p.type = None THEN ty_mixed ELSE p.type).t
emit_arg(g, e, t) == IF t \in {None, ty_mixed} THEN to_hval(g, e) ELSE emit_to_type(g, e, t)
(* The parameters after the n given ones, up to one without a default.     *)
emit_missing_defaults(g, fn, n) ==
  LET last == CHOOSE m \in n .. Len(fn.params) :
                /\ \A i \in n + 1 .. m : fn.params[i].dflt.k # "none"
                /\ m = Len(fn.params) \/ fn.params[m + 1].dflt.k = "none"
  IN [i \in 1 .. last - n |-> emit_arg(g, fn.params[n + i].dflt, Resolved(g, fn.params[n + i]))]

RetType(fn) == ctype_of(IF FnRet(fn) = None THEN ty_void ELSE FnRet(fn))
ParamC(g, fn) == [i \in DOMAIN fn.params |->
                    LET t == ctype_of(Resolved(g, fn.params[i]))
                    IN IF fn.params[i].by_ref THEN PtrTo(t) ELSE t]
ParamType(g, fn, i) == IF i <= Len(fn.params) THEN Resolved(g, fn.params[i]) ELSE None

(* An argument of a function: the address of a variable for a reference, a *)
(* clone for an array.                                                     *)
CallArg(g, fn, arg, i) ==
  LET s == Sym(g, arg.sym)
      t == TypeOf(arg)
      by_ref == i <= Len(fn.params) /\ fn.params[i].by_ref
  IN CASE by_ref /\ VarOf(arg) = 0 -> Bad(HpNull)
       [] by_ref -> IF s.is_param_ref \/ s.captured_byref \/ s.is_program_global
                    THEN var_name(g, arg.sym) ELSE AddressOf(var_name(g, arg.sym))
       [] Kinded(t, ArrKinds) /\ i <= Len(fn.params) /\ ParamType(g, fn, i) # ty_mixed ->
            Rtc("hp_arr_clone", <<emit_expr(g, arg)>>)
       [] OTHER -> emit_arg(g, arg, ParamType(g, fn, i))

emit_call(g, e) ==
  LET args == e.args
      f == emit_expr(g, e.fn)
  IN CASE "builtin" \in DOMAIN e -> emit_builtin_call(g, e.builtin, args, TypeOf(e))
       [] "target" \in DOMAIN e ->
            LET fn == find_function(g.st, e.target)
            IN Call(fn.name, RetType(fn), ParamC(g, fn),
                    [i \in DOMAIN args |-> CallArg(g, fn, args[i], i)]
                    \o emit_missing_defaults(g, fn, Len(args)))
       [] TypeOf(e.fn) \in {None, ty_mixed} ->
            project_hval(Packed("hp_call_value", chval, <<hv(f)>>, <<chval>>, hvals(g, args)), TypeOf(e))
       [] OTHER ->
            project_hval(Packed("hp_closure_call", chval, <<f>>, <<cclo>>, hvals(g, args)), TypeOf(e))

(***************************************************************************)
(* Classes: who overrides what, and where a member lives.                  *)
(***************************************************************************)
RECURSIVE Derives(_, _, _), Depth(_, _, _), class_find_ctor(_, _)
Base(g, c) == First(g.st.prog.classes, c).extends
Derives(g, k, c) == Base(g, k) # "" /\ (Base(g, k) = c \/ Derives(g, Base(g, k), c))
ClassNames(g) == [i \in DOMAIN g.st.prog.classes |-> g.st.prog.classes[i].name]
Defines(g, c, name) == Named(find_class(g.st, c).methods, name) # {}
method_overridden(g, owner, name) ==
  \E i \in DOMAIN ClassNames(g) : LET k == ClassNames(g)[i]
                                  IN k # owner /\ Derives(g, k, owner) /\ Defines(g, k, name)
(* How many bases up the field is declared, -1 when nowhere.               *)
Depth(g, c, name) ==
  CASE Named(find_class(g.st, c).fields, name) # {} -> 0
    [] Base(g, c) = "" -> -1
    [] OTHER -> LET d == Depth(g, Base(g, c), name) IN IF d < 0 THEN d ELSE d + 1
class_find_ctor(g, c) ==
  CASE Defines(g, c, "__construct") -> MethodsOf(g.st, find_class(g.st, c), "__construct")
    [] Base(g, c) = "" -> <<>>
    [] OTHER -> class_find_ctor(g, Base(g, c))

RecordOf(t) == IF Kind(t) \in {"own", "rc", "ref", "mutref"} /\ IsRecord(t[2]) THEN t[2] ELSE t
MethodArgs(g, m, args) ==
  [i \in DOMAIN args |-> emit_arg(g, args[i], ParamType(g, m, i))] \o emit_missing_defaults(g, m, Len(args))
MethodC(g, m) == <<Struct(m.cls)>> \o ParamC(g, m)

FieldC(g, c, name) == ctype_of(class_find_field(g.st, find_class(g.st, c), name)[1])
(* (obj)->name, or (&(obj)->__base)->name, which reaches one base up only. *)
FieldOf(g, obj, name) ==
  LET x == emit_expr(g, obj)
      c == RecordOf(TypeOf(obj))[2]
  IN [c |-> FieldC(g, c, name), txt |-> x.txt,
      ok |-> x.ok /\ x.c = Struct(c) /\ Depth(g, c, name) <= 1]

emit_method(g, e) ==
  LET ot == TypeOf(e.obj)
      o == emit_expr(g, e.obj)
      m == MethodsOf(g.st, find_class(g.st, RecordOf(ot)[2]), e.name)[1]
      virtual == e.name # "__construct" /\ method_overridden(g, m.cls, m.name)
      nom == IF Smart(ot) THEN ot[2] ELSE IF IsRecord(ot) THEN ot ELSE None
      cast == Kind(nom) = "class" /\ nom[2] # m.cls
      Upcast == [o EXCEPT !.c = Struct(m.cls), !.ok = @ /\ Pointer(o.c)]
      args == MethodArgs(g, m, e.args)
  IN CASE "builtin" \in DOMAIN e -> emit_builtin_call(g, e.builtin, <<e.obj>> \o e.args, TypeOf(e))
       [] "target" \in DOMAIN e ->
            Call(m.cls \o (IF virtual THEN "->>" ELSE "->") \o m.name, RetType(m), MethodC(g, m),
                 <<IF virtual \/ cast THEN Upcast ELSE o>> \o args)
       [] OTHER -> project_hval(Packed("hp_call_value", chval, <<hv(FieldOf(g, e.obj, e.name))>>,
                                       <<chval>>, hvals(g, e.args)), TypeOf(e))

(* A static call passes no receiver, whatever the method is.               *)
emit_static(g, e) ==
  LET inclass == IsClass(g.st, e.cls) /\ MethodsOf(g.st, find_class(g.st, e.cls), e.name) # <<>>
      m == IF inclass THEN MethodsOf(g.st, find_class(g.st, e.cls), e.name)[1]
           ELSE find_function(g.st, e.name)
  IN IF "builtin" \in DOMAIN e THEN emit_builtin_call(g, e.builtin, e.args, TypeOf(e))
     ELSE Call(m.cls \o "::" \o m.name, RetType(m),
               IF inclass /\ ~ m.is_static THEN MethodC(g, m) ELSE ParamC(g, m), MethodArgs(g, m, e.args))

emit_field(g, e) ==
  CASE Kind(TypeOf(e)) = "enum" /\ e.static -> Code(cint64, <<>>)
    [] OTHER -> FieldOf(g, e.obj, e.name)

emit_index(g, e) ==
  LET o == emit_expr(g, e.obj)
      i == IF e.idx.k = "none" THEN Code(cint64, <<>>) ELSE emit_expr(g, e.idx)
      ot == TypeOf(e.obj)
      it == IF e.idx.k = "none" THEN None ELSE TypeOf(e.idx)
  IN project_hval(CASE ot = ty_string -> Rtc("hp_of_str", <<Rtc("hp_str_char_at", <<o, i>>)>>)
                    [] ty_mixed \in {ot, it} -> Rtc("hp_arr_get_v", <<hv(o), hv(i)>>)
                    [] OTHER -> Rtc("hp_arr_get", <<o, hv(i)>>), TypeOf(e))

emit_array_lit(g, e) ==
  IF e.vals # <<>>
  THEN Packed("hp_map_of", charr, <<>>, <<>>,
              SE!FlattenSeq([i \in DOMAIN e.vals |-> hvals(g, <<e.keys[i], e.vals[i]>>)]))
  ELSE Packed("hp_arr_of", charr, <<>>, <<>>, hvals(g, e.elems))

(* One conditional per arm; every arm holds the text of the subject again. *)
MatchChain(g, e, i) ==
  IF i > Len(e.arms)
  THEN IF e.dflt.k = "none" THEN Rtc("hp_match_no_default", <<>>) ELSE emit_expr(g, e.dflt)
  ELSE Choice(Packed("hp_match_any", cbool, <<hv(emit_expr(g, e.subj))>>, <<chval>>,
                     hvals(g, e.arms[i].pats)),
              emit_expr(g, e.arms[i].body), MatchChain(g, e, i + 1))
emit_match_expr(g, e) == MatchChain(g, e, 1)

(* A closure where it is written: its environment from the names in sight. *)
(* In a try helper the macro of a name also meets the member it fills.     *)
EnvSlot(g, v) == IF Sym(g, v).captured_byref
                 THEN [var_name(g, v) EXCEPT !.ok = @ /\ Pointer(VarC(g, v)), !.c = PtrTo(chval)]
                 ELSE BoxedAs(var_name(g, v), Sym(g, v).type)
emit_closure_prototype(fn) == <<"closure", fn.psyms, fn.captures>>
emit_closure_new(g, e) ==
  LET fn == e.fn
      env == [i \in DOMAIN fn.captures |-> EnvSlot(g, fn.captures[i])]
      this == IF fn.uses_this THEN <<<<"self", g.self>>>> ELSE <<>>
  IN [c |-> cclo, txt |-> <<emit_closure_prototype(fn)>> \o this \o Texts(env),
      ok |-> Oks(env) /\ SE!ToSet(fn.captures) \cap g.vs = {}]

(***************************************************************************)
(* Assignment.  lv op= v is C's own operator, or the runtime's on values.  *)
(***************************************************************************)
ValueOp(op) == CASE op = "-=" -> "hpbi_scalar_sub" [] op = "*=" -> "hpbi_scalar_mul"
                 [] op = "/=" -> "hp_divv" [] OTHER -> "hp_add"
ArithOps == {"+=", "-=", "*=", "/="}
COp(op, lv, x) == [c |-> lv.c, txt |-> lv.txt \o <<<<op>>>> \o x.txt,
                   ok |-> /\ Oks(<<lv, x>>) /\ Number(lv.c) /\ Number(x.c)
                          /\ op \in {"%=", "<<=", ">>="} => cdouble \notin {lv.c, x.c}]
ConcatTo(lv, x, boxed) ==
  LET s == Concat(lv, x) IN Set(lv, IF boxed THEN Rtc("hp_of_str", <<s>>) ELSE s)
UnboxFor(t) == IF type_is_integral(t) THEN "hp_val_to_int" ELSE "hp_val_to_float"

(* ??= : the value only where the target is null, by the kind of target.   *)
NullAssign(g, lv, box, tt, v) ==
  LET x == emit_expr(g, v)
      vt == TypeOf(v)
      arrv == Kinded(vt, {"array", "vec"})
      strv == ~ arrv /\ tt = ty_string /\ vt \in {None, ty_string, ty_mixed}
      Guarded(c, val) == [Choice(AsC(lv, cbool), Set(lv, val), lv) EXCEPT !.ok = @ /\ lv.c = c]
  IN CASE box -> Guarded(chval, hv(x))
       [] strv -> Guarded(chstr, Rtc("hp_val_to_str", <<hv(x)>>))
       [] arrv -> Guarded(charr, x)
       [] OTHER -> Guarded(chval, hv(x))

assign_var(g, e) ==
  LET s == Sym(g, e.t.sym)
      tt == s.type
      vt == TypeOf(e.v)
      box == ~ s.is_param_ref /\ (s.captured_byref \/ s.is_program_global)
      lv == Slot(g, e.t.sym)
      x == emit_expr(g, e.v)
      copy == Rtc("hp_arr_clone", <<x>>)
      arr == Kinded(vt, ArrKinds)
      slot == s.captured_byref \/ tt \in {None, ty_mixed}
  IN CASE e.op = "??=" -> NullAssign(g, lv, box, tt, e.v)
       [] e.op = "=" -> Set(lv, CASE e.v.k = "none" -> zero_init_of(tt)
                                  [] arr /\ box -> Rtc("hp_of_arr", <<copy>>)
                                  [] arr -> copy
                                  [] OTHER -> emit_to_type(g, e.v, tt))
       [] e.op = ".=" -> ConcatTo(lv, x, box \/ tt \in {None, ty_mixed})
       [] slot /\ e.op \in ArithOps -> Set(lv, Rtc(ValueOp(e.op), <<lv, hv(x)>>))
       [] vt = ty_mixed /\ (type_is_integral(tt) \/ type_is_numeric(tt)) ->
            COp(e.op, lv, Rtc(UnboxFor(tt), <<x>>))
       [] OTHER -> COp(e.op, lv, x)

(* An element: every operator but = reads it and writes it back, and the   *)
(* texts of container and index come twice.                                *)
assign_index(g, e) ==
  LET o == emit_expr(g, e.t.obj)
      i == emit_expr(g, e.t.idx)
      x == emit_expr(g, e.v)
      ot == TypeOf(e.t.obj)
      op == IF e.op \in {"-=", "*="} THEN ValueOp(e.op) ELSE "hp_add"
      push == IF ot = ty_mixed THEN Set(o, Rtc("hp_arr_push_vv", <<o, hv(x)>>))
              ELSE Rtc("hp_arr_push_v", <<o, hv(x)>>)
  IN CASE e.t.idx.k = "none" -> push
       [] e.op = "=" -> IF ty_mixed \in {ot, TypeOf(e.t.idx)}
                        THEN Rtc("hp_arr_set_v", <<hv(o), hv(i), hv(x)>>)
                        ELSE Rtc("hp_arr_set", <<o, hv(i), hv(x)>>)
       [] OTHER -> Rtc("hp_arr_set_v", <<hv(o), hv(i),
                         Rtc(op, <<Rtc("hp_arr_get_v", <<hv(o), hv(i)>>), hv(x)>>)>>)

assign_field(g, e) ==
  LET lv == FieldOf(g, e.t.obj, e.t.name)
      c == RecordOf(TypeOf(e.t.obj))[2]
      ft == class_find_field(g.st, find_class(g.st, c), e.t.name)[1]
      boxed == ft \in {None, ty_mixed}
      vt == TypeOf(e.v)
      x == emit_expr(g, e.v)
      Value == IF ft = None THEN x ELSE IF ft = ty_mixed THEN to_hval(g, e.v) ELSE emit_to_type(g, e.v, ft)
  IN CASE e.op = "=" -> Set(lv, Value)
       [] e.op = ".=" -> ConcatTo(lv, x, boxed)
       [] boxed /\ e.op \in ArithOps -> Set(lv, Rtc(ValueOp(e.op), <<lv, hv(x)>>))
       [] vt = ty_mixed /\ (type_is_integral(ft) \/ type_is_numeric(ft)) ->
            COp(e.op, lv, Rtc(UnboxFor(ft), <<x>>))
       [] OTHER -> COp(IF e.op = "??=" THEN "+=" ELSE e.op, lv,
                       IF ft # None THEN emit_to_type(g, e.v, ft) ELSE x)

emit_assign(g, e) == CASE e.t.k = "var" -> assign_var(g, e)
                       [] e.t.k = "index" -> assign_index(g, e)
                       [] OTHER -> assign_field(g, e)

emit_cast(g, e) ==
  LET x == emit_expr(g, e.e)
      from == TypeOf(e.e)
      Plain(c) == [x EXCEPT !.c = c, !.ok = @ /\ (c = x.c \/ (Number(c) /\ Number(x.c)) \/ (Pointer(c) /\ Pointer(x.c)))]
  IN CASE e.to = ty_string /\ from # None /\ type_is_numeric(from) -> Rtc("hp_str_from_num", <<x>>)
       [] e.to = ty_string /\ from = ty_bool -> AsC(x, chstr)
       [] type_is_integral(e.to) /\ from = ty_string -> Rtc("hp_str_to_int", <<x>>)
       [] e.to = ty_float /\ from = ty_string -> Rtc("hp_str_to_float", <<x>>)
       [] type_is_integral(e.to) -> [Plain(cint64) EXCEPT !.ok = x.ok /\ x.c # chval]
       [] OTHER -> Plain(ctype_of(e.to))

(* A result of one kind stays native; otherwise both sides are boxed and,  *)
(* for a scalar result, converted back.                                    *)
emit_ternary(g, e) ==
  LET c == emit_cond(g, e.c)
      a == emit_expr(g, e.a)
      b == emit_expr(g, e.b)
      at == TypeOf(e.a)
      bt == TypeOf(e.b)
      k == IF TypeOf(e) = None THEN "none" ELSE Kind(TypeOf(e))
      Odd(t, other) == /\ t # None
                       /\ \/ Kinded(t, BoxKinds) \/ other = None \/ k = "mixed"
                          \/ Kinded(other, IntKinds \cup ArrKinds \cup {"float", "bool", "string"})
      same == at # None /\ bt # None /\ Kind(at) = Kind(bt) /\ Kind(at) \in ArrKinds \cup {"string"}
      boxed == ~ same /\ (Odd(at, bt) \/ Odd(bt, at))
      conv == CASE k = "string" -> "hp_val_to_str" [] k \in IntKinds \cup {"enum"} -> "hp_val_to_int"
                [] k = "float" -> "hp_val_to_float" [] k = "bool" -> "hp_val_to_bool"
                [] k \in ArrKinds -> "hp_val_to_arr" [] OTHER -> "none"
  IN CASE ~ boxed -> Choice(c, a, b)
       [] conv # "none" -> Choice(c, Rtc(conv, <<hv(a)>>), Rtc(conv, <<hv(b)>>))
       [] OTHER -> Choice(c, hv(a), hv(b))

emit_new(g, e) ==
  LET ctor == class_find_ctor(g, e.cls)
      Arg(i) == CASE Kinded(ParamType(g, ctor[1], i), {"class", "struct", "own"}) ->
                       emit_expr(g, e.args[i])
                  [] ctor # <<>> /\ ParamType(g, ctor[1], i) = ty_mixed -> to_hval(g, e.args[i])
                  [] OTHER -> emit_expr(g, e.args[i])
      args == IF ctor = <<>> THEN <<>>
              ELSE [i \in DOMAIN e.args |-> Arg(i)] \o emit_missing_defaults(g, ctor[1], Len(e.args))
  IN CASE IsClass(g.st, e.cls) -> [Packed("new " \o e.cls, Struct(e.cls), <<>>, <<>>, args) EXCEPT
                                     !.ok = Oks(args) /\ \A i \in DOMAIN args : args[i].c # cvoid]
       [] e.cls = "Exception" /\ e.args # <<>> ->
            Rtc("hp_of_str", <<Rtc("hp_val_to_str", <<to_hval(g, e.args[1])>>)>>)
       [] OTHER -> Code(chval, <<>>)

emit_unary(g, e) ==
  LET x == emit_expr(g, e.e)
      boxed == Kinded(TypeOf(e.e), BoxKinds)
  IN CASE e.op = "!" -> Not(IF boxed THEN Rtc("hp_val_to_bool", <<hv(x)>>) ELSE x)
       [] e.op = "-" /\ boxed -> Rtc("hp_val_to_float", <<hv(x)>>)
       [] e.op = "~" -> AsInt(x)
       [] OTHER -> [x EXCEPT !.ok = @ /\ (e.op = "-" => Number(x.c))]

PhpConstC == [PHP_INT_MAX |-> cint64, PHP_EOL |-> chstr, M_PI |-> cdouble, PHP_NULL |-> chval]
emit_var(g, e) ==
  CASE e.name = "this" -> Code(Struct(g.self), <<<<"self", g.self>>>>)
    [] e.name \in DOMAIN PhpConstC -> Code(PhpConstC[e.name], <<>>)
    [] e.name = "argc" -> Code(cint64, <<>>)
    [] e.name = "argv" -> Code(charr, <<>>)
    [] OTHER -> Slot(g, VarOf(e))

LiteralC == [int |-> cint64, float |-> cdouble, str |-> chstr, bool |-> cbool, null |-> chval]
emit_is(g, e) == AsC(Rtc("hp_tag", <<to_hval(g, e.e)>>), cbool)
emit_expr(g, e) ==
  CASE e.k \in DOMAIN LiteralC -> Code(LiteralC[e.k], <<>>)
    [] e.k = "tpl"     -> emit_tpl(g, e)
    [] e.k = "var"     -> emit_var(g, e)
    [] e.k = "arr"     -> emit_array_lit(g, e)
    [] e.k = "index"   -> emit_index(g, e)
    [] e.k = "field"   -> emit_field(g, e)
    [] e.k = "call"    -> emit_call(g, e)
    [] e.k = "method"  -> emit_method(g, e)
    [] e.k = "static"  -> emit_static(g, e)
    [] e.k = "new"     -> emit_new(g, e)
    [] e.k = "bin"     -> emit_binop(g, e)
    [] e.k = "un"      -> emit_unary(g, e)
    [] e.k = "assign"  -> emit_assign(g, e)
    [] e.k = "tern"    -> emit_ternary(g, e)
    [] e.k = "match"   -> emit_match_expr(g, e)
    [] e.k = "closure" -> emit_closure_new(g, e)
    [] e.k \in {"borrow", "mutborrow"} -> AddressOf(emit_expr(g, e.e))
    [] e.k = "deref"   -> Deref(emit_expr(g, e.e))
    [] e.k = "cast"    -> emit_cast(g, e)
    [] e.k = "is"      -> emit_is(g, e)
    [] OTHER -> HpNull

(***************************************************************************)
(* Which variables a statement mentions: the ones a C function declares at *)
(* its top and a try statement passes to its helpers.  The arms of a match *)
(* are not looked into.                                                    *)
(***************************************************************************)
RECURSIVE collect_syms_expr(_), collect_syms_stmt(_)
InExprs(es) == UNION {collect_syms_expr(es[i]) : i \in DOMAIN es}
InStmts(ss) == UNION {collect_syms_stmt(ss[i]) : i \in DOMAIN ss}
collect_syms_expr(e) ==
  CASE e.k = "var" -> {VarOf(e)} \ {0}
    [] e.k = "assign" -> InExprs(<<e.t, e.v>>)
    [] e.k = "call" -> InExprs(<<e.fn>> \o e.args)
    [] e.k = "method" -> InExprs(<<e.obj>> \o e.args)
    [] e.k \in {"static", "new"} -> InExprs(e.args)
    [] e.k = "tpl" -> InExprs(e.es)
    [] e.k = "bin" -> InExprs(<<e.l, e.r>>)
    [] e.k = "index" -> InExprs(<<e.obj, e.idx>>)
    [] e.k \in {"un", "cast", "is", "borrow", "mutborrow", "deref"} -> collect_syms_expr(e.e)
    [] e.k = "arr" -> InExprs(e.keys \o e.vals \o e.elems)
    [] e.k = "field" -> collect_syms_expr(e.obj)
    [] e.k = "closure" -> SE!ToSet(e.fn.captures)
    [] e.k = "tern" -> InExprs(<<e.c, e.a, e.b>>)
    [] e.k = "match" -> collect_syms_expr(e.subj)
    [] OTHER -> {}

catch_syms(s) == {s.catches[i].sym : i \in DOMAIN s.catches}
try_body_syms(s) == InStmts(s.body) \cup InStmts(s.fin)
                    \cup UNION {InStmts(s.catches[i].body) : i \in DOMAIN s.catches}
collect_syms_stmt(s) ==
  CASE s.k \in {"expr", "throw"} -> collect_syms_expr(s.e)
    [] s.k = "echo" -> InExprs(s.es)
    [] s.k = "let" -> collect_syms_expr(s.init) \cup {s.sym}
    [] s.k = "return" -> collect_syms_expr(s.value)
    [] s.k = "if" -> collect_syms_expr(s.c) \cup InStmts(s.then \o s.els)
    [] s.k \in {"while", "do"} -> collect_syms_expr(s.c) \cup InStmts(s.body)
    [] s.k = "for" -> collect_syms_expr(s.c) \cup InStmts(s.init \o s.step \o s.body)
    [] s.k = "foreach" -> collect_syms_expr(s.iter) \cup ({s.vsym, s.ksym} \ {0}) \cup InStmts(s.body)
    [] s.k \in {"block", "unsafe"} -> InStmts(s.body)
    [] s.k = "try" -> catch_syms(s) \cup try_body_syms(s)
    [] s.k = "switch" -> collect_syms_expr(s.c)
         \cup UNION {InExprs(s.cases[i].pats) \cup InStmts(s.cases[i].body) : i \in DOMAIN s.cases}
    [] OTHER -> {}
SlipTrySyms(s) == InStmts(s.body) \ catch_syms(s)
try_syms(s) == try_body_syms(s) \ catch_syms(s)

(***************************************************************************)
(* Statements, as lists of items of C:                                     *)
(*   decl v c x    do x    return x    break    continue    label / goto    *)
(*   if x then els    loop x body (once: do {} while (0))    switch x cases *)
(*   block body    leave act x (a helper returns to its try statement)      *)
(*   try body catch vs    rethrow    onact act then                         *)
(***************************************************************************)
RECURSIVE emit_stmt(_, _), emit_block(_, _)
Do(x) == <<[k |-> "do", x |-> x]>>
Decl(v, c, x) == <<[k |-> "decl", v |-> v, c |-> c, x |-> x]>>
If(x, then, els) == [k |-> "if", x |-> x, then |-> then, els |-> els]
Block(body) == <<[k |-> "block", body |-> body]>>
Loop(kind, x, body) == [k |-> "loop", kind |-> kind, x |-> x, body |-> body]
Leave(act, x) == <<[k |-> "leave", act |-> act, x |-> x]>>
Nothing == Code(cvoid, <<>>)

emit_block(g, ss) ==
  SE!FlattenSeq([i \in DOMAIN ss |-> emit_stmt([g EXCEPT !.path = Append(@, i)], ss[i])])
Within(g, i) == [g EXCEPT !.path = Append(@, i)]
LoopBody(g, body) ==
  emit_block([g EXCEPT !.loop = @ + 1, !.labels = Append(@, g.path)], body)
  \o <<[k |-> "label", id |-> g.path]>>
SlipContinue(g) == <<[k |-> "continue"]>>
Continue(g) == IF g.labels # <<>> THEN <<[k |-> "goto", id |-> g.labels[Len(g.labels)]]>>
               ELSE <<[k |-> "continue"]>>

(* One assignment per named slot, from a boxed copy of the source.         *)
emit_list_destructure(g, e) ==
  LET x == emit_expr(g, e.v)
      src == IF Kinded(TypeOf(e.v), {"array", "vec"}) THEN Rtc("hp_of_arr", <<x>>) ELSE hv(x)
      keyed == e.t.vals # <<>>
      slots == IF keyed THEN e.t.vals ELSE e.t.elems
      From(i) == IF keyed THEN Rtc("hp_arr_get", <<Code(charr, <<>>), to_hval(g, e.t.keys[i])>>)
                 ELSE HpNull
      Slotted(i) ==
        LET s == Sym(g, slots[i].sym)
            v == var_name(g, slots[i].sym)
            lv == IF s.captured_byref THEN Deref(v) ELSE v
            c == CASE s.captured_byref \/ s.is_program_global -> chval
                   [] Kinded(s.type, ArrKinds) -> charr
                   [] Kinded(s.type, IntKinds \cup {"bool"}) -> cint64
                   [] Kinded(s.type, {"string", "float"}) -> ctype_of(s.type)
                   [] OTHER -> chval
        IN Do(Set(lv, AsC(From(i), c)))
  IN Block(Do(src) \o SE!FlattenSeq([i \in DOMAIN slots |->
                                       IF slots[i].k = "none" THEN <<>> ELSE Slotted(i)]))

emit_foreach(g, s) ==
  LET t == TypeOf(s.iter)
      x == emit_expr(g, s.iter)
      iter == IF IsBox(t) THEN Packed("hp_val_iter", cvoid, <<>>, <<>>, <<hv(x)>>)
              ELSE Call("hp_arr_iter", cvoid, <<charr>>, <<x>>)
      vt == Sym(g, s.vsym).type
      tmp == Code(IF Kinded(vt, IntKinds \cup ArrKinds \cup {"enum", "float", "bool", "string"})
                  THEN ctype_of(vt) ELSE chval, <<>>)
      v == var_name(g, s.vsym)
      kc == IF s.ksym # 0 /\ Sym(g, s.ksym).type = ty_string THEN chstr ELSE cint64
      key == IF s.ksym = 0 THEN <<>> ELSE Decl(Sym(g, s.ksym).uid, kc, Code(kc, <<>>))
      next == Code(cbool, <<<<"hp_foreach_next">>>>)
  IN IF t = ty_string THEN Do(Bad(x))
     ELSE Block(Do(iter) \o Decl(Sym(g, s.vsym).uid, ctype_of(vt), zero_init_of(vt))
                \o <<Loop("while", next, Do(Set(v, tmp)) \o key \o LoopBody(g, s.body))>>)

(* A switch on strings is a chain of tests; on numbers it is C's own.      *)
Test(p) == [Rtc("hp_str_eq", <<Code(chstr, <<>>), p>>) EXCEPT !.txt = @ \o <<<<"case">>>>]
RECURSIVE StrCase(_, _, _)
StrCase(g, c, i) ==
  LET p == Test(emit_expr(g, c.pats[i]))
  IN IF i = Len(c.pats)
     THEN <<If(p, emit_block(g, c.body) \o <<[k |-> "break"]>>, <<>>)>>
     ELSE <<If(p, <<>>, StrCase(g, c, i + 1))>>
emit_switch(g0, s) ==
  LET x == emit_expr(g0, s.c)
      g == [g0 EXCEPT !.loop = @ + 1]
      At(i) == Within(g, i)
      chain == [i \in DOMAIN s.cases |->
                  IF s.cases[i].pats = <<>> THEN <<>> ELSE StrCase(At(i), s.cases[i], 1)]
      dflt == [i \in DOMAIN s.cases |->
                 IF s.cases[i].pats = <<>> THEN emit_block(At(i), s.cases[i].body) ELSE <<>>]
      Label(p) == [emit_expr(g, p) EXCEPT !.ok = @ /\ p.k = "int"]
      cases == [i \in DOMAIN s.cases |->
                  [pats |-> [j \in DOMAIN s.cases[i].pats |-> Label(s.cases[i].pats[j])],
                   body |-> emit_block(At(i), s.cases[i].body)]]
  IN IF TypeOf(s.c) = ty_string
     THEN <<Loop("once", Nothing, Do(Set(Code(chstr, <<>>), x)) \o SE!FlattenSeq(chain \o dflt))>>
     ELSE <<[k |-> "switch", x |-> AsInt(x), cases |-> cases]>>

emit_for(g, s) ==
  LET c == IF s.c.k = "none" THEN Code(cint64, <<>>) ELSE emit_expr(g, s.c)
  IN Block(emit_block(Within(g, 1), s.init)
           \o <<Loop("while", c, LoopBody(Within(g, 2), s.body)
                                 \o emit_block(Within([g EXCEPT !.loop = @ + 1], 3), s.step))>>)

(* try: two functions of file scope, run by hp_try_run.  The variables go  *)
(* by address and are read through a macro of the same name; break,        *)
(* continue and return come back as an action that the code after the      *)
(* finally block carries out.                                              *)
CatchVar(g, c) ==
  LET t == Sym(g, c.sym).type
      d == CASE t = <<"class", "Exception">> -> chval [] OTHER -> ctype_of(t)
  IN Decl(Sym(g, c.sym).uid, d, Code(d, <<>>))
emit_try(g, s) ==
  LET vs == {v \in try_syms(s) : Sym(g, v).is_auto \/ Sym(g, v).is_param}
      h  == [g EXCEPT !.helper = TRUE, !.vs = vs, !.loop = 0]
      catch == SE!FlattenSeq([i \in DOMAIN s.catches |->
                 CatchVar(g, s.catches[i]) \o emit_block(Within(h, i + 10), s.catches[i].body)])
      own == [k |-> "try", body |-> emit_block(Within(h, 1), s.body), catch |-> catch,
              handled |-> s.catches # <<>>, vs |-> {<<Sym(g, v).uid, ctype_of(Sym(g, v).type)>> : v \in vs},
              self |-> IF g.is_meth THEN g.self ELSE ""]
      ret == IF g.clo THEN HpNull
             ELSE IF g.main THEN Code(cint64, <<>>)
             ELSE proj_hval_expr(g.ret, HpNull)
      On(act, then) == <<[k |-> "onact", act |-> act, then |-> then]>>
      value == IF g.ret \in {None, ty_void} /\ ~ g.clo /\ ~ g.main THEN Nothing ELSE ret
      honor == CASE g.helper -> On(1 .. 3, <<[k |-> "pass"]>>)
                 [] OTHER -> On({1}, <<[k |-> "return", x |-> value]>>)
                             \o IF g.loop > 0 THEN On({2}, <<[k |-> "break"]>>) \o On({3}, Continue(g))
                                ELSE <<>>
  IN Block(<<own>> \o emit_block(Within(g, 2), s.fin) \o <<[k |-> "rethrow"]>> \o honor)

emit_return(g, s) ==
  LET x == emit_expr(g, s.value)
      typed == IF g.clo \/ g.ret = ty_mixed THEN to_hval(g, s.value) ELSE emit_to_type(g, s.value, g.ret)
  IN CASE g.helper -> Leave(1, IF s.value.k = "none" THEN Nothing ELSE hv(x))
       [] s.value.k = "none" -> <<[k |-> "return", x |-> IF g.clo THEN HpNull ELSE Nothing]>>
       [] OTHER -> <<[k |-> "return", x |-> typed]>>

emit_let(g, s) ==
  LET v == Sym(g, s.sym)
      x == emit_expr(g, s.init)
      lv == IF v.captured_byref THEN Deref(var_name(g, s.sym)) ELSE var_name(g, s.sym)
  IN CASE ~ v.is_auto -> LET c == ctype_of(IF s.ann = None THEN TypeOf(s.init) ELSE s.ann)
                         IN Decl(v.uid, c, x)
       [] v.captured_byref \/ v.is_program_global -> Do(Set(lv, emit_to_type(g, s.init, None)))
       [] OTHER -> Do(Set(lv, x))

emit_stmt(g, s) ==
  CASE s.k = "let" -> emit_let(g, s)
    [] s.k = "expr" -> IF s.e.k = "assign" /\ s.e.t.k = "arr" /\ s.e.op = "="
                       THEN emit_list_destructure(g, s.e) ELSE Do(emit_expr(g, s.e))
    [] s.k = "return" -> emit_return(g, s)
    [] s.k = "echo" -> SE!FlattenSeq([i \in DOMAIN s.es |-> Do(Rtc("hp_echo", <<to_hval(g, s.es[i])>>))])
    [] s.k = "if" -> <<If(emit_cond(g, s.c), emit_block(Within(g, 1), s.then), emit_block(Within(g, 2), s.els))>>
    [] s.k = "while" -> <<Loop("while", emit_cond(g, s.c), LoopBody(g, s.body))>>
    [] s.k = "do" -> <<Loop("do", emit_expr(g, s.c), LoopBody(g, s.body))>>
    [] s.k = "switch" -> emit_switch(g, s)
    [] s.k = "for" -> emit_for(g, s)
    [] s.k = "foreach" -> emit_foreach(g, s)
    [] s.k = "break" -> IF g.helper /\ g.loop = 0 THEN Leave(2, Nothing) ELSE <<[k |-> "break"]>>
    [] s.k = "continue" -> IF g.helper /\ g.loop = 0 THEN Leave(3, Nothing) ELSE Continue(g)
    [] s.k \in {"block", "unsafe"} -> Block(emit_block(g, s.body))
    [] s.k = "try" -> emit_try(g, s)
    [] s.k = "throw" -> Do(Rtc("hp_throw", <<hv(emit_expr(g, s.e))>>)) \o <<[k |-> "throw"]>>
    [] OTHER -> <<>>

(***************************************************************************)
(* Functions.  self is the class of the receiver, "" when there is none.   *)
(***************************************************************************)
Generator(st) == [st |-> st, vs |-> {}, raw |-> <<>>, self |-> "", ret |-> None, main |-> FALSE,
                  clo |-> FALSE, helper |-> FALSE, loop |-> 0, labels |-> <<>>, path |-> <<>>,
                  is_meth |-> FALSE]
Function(name, self, params, ret, body) ==
  [name |-> name, self |-> self, params |-> params, ret |-> ret, body |-> body]

(* Every automatic variable of the body, declared once at its top.         *)
emit_auto_decls(g, ss, skip) ==
  LET Local(v) == LET s == Sym(g, v) IN /\ s.is_auto /\ ~ s.is_param
                                        /\ ~ s.is_global_alias /\ ~ s.is_program_global
      vs == SE!SetToSeq({v \in InStmts(ss) \ skip : Local(v)})
      D(v) == IF Sym(g, v).captured_byref THEN Decl(Sym(g, v).uid, PtrTo(chval), Code(PtrTo(chval), <<>>))
              ELSE Decl(Sym(g, v).uid, ctype_of(Sym(g, v).type), zero_init_of(Sym(g, v).type))
  IN SE!FlattenSeq([i \in DOMAIN vs |-> D(vs[i])])

(* What a function returns when its body runs to the end.                  *)
Fallback(ret) ==
  LET t == IF ret = None THEN ty_void ELSE ret
      x == CASE type_is_integral(t) -> cint64 [] type_is_numeric(t) -> cdouble
             [] t = ty_string -> chstr [] Kind(t) \in ArrKinds -> charr
             [] IsRecord(t) \/ (Smart(t) /\ IsRecord(t[2])) -> czero [] OTHER -> chval
  IN IF t = ty_void THEN <<>> ELSE <<[k |-> "return", x |-> Code(x, <<>>)]>>

emit_fn(g0, fn) ==
  LET meth == fn.cls # "" /\ ~ fn.is_static
      g == [g0 EXCEPT !.ret = fn.ret, !.is_meth = meth, !.self = fn.cls]
      name == IF fn.cls = "" THEN fn.name ELSE fn.cls \o "->" \o fn.name
  IN Function(name, IF meth THEN fn.cls ELSE "",
              {<<Sym(g, fn.psyms[i]).uid, ParamC(g, fn)[i]>> : i \in DOMAIN fn.params},
              RetType(fn), emit_auto_decls(g, fn.body, {}) \o emit_block(g, fn.body) \o Fallback(fn.ret))

(***************************************************************************)
(* A closure unpacks its arguments and its environment.  A parameter of a  *)
(* class or function type stays an hval, a captured one gets its type.     *)
(***************************************************************************)
Unpacked == IntKinds \cup ArrKinds \cup {"float", "bool", "string"}
ArgC(t) == IF Kinded(t, Unpacked) THEN ctype_of(t) ELSE chval
CaptureC(t) ==
  CASE Kinded(t, {"own", "rc", "ref", "mutref"}) ->
         IF Kinded(t[2], Unpacked \cup {"class", "struct"}) THEN ctype_of(t[2]) ELSE chval
    [] Kinded(t, {"fn", "class", "struct"}) -> ctype_of(t)
    [] OTHER -> ArgC(t)
Boxes(g, v) == Sym(g, v).captured_byref
RawOf(g, fn) ==
  LET ps == SE!ToSet(fn.psyms)
      T(v) == Sym(g, v).type
  IN [v \in ps \cup SE!ToSet(fn.captures) |->
        CASE Boxes(g, v) -> PtrTo(chval) [] v \in ps -> ArgC(T(v)) [] OTHER -> CaptureC(T(v))]
(* Whatever its result type, a closure that falls off its end gives an     *)
(* hval: null here, the zero of the type in the code.                      *)
ClosureFallback == <<[k |-> "return", x |-> HpNull]>>
(* The environment of an inner closure and of a closure outside a method   *)
(* know no class for self.                                                 *)
emit_closure(g0, fn) ==
  LET g == [g0 EXCEPT !.clo = TRUE, !.ret = fn.ret, !.raw = RawOf(g0, fn), !.self = fn.cls]
      caps == SE!ToSet(fn.captures)
      Names(vs) == {<<Sym(g, v).uid, g.raw[v]>> : v \in vs}
  IN Function("closure", IF fn.uses_this THEN fn.cls ELSE "", Names(caps \cup SE!ToSet(fn.psyms)), chval,
              emit_auto_decls(g, fn.body, caps) \o emit_block(g, fn.body) \o ClosureFallback)

(***************************************************************************)
(* Classes.  C_new_args zeroes and defaults the fields of the whole chain, *)
(* the ones of the class itself first, and calls the constructor it finds  *)
(* with what va_arg reads.                                                 *)
(***************************************************************************)
RECURSIVE Chain(_, _), cg_visit_expr(_), cg_visit_stmt(_), collect_globals_stmt(_)
Chain(g, c) == <<c>> \o IF Base(g, c) = "" THEN <<>> ELSE Chain(g, Base(g, c))
FieldDefaults(g, c) ==
  LET fs == find_class(g.st, c).fields
      D(f) == LET t == class_find_field(g.st, find_class(g.st, c), f.name)[1]
                  x == CASE f.dflt.k = "null" /\ Kinded(t, {"class", "struct", "own", "rc", "fn"}) -> Code(czero, <<>>)
                         [] t \in {None, ty_mixed} -> to_hval(g, f.dflt)
                         [] OTHER -> emit_to_type(g, f.dflt, t)
              IN IF f.dflt.k = "none" THEN <<>> ELSE Do(Set(Code(ctype_of(t), <<>>), x))
  IN SE!FlattenSeq([i \in DOMAIN fs |-> D(fs[i])])
(* The type va_arg reads for a parameter.                                  *)
VaType(p) == CASE p.type = None -> chval
               [] type_is_integral(p.type) -> <<"int">>
               [] type_is_numeric(p.type) -> cdouble
               [] OTHER -> ctype_of(p.type)
emit_ctor_shim(g, c) ==
  LET chain == Chain(g, c)
      ctor == class_find_ctor(g, c)
      args == [i \in DOMAIN ctor[1].params |-> Code(ctype_of(ctor[1].params[i].type), <<>>)]
  IN Function("new " \o c, c, {}, cvoid,
              SE!FlattenSeq([i \in DOMAIN chain |-> FieldDefaults(g, chain[i])])
              \o IF ctor = <<>> THEN <<>>
                 ELSE SE!FlattenSeq([i \in DOMAIN args |-> Do(Set(args[i], Code(VaType(ctor[1].params[i]), <<>>)))])
                      \o Do(Call(ctor[1].cls \o "->__construct", cvoid, ParamC(g, ctor[1]), args)))

(* The dispatch shim of a method: the class ids of the derived classes     *)
(* that define the method, each for itself.                                *)
emit_virt(g, c, name, dyn) ==
  IF Derives(g, dyn, c) /\ Defines(g, dyn, name) THEN dyn ELSE c

emit_class(g, c) ==
  <<emit_ctor_shim(g, c.name)>> \o [i \in DOMAIN c.methods |-> emit_fn(g, c.methods[i])]
(* A struct holds its base by value, which must be complete by then.       *)
emit_structs(prog) == [i \in DOMAIN prog.classes |-> <<prog.classes[i].name, prog.classes[i].extends>>]

(***************************************************************************)
(* Closures get their prototypes from a walk over all bodies, which does   *)
(* not look into switch and do statements; globals from another one, which *)
(* does not look into unsafe blocks nor into closures that are a part of   *)
(* an expression.  A closure that is first met while a body is emitted is  *)
(* taken to have no definition in time, also where one would still come.   *)
(***************************************************************************)
VisitAll(es) == SE!FlattenSeq([i \in DOMAIN es |-> cg_visit_expr(es[i])])
VisitBody(ss) == SE!FlattenSeq([i \in DOMAIN ss |-> cg_visit_stmt(ss[i])])
cg_visit_expr(e) ==
  CASE e.k = "closure" -> <<e.fn>> \o VisitBody(e.fn.body)
    [] e.k = "tpl"   -> VisitAll(e.es)
    [] e.k = "index" -> VisitAll(<<e.obj, e.idx>>)
    [] e.k = "field" -> cg_visit_expr(e.obj)
    [] e.k = "call"  -> VisitAll(<<e.fn>> \o e.args)
    [] e.k = "method" -> VisitAll(<<e.obj>> \o e.args)
    [] e.k \in {"static", "new"} -> VisitAll(e.args)
    [] e.k = "bin"   -> VisitAll(<<e.l, e.r>>)
    [] e.k \in {"un", "cast", "is", "borrow", "mutborrow", "deref"} -> cg_visit_expr(e.e)
    [] e.k = "assign" -> VisitAll(<<e.t, e.v>>)
    [] e.k = "tern"  -> VisitAll(<<e.c, e.a, e.b>>)
    [] e.k = "match" -> VisitAll(<<e.subj, e.dflt>>) \o SE!FlattenSeq(
                          [i \in DOMAIN e.arms |-> VisitAll(Append(e.arms[i].pats, e.arms[i].body))])
    [] e.k = "arr"   -> VisitAll(e.keys \o e.vals \o e.elems)
    [] OTHER -> <<>>
cg_visit_stmt(s) ==
  CASE s.k \in {"expr", "throw"} -> cg_visit_expr(s.e)
    [] s.k = "let"    -> cg_visit_expr(s.init)
    [] s.k = "return" -> cg_visit_expr(s.value)
    [] s.k = "echo"   -> VisitAll(s.es)
    [] s.k = "if"     -> cg_visit_expr(s.c) \o VisitBody(s.then \o s.els)
    [] s.k = "while"  -> cg_visit_expr(s.c) \o VisitBody(s.body)
    [] s.k = "for"    -> cg_visit_expr(s.c) \o VisitBody(s.init \o s.step \o s.body)
    [] s.k = "foreach" -> cg_visit_expr(s.iter) \o VisitBody(s.body)
    [] s.k \in {"block", "unsafe"} -> VisitBody(s.body)
    [] s.k = "try"    -> VisitBody(s.body) \o VisitBody(s.fin)
                         \o SE!FlattenSeq([i \in DOMAIN s.catches |-> VisitBody(s.catches[i].body)])
    [] OTHER -> <<>>

GlobalsIn(ss) == UNION {collect_globals_stmt(ss[i]) : i \in DOMAIN ss}
collect_globals_stmt(s) ==
  CASE s.k = "global" -> SE!ToSet(s.syms)
    [] s.k = "expr" -> IF s.e.k = "closure" THEN GlobalsIn(s.e.fn.body) ELSE {}
    [] s.k = "if"  -> GlobalsIn(s.then \o s.els)
    [] s.k = "for" -> GlobalsIn(s.init \o s.step \o s.body)
    [] s.k \in {"while", "do", "foreach", "block"} -> GlobalsIn(s.body)
    [] s.k = "try" -> GlobalsIn(s.body) \cup GlobalsIn(s.fin)
                      \cup UNION {GlobalsIn(s.catches[i].body) : i \in DOMAIN s.catches}
    [] s.k = "switch" -> UNION {GlobalsIn(s.cases[i].body) : i \in DOMAIN s.cases}
    [] OTHER -> {}

(* The variables of every global statement get storage at file scope.      *)
FileGlobals(g, sr, bodies) ==
  {<<Sym(g, v).uid, ctype_of(Sym(g, v).type)>> :
     v \in UNION {GlobalsIn(bodies[i].body) : i \in DOMAIN bodies} \cup GlobalsIn(sr.stmts)}
(* The script itself: its variables at the top of a function of their own. *)
hp_main(g, sr) ==
  Function("main", "", {}, cint64,
           emit_auto_decls(g, sr.stmts, {}) \o emit_block([g EXCEPT !.main = TRUE], sr.stmts))
(* The file: storage of the globals, structs, functions, closures, main.   *)
codegen_emit(sr) ==
  LET g == Generator(sr.st)
      methods == SE!FlattenSeq([i \in DOMAIN sr.classes |-> sr.classes[i].methods])
      bodies == sr.fns \o methods
      closures == SE!FlattenSeq([i \in DOMAIN bodies |-> VisitBody(bodies[i].body)]) \o VisitBody(sr.stmts)
  IN [globals |-> FileGlobals(g, sr, bodies),
      closures |-> {emit_closure_prototype(closures[i]) : i \in DOMAIN closures},
      structs |-> emit_structs(sr.st.prog),
      fns |-> SE!FlattenSeq([i \in DOMAIN sr.classes |-> emit_class(g, sr.classes[i])])
              \o [i \in DOMAIN closures |-> emit_closure(g, closures[i])]
              \o [i \in DOMAIN sr.fns |-> emit_fn(g, sr.fns[i])] \o <<hp_main(g, sr)>>]

(* The builtins of sema's table that hphp_rt.h declares no function for, and  *)
(* those of a fixed argument count whose function takes another count: the    *)
(* program is accepted, and the C compiler rejects what is emitted for it.    *)
Undeclared == {n \in DOMAIN Builtin : n # "unset" /\ cname(n) \notin DOMAIN Arity}
Miscounted == {n \in DOMAIN Builtin \ (Undeclared \cup {"unset", "json_encode_pretty"}) :
                 \E k \in 0 .. 2 : Builtin[n].args = k .. k /\ Arity[cname(n)] # k}
ASSUME BuiltinsLackingC ==
  /\ Undeclared = {"array", "M_PI", "lcg_value", "sys_getloadavg", "php_logo_guid", "php_sapi"}
                  \cup Unsafe
  /\ Miscounted = {"atan2"}
============================================================================
