-------------------------------- MODULE Json -------------------------------
(***************************************************************************)
(* json_encode and json_decode, sprintf (hphp_std.c).  The decoder is the  *)
(* recursive descent of jp_value and jp_string: each takes a position and  *)
(* gives back what it read and the position behind it.  Positions count    *)
(* from 1.  Nesting is as deep as the text.                                *)
(***************************************************************************)
EXTENDS Arrays
LOCAL INSTANCE SequencesExt

null_  == <<110, 117, 108, 108>>
true_  == <<116, 114, 117, 101>>
false_ == <<102, 97, 108, 115, 101>>

SlipQuoted(s) ==
  LET Char(c) == CASE c = 34 -> <<92, c>> [] c = 10 -> <<92, 110>> [] c = 9 -> <<92, 116>> [] OTHER -> <<c>>
  IN  <<34>> \o Flat([i \in DOMAIN s |-> Char(s[i])]) \o <<34>>

\* Quotes, backslashes, newlines and tabs are escaped, nothing else.
Quoted(s) ==
  LET Char(c) == CASE c \in {34, 92} -> <<92, c>> [] c = 10 -> <<92, 110>> [] c = 9 -> <<92, 116>> [] OTHER -> <<c>>
  IN  <<34>> \o Flat([i \in DOMAIN s |-> Char(s[i])]) \o <<34>>

\* A map's keys are written as they are.
RECURSIVE hbuf_json_r(_)
hbuf_json_r(v) ==
  LET a == v[2]
      Entry(i) == <<34>> \o hp_val_to_str(a.keys[i]) \o <<34, 58>> \o hbuf_json_r(a.vals[i])
  IN  CASE v[1] = "bool" -> IF v[2] THEN true_ ELSE false_
        [] v[1] = "int" -> hp_str_from_int(v[2])
        [] v[1] = "float" -> hp_str_from_double(v[2])
        [] v[1] = "str" -> Quoted(v[2])
        [] v[1] = "arr" /\ a.map -> <<123>> \o hp_implode(<<44>>, [i \in DOMAIN a.vals |-> Entry(i)]) \o <<125>>
        [] v[1] = "arr" /\ ~ a.map -> <<91>> \o hp_implode(<<44>>, [i \in DOMAIN a.vals |-> hbuf_json_r(a.vals[i])]) \o <<93>>
        [] OTHER -> null_

hpbi_json_encode(v) == hp_str_lit(hbuf_json_r(v))

(***************************************************************************)
(* Decoding.                                                               *)
(***************************************************************************)
JsonSpace == {32, 9, 10, 13}
jp_ws(s, p) == RunEnd(s, p, JsonSpace)
Token(s, p, c) == p <= Len(s) /\ s[p] = c
Past(s, p, c) == IF Token(s, p, c) THEN p + 1 ELSE p

\* The UTF-8 of the code point in four hex digits; a character that is no digit counts
\* as an upper-case one.
Hex4(s, p) ==
  LET D(c) == CASE c \in Digit -> c - 48 [] c \in 97..102 -> c - 87 [] OTHER -> c - 55
  IN  (4096 * D(s[p])) + (256 * D(s[p + 1])) + (16 * D(s[p + 2])) + D(s[p + 3])
Utf8(cp) == CASE cp < 128 -> <<cp>>
              [] cp < 2048 -> <<192 + (cp \div 64), 128 + (cp % 64)>>
              [] OTHER -> <<224 + (cp \div 4096), 128 + ((cp \div 64) % 64), 128 + (cp % 64)>>

EscapeChar(e) == CASE e = 110 -> 10 [] e = 116 -> 9 [] e = 114 -> 13 [] e = 98 -> 8 [] e = 102 -> 12 [] OTHER -> e

jp_string(s, p) ==
  LET N == Len(s)
      From[i \in 1..(N + 7)] ==
        CASE i > N -> <<<<>>, i>>
          [] s[i] = 34 -> <<<<>>, i + 1>>
          [] OTHER ->
             CASE s[i] = 92 /\ i < N /\ s[i + 1] = 117 ->
                    IF i + 5 <= N THEN <<Utf8(Hex4(s, i + 2)) \o From[i + 6][1], From[i + 6][2]>> ELSE From[i + 2]
               [] s[i] = 92 /\ i < N /\ s[i + 1] # 117 -> <<<<EscapeChar(s[i + 1])>> \o From[i + 2][1], From[i + 2][2]>>
               [] OTHER -> <<<<s[i]>> \o From[i + 1][1], From[i + 1][2]>>
  IN  IF Token(s, p, 34) THEN From[p + 1] ELSE <<<<>>, p>>

\* Digits, signs, points and exponents; a float if a point or an exponent is among them.
NumberByte == Digit \cup {43, 45, 46, 69, 101}
jp_number(s, p) ==
  LET e == RunEnd(s, p, NumberByte)
      t == SubSeq(s, p, e - 1)
  IN  CASE e = p -> <<Null, p + 1>>
        [] \E i \in DOMAIN t : t[i] \in {46, 69, 101} -> <<Float(hp_str_to_double(t)), e>>
        [] OTHER -> <<IntKey(hp_str_to_int(t)), e>>

RECURSIVE jp_value(_, _), jp_items(_, _, _), jp_members(_, _, _)

\* The rest of an array of which a has been read, from position p.
jp_items(s, p, a) ==
  LET r == jp_value(s, p)
      b == hp_arr_push(a, r[1])
      q == jp_ws(s, r[2])
  IN  IF Token(s, q, 44) THEN jp_items(s, q + 1, b) ELSE <<Arr(b), Past(s, q, 93)>>

jp_members(s, p, m) ==
  LET k == jp_string(s, jp_ws(s, p))
      r == jp_value(s, Past(s, jp_ws(s, k[2]), 58))
      b == hp_arr_set(m, Str(k[1]), r[1])
      q == jp_ws(s, r[2])
  IN  IF Token(s, q, 44) THEN jp_members(s, q + 1, b) ELSE <<Arr(b), Past(s, q, 125)>>

jp_value(s, p0) ==
  LET p == jp_ws(s, p0)
      inner == jp_ws(s, p + 1)
      str == jp_string(s, p)
  IN  CASE p > Len(s) -> <<Null, p>>
        [] Token(s, p, 123) -> IF Token(s, inner, 125) THEN <<Arr(EmptyMap), inner + 1>> ELSE jp_members(s, inner, EmptyMap)
        [] Token(s, p, 91) -> IF Token(s, inner, 93) THEN <<Arr(Empty), inner + 1>> ELSE jp_items(s, inner, Empty)
        [] Token(s, p, 34) -> <<Str(str[1]), str[2]>>
        [] At(s, true_, p - 1) -> <<Truth(TRUE), p + 4>>
        [] At(s, false_, p - 1) -> <<Truth(FALSE), p + 5>>
        [] At(s, null_, p - 1) -> <<Null, p + 4>>
        [] OTHER -> jp_number(s, p)

hpbi_json_decode(s) == jp_value(s, 1)[1]
hpbi_json_decode2(s, assoc) == hpbi_json_decode(s)

\* Pretty printing puts breaks and four blanks a level into the compact text, outside strings.
hpbi_json_encode2(v, flags) ==
  LET s == hpbi_json_encode(v)
      Margin(depth) == <<10>> \o hp_str_repeat(<<32>>, 4 * depth)
      Step(st, c) ==
        LET Out(t) == [st EXCEPT !.out = @ \o t]
        IN  CASE st.mode = "escape" -> [Out(<<c>>) EXCEPT !.mode = "string"]
              [] st.mode = "string" -> [Out(<<c>>) EXCEPT !.mode = CASE c = 92 -> "escape" [] c = 34 -> "plain" [] OTHER -> @]
              [] st.mode = "open" /\ c \in {93, 125} -> [Out(<<c>>) EXCEPT !.mode = "plain"]
              [] OTHER ->
                 LET depth == st.depth + IF st.mode = "open" THEN 1 ELSE 0
                     o == [st EXCEPT !.out = @ \o IF st.mode = "open" THEN Margin(depth) ELSE <<>>,
                                     !.depth = depth, !.mode = "plain"]
                     Then(t) == [o EXCEPT !.out = @ \o t]
                 IN  CASE c = 34 -> [Then(<<c>>) EXCEPT !.mode = "string"]
                       [] c \in {91, 123} -> [Then(<<c>>) EXCEPT !.mode = "open"]
                       [] c \in {93, 125} -> [Then(Margin(depth - 1) \o <<c>>) EXCEPT !.depth = depth - 1]
                       [] c = 44 -> Then(<<c>> \o Margin(depth))
                       [] c = 58 -> Then(<<c, 32>>)
                       [] OTHER -> Then(<<c>>)
  IN  IF flags % 2 = 0 THEN s
      ELSE FoldLeft(Step, [out |-> <<>>, depth |-> 0, mode |-> "plain"], s).out

(***************************************************************************)
(* sprintf: %[flags][width][.precision]conversion.  The text of a number   *)
(* is C's printf of the same specification.                                *)
(***************************************************************************)
Flags == {45, 43, 32, 48, 35}              \* - + space 0 #

Padded(t, width, flags) ==
  LET gap == width - Len(t)
      sign == IF t # <<>> /\ t[1] \in {43, 45, 32} THEN 1 ELSE 0
  IN  CASE gap <= 0 -> t
        [] 45 \in flags -> t \o hp_str_repeat(<<32>>, gap)
        [] 48 \in flags -> SubSeq(t, 1, sign) \o hp_str_repeat(<<48>>, gap) \o SubSeq(t, sign + 1, Len(t))
        [] OTHER -> hp_str_repeat(<<32>>, gap) \o t

PrintInt(n, spec) ==
  LET plus == CASE n < 0 -> <<>> [] 43 \in spec.flags -> <<43>> [] 32 \in spec.flags -> <<32>> [] OTHER -> <<>>
  IN  Padded(plus \o hp_str_from_int(n), spec.width, spec.flags)

PrintHex(n, spec, D(_)) ==
  LET u == IF n < 0 THEN n + (2 ^ IntBits) ELSE n
      H[k \in Nat] == IF k < 16 THEN <<D(k)>> ELSE H[k \div 16] \o <<D(k % 16)>>
  IN  Padded(H[u], spec.width, spec.flags)

\* A string is written whole: width and precision are read and not used, except that a
\* point without digits writes nothing.
PrintStr(s, spec) == IF spec.barePoint THEN <<>> ELSE s

Bits(n) == LET u == IF n < 0 THEN n + (2 ^ IntBits) ELSE n
           IN  [k \in 1..IntBits |-> 48 + ((u \div (2 ^ (IntBits - k))) % 2)]

\* The specification that starts behind the % at position i.
Specification(f, i) ==
  LET a == RunEnd(f, i, Flags)
      b == RunEnd(f, a, Digit)
      c == IF Token(f, b, 46) THEN RunEnd(f, b + 1, Digit) ELSE b
  IN  [flags |-> {f[k] : k \in i..(a - 1)}, width |-> Number10(SubSeq(f, a, b - 1)),
       text |-> SubSeq(f, i, c - 1), barePoint |-> c = b + 1, at |-> c]

Converted(conv, v, spec) ==
  CASE conv \in {100, 105, 117} -> PrintInt(hp_val_to_int(v), spec)
    [] conv = 120 -> PrintHex(hp_val_to_int(v), spec, HexLower)
    [] conv = 88 -> PrintHex(hp_val_to_int(v), spec, HexUpper)
    [] conv = 115 -> PrintStr(hp_val_to_str(v), spec)
    [] conv = 99 -> <<hp_val_to_int(v) % 256>>
    [] conv = 98 -> Bits(hp_val_to_int(v))
    [] OTHER -> <<37>> \o spec.text \o <<conv>>

\* e, f, g and o are left out.
hpbi_sprintf(f, args) ==
  LET From[i \in 1..(Len(f) + 1), n \in 1..(Len(f) + 1)] ==
        LET spec == Specification(f, i + 1)
            v == IF n <= Len(args) THEN args[n] ELSE Null
        IN  CASE i > Len(f) -> <<>>
              [] f[i] # 37 -> <<f[i]>> \o From[i + 1, n]
              [] i = Len(f) -> <<37>>
              [] f[i + 1] = 37 -> <<37>> \o From[i + 2, n]
              [] spec.at > Len(f) -> <<37>> \o From[i + 1, n]
              [] OTHER -> Converted(f[spec.at], v, spec) \o From[spec.at + 1, n + 1]
  IN  hp_str_lit(From[1, 1])

(***************************************************************************)
(* Numbers and dates as text.                                              *)
(***************************************************************************)
\* number_format of a whole number: its digits in groups of three, dec zeros behind
\* ds; only the first byte of ts separates.
hpbi_number_format(n, dec, dsep, tsep) ==
  LET d == hp_val_to_int(dec)
      zeros == CASE d < 0 -> 0 [] d > 18 -> 18 [] OTHER -> d
      ds == IF dsep[1] = "str" /\ dsep[2] # <<>> THEN dsep[2] ELSE <<46>>
      ts == IF tsep[1] = "str" THEN tsep[2] ELSE <<44>>
      i == hp_val_to_float(n)[1]
      digits == Decimal(IF i < 0 THEN -i ELSE i)
      Digits(k) == IF k > 1 /\ (Len(digits) - k + 1) % 3 = 0 /\ ts # <<>>
                   THEN <<ts[1], digits[k]>> ELSE <<digits[k]>>
  IN  (IF i < 0 THEN <<45>> ELSE <<>>) \o Flat([k \in DOMAIN digits |-> Digits(k)])
      \o (IF zeros = 0 THEN <<>> ELSE ds \o hp_str_repeat(<<48>>, zeros))

\* hexdec, octdec and bindec read blanks, a sign, 0x when base is 16, and digits.
strtoll(s, base) ==
  LET digits == {c \in Byte : HexVal(c) \in 0..(base - 1)}
      start == RunEnd(s, 1, CSpace)
      first == IF Here(s, start) \in {43, 45} THEN start + 1 ELSE start
      marked == base = 16 /\ Here(s, first) = 48 /\ Here(s, first + 1) \in {88, 120} /\ Here(s, first + 2) \in digits
      from == IF marked THEN first + 2 ELSE first
  IN  Negated(Here(s, start) = 45,
              FoldLeft(LAMBDA t, c : (base * t) + HexVal(c), 0, SubSeq(s, from, RunEnd(s, from, digits) - 1)))
from_base(s, base) == IntKey(strtoll(hp_val_to_str(s), base))

\* mktime of a script, its arguments as numbers.
hpbi_mktime(hour, min, sec, mon, day, year) ==
  IntKey(mktime(hp_val_to_int(year), hp_val_to_int(mon), hp_val_to_int(day),
                hp_val_to_int(hour), hp_val_to_int(min), hp_val_to_int(sec)))
=============================================================================
