------------------------------ MODULE Formats ------------------------------
(***************************************************************************)
(* The standard builtins that turn strings into other notations and back   *)
(* (hphp_std.c): hex, base64, URLs, HTML, sprintf, paths and wildcards,    *)
(* word wrapping, edit distance and dates.  Strings are sequences of bytes *)
(* as in module Strings.                                                   *)
(***************************************************************************)
EXTENDS Strings
LOCAL INSTANCE SequencesExt

(***************************************************************************)
(* Hexadecimal, base64.                                                    *)
(***************************************************************************)
HexLower(d) == IF d < 10 THEN 48 + d ELSE 87 + d
HexUpper(d) == IF d < 10 THEN 48 + d ELSE 55 + d

\* strtol(base 16) of two bytes: what is no digit ends the number; blanks and a sign may
\* stand before it.
HexPair(a, b) ==
  CASE HexVal(a) < 0 -> IF a \in CSpace \cup {43, 45} /\ HexVal(b) >= 0
                        THEN (IF a = 45 THEN -HexVal(b) ELSE HexVal(b)) % 256 ELSE 0
    [] HexVal(b) < 0 -> HexVal(a)
    [] OTHER -> (16 * HexVal(a)) + HexVal(b)

hpbi_bin2hex(s) == [i \in 1..(2 * Len(s)) |->
  LET c == s[(i + 1) \div 2] IN HexLower(IF (i % 2) = 1 THEN c \div 16 ELSE c % 16)]

\* The result passes through a C string: it ends at the first zero byte.
hpbi_hex2bin(s) == hp_str_lit([i \in 1..(Len(s) \div 2) |-> HexPair(s[2 * i - 1], s[2 * i])])

Base64Char(v) == CASE v < 26 -> 65 + v [] v < 52 -> 71 + v [] v < 62 -> v - 4 [] v = 62 -> 43 [] OTHER -> 47
b64_val(c) == CASE c \in Upper -> c - 65 [] c \in Lower -> c - 71 [] c \in Digit -> c + 4
                [] c = 43 -> 62 [] c = 47 -> 63 [] OTHER -> -1

\* Three bytes give four characters; one or two at the end give two or three and "=".
hp_b64_encode(s) ==
  LET ByteAt(i) == IF i <= Len(s) THEN s[i] ELSE 0
      Group(i) == (65536 * ByteAt(i)) + (256 * ByteAt(i + 1)) + ByteAt(i + 2)
      Four(n) == << Base64Char(n \div 262144), Base64Char((n \div 4096) % 64),
                    Base64Char((n \div 64) % 64), Base64Char(n % 64) >>
      chars == Flat([k \in 1..((Len(s) + 2) \div 3) |-> Four(Group(3 * k - 2))])
      pad == (3 - (Len(s) % 3)) % 3
  IN  [i \in DOMAIN chars |-> IF i > Len(chars) - pad THEN 61 ELSE chars[i]]

\* Characters outside the alphabet are skipped; acc and bits as in the code.
hp_b64_decode(s) ==
  LET Step(st, c) ==
        LET v == b64_val(c)
            acc == ((st.acc * 64) + v) % 65536
            bits == st.bits + 6
        IN  IF v < 0 THEN st
            ELSE IF bits < 8 THEN [st EXCEPT !.acc = acc, !.bits = bits]
            ELSE [acc |-> acc, bits |-> bits - 8,
                  out |-> Append(st.out, (acc \div (2 ^ (bits - 8))) % 256)]
  IN  FoldLeft(Step, [acc |-> 0, bits |-> 0, out |-> <<>>], s).out

(***************************************************************************)
(* URLs.                                                                   *)
(***************************************************************************)
Plain == Alnum \cup {45, 95, 46, 126}      \* - _ . ~

hpbi_urlencode(s) ==
  Flat([i \in DOMAIN s |-> CASE s[i] \in Plain -> <<s[i]>>
                             [] s[i] = 32 -> <<43>>
                             [] OTHER -> <<37, HexUpper(s[i] \div 16), HexUpper(s[i] % 16)>>])

hpbi_urldecode(s) ==
  LET From[i \in 0..Len(s)] ==
        CASE i = Len(s) -> <<>>
          [] s[i + 1] = 37 /\ i + 2 < Len(s) -> <<HexPair(s[i + 2], s[i + 3])>> \o From[i + 3]
          [] OTHER -> <<IF s[i + 1] = 43 THEN 32 ELSE s[i + 1]>> \o From[i + 1]
  IN  hp_str_lit(From[0])

\* pairs: the keys and values of the map, as strings.
hpbi_http_build_query(pairs) ==
  hp_implode(<<38>>, [i \in DOMAIN pairs |->
                        hpbi_urlencode(pairs[i][1]) \o <<61>> \o hpbi_urlencode(pairs[i][2])])

\* Where byte c first (last) stands in s, counted from 1, or 0.
First1(s, c) == IF \E i \in DOMAIN s : s[i] = c THEN CHOOSE i \in DOMAIN s : s[i] = c /\ \A j \in 1..(i - 1) : s[j] # c ELSE 0
Last1(s, c) == IF \E i \in DOMAIN s : s[i] = c THEN CHOOSE i \in DOMAIN s : s[i] = c /\ \A j \in (i + 1)..Len(s) : s[j] # c ELSE 0
Before(s, i) == IF i = 0 THEN s ELSE SubSeq(s, 1, i - 1)
After(s, i) == IF i = 0 THEN <<>> ELSE SubSeq(s, i + 1, Len(s))
Number10(s) == LET digits == IF \E i \in DOMAIN s : s[i] \notin Digit
                             THEN Before(s, CHOOSE i \in DOMAIN s : s[i] \notin Digit /\ \A j \in 1..(i - 1) : s[j] \in Digit)
                             ELSE s
               IN  FoldLeft(LAMBDA n, c : (10 * n) + (c - 48), 0, digits)

Https == <<104, 116, 116, 112, 115>>

\* The buffers' sizes (scheme 15, host 255, path and query 511 bytes) are left out.
\* <<>> stands for a part that is missing.
hpbi_parse_url(u) ==
  LET sep    == hp_str_index(u, <<58, 47, 47>>)
      named  == sep >= 0 /\ sep < 12
      rest0  == IF named THEN Cut(u, sep + 3, Len(u)) ELSE u
      hash   == First1(rest0, 35)
      rest1  == Before(rest0, hash)
      qm     == First1(rest1, 63)
      rest   == Before(rest1, qm)
      slash  == First1(rest, 47)
      auth   == Before(rest, slash)
      at     == Last1(auth, 64)
      host   == IF at = 0 THEN auth ELSE After(auth, at)
      colon  == First1(host, 58)
      scheme == IF named THEN Cut(u, 0, sep) ELSE <<>>
      port   == Number10(After(host, colon))
  IN  [scheme |-> scheme,
       user |-> IF at = 0 THEN <<>> ELSE Before(Before(auth, at), First1(Before(auth, at), 58)),
       host |-> Before(host, colon),
       port |-> IF port # 0 THEN port ELSE IF scheme = Https THEN 443 ELSE 80,
       path |-> IF slash = 0 THEN <<>> ELSE SubSeq(rest, slash, Len(rest)),
       query |-> After(rest1, qm),
       fragment |-> After(rest0, hash)]

(***************************************************************************)
(* HTML.  The entities in the order in which the code replaces them.       *)
(***************************************************************************)
amp == <<38, 97, 109, 112, 59>>
lt == <<38, 108, 116, 59>>
gt == <<38, 103, 116, 59>>
quot == <<38, 113, 117, 111, 116, 59>>
apos == <<38, 35, 51, 57, 59>>
Entities == << <<amp, <<38>> >>, <<lt, <<60>> >>, <<gt, <<62>> >>, <<quot, <<34>> >> >>

hpbi_htmlentities(s) == FoldLeft(LAMBDA r, e : hp_str_replace(r, e[2], e[1]), s, Entities)
hpbi_html_entity_decode(s) ==
  FoldLeft(LAMBDA r, e : hp_str_replace(r, e[1], e[2]), s, Append(Entities, <<apos, <<39>> >>))

hpbi_strip_tags(s) ==
  FoldLeft(LAMBDA st, c : CASE c = 60 -> [st EXCEPT !.intag = TRUE]
                            [] c = 62 -> [st EXCEPT !.intag = FALSE]
                            [] OTHER -> IF st.intag THEN st ELSE [st EXCEPT !.out = Append(@, c)],
           [intag |-> FALSE, out |-> <<>>], s).out

(***************************************************************************)
(* Paths and wildcards.                                                    *)
(***************************************************************************)
Slash == {47, 92}
RightSlash(p) == RightOf(p, Slash)
BaseStart(p) == LET cuts == {i \in DOMAIN p : p[i] \in Slash} IN IF cuts = {} THEN 0 ELSE CHOOSE i \in cuts : \A j \in cuts : i >= j

hpbi_dirname(p) ==
  LET q == RightSlash(p)
      d == RightSlash(SubSeq(q, 1, BaseStart(q)))
  IN  IF d = <<>> THEN <<46>> ELSE d

hpbi_basename(p, suffix) ==
  LET q == RightSlash(p)
      b == After(q, BaseStart(q))
      name == IF BaseStart(q) = 0 THEN q ELSE b
  IN  IF suffix # <<>> /\ Len(name) > Len(suffix) /\ hpbi_str_ends_with(name, suffix)
      THEN SubSeq(name, 1, Len(name) - Len(suffix)) ELSE name

\* The name is split at its first dot.
\* <<>> stands for an entry that is missing.
hpbi_pathinfo(p) ==
  LET base == hpbi_basename(p, <<>>)
      dot == First1(base, 46)
  IN  [basename |-> base, dirname |-> hpbi_dirname(p),
       extension |-> IF dot > 1 THEN After(base, dot) ELSE <<>>,
       filename |-> IF dot > 1 THEN Before(base, dot) ELSE <<>>]

\* * stands for any bytes, ? for one.
wc_match(pat, s) ==
  LET M[i \in 1..(Len(pat) + 1), j \in 1..(Len(s) + 1)] ==
        CASE i > Len(pat) -> j > Len(s)
          [] pat[i] = 42 -> i = Len(pat) \/ \E k \in j..(Len(s) + 1) : M[i + 1, k]
          [] OTHER -> j <= Len(s) /\ pat[i] \in {63, s[j]} /\ M[i + 1, j + 1]
  IN  M[1, 1]

\* scandir: the names in the pattern's directory; those that match its last part, sorted.
hpbi_glob(pattern, scandir) ==
  LET base == hpbi_basename(pattern, <<>>)
      pat == IF base = <<>> THEN <<42>> ELSE base
      names == {n \in scandir : wc_match(pat, hp_str_lit(n))}
  IN  SetToSortSeq(names, LAMBDA a, b : hp_str_cmp(a, b) < 0)

\* A word goes on a new line when it does not fit; blanks between words become one.
(***************************************************************************)
(* Words and distances.                                                    *)
(***************************************************************************)
hpbi_wordwrap(s, width) ==
  LET Flush(st) ==
        IF st.word = <<>> THEN st
        ELSE IF st.line > 0 /\ st.line + 1 + Len(st.word) > width
        THEN [out |-> st.out \o <<10>> \o st.word, line |-> Len(st.word), word |-> <<>>]
        ELSE LET gap == IF st.line > 0 THEN <<32>> ELSE <<>>
             IN  [out |-> st.out \o gap \o st.word, line |-> st.line + Len(gap) + Len(st.word), word |-> <<>>]
      Step(st, c) ==
        CASE c = 10 -> [Flush(st) EXCEPT !.out = Append(@, 10), !.line = 0]
          [] c = 32 -> Flush(st)
          [] OTHER -> [st EXCEPT !.word = Append(@, c)]
  IN  IF width = 0 THEN s
      ELSE Flush(FoldLeft(Step, [out |-> <<>>, line |-> 0, word |-> <<>>], s)).out

\* How many bytes of a occur in b.
hpbi_similar_text(a, b) == Len(SelectSeq(a, LAMBDA c : \E j \in DOMAIN b : b[j] = c))

\* One row of the table is kept: dp[j] holds row i-1 until it is overwritten with row i,
\* prev the old dp[j - 1].
hpbi_levenshtein(x, y) ==
  LET Row(dp, i) ==
        LET New[j \in 0..Len(y)] ==
              IF j = 0 THEN i
              ELSE Least(Least(New[j - 1], dp[j]) + 1, dp[j - 1] + (IF x[i] = y[j] THEN 0 ELSE 1))
        IN  New
  IN  FoldLeft(Row, [j \in 0..Len(y) |-> j], [i \in 1..Len(x) |-> i])[Len(y)]

(***************************************************************************)
(* Dates.  mktime and localtime are the C library's, without a time zone.  *)
(***************************************************************************)
Leap(y) == ((y % 4) = 0 /\ (y % 100) # 0) \/ (y % 400) = 0
MonthDays(y, m) == IF m = 2 /\ Leap(y) THEN 29 ELSE <<31, 28, 31, 30, 31, 30, 31, 31, 30, 31, 30, 31>>[m]
hpbi_checkdate(m, d, y) == m \in 1..12 /\ d >= 1 /\ y >= 1 /\ d <= MonthDays(y, m)

DaysTo(y, m, d) ==                          \* from 1970-01-01 to the day; m in 1..12
  LET a == IF m <= 2 THEN y - 1 ELSE y
      yoe == a % 400
      doy == ((153 * ((m + 9) % 12)) + 2) \div 5 + d - 1
  IN  (146097 * (a \div 400)) + (365 * yoe) + (yoe \div 4) - (yoe \div 100) + doy - 719468

mktime(y, mo, d, h, mi, s) ==               \* months and the rest beyond their range carry over
  LET m0 == mo - 1
      days == DaysTo(y + (m0 \div 12), (m0 % 12) + 1, 1) + d - 1
  IN  (86400 * days) + (3600 * h) + (60 * mi) + s

localtime(t) ==
  LET day == t \div 86400
      y == CHOOSE x \in 1970..2037 : DaysTo(x, 1, 1) <= day /\ day < DaysTo(x + 1, 1, 1)
      mo == CHOOSE x \in 1..12 : DaysTo(y, x, 1) <= day /\ day < DaysTo(y, x, 1) + MonthDays(y, x)
  IN  [y |-> y, mo |-> mo, d |-> day - DaysTo(y, mo, 1) + 1, h |-> (t % 86400) \div 3600,
       mi |-> (t % 3600) \div 60, s |-> t % 60, wday |-> (day + 4) % 7, yday |-> day - DaysTo(y, 1, 1)]

Decimal(n) ==                               \* %d of a number that is not negative
  LET D[k \in Nat] == IF k < 10 THEN <<48 + k>> ELSE D[k \div 10] \o <<48 + (k % 10)>> IN D[n]
ZeroPadded(n, w) == hp_str_repeat(<<48>>, w - Len(Decimal(n))) \o Decimal(n)
Hour12(h) == IF (h % 12) = 0 THEN 12 ELSE h % 12

\* One letter of a date format.
DateField(c, t, tm) ==
  CASE c = 89 -> ZeroPadded(tm.y, 4)              \* Y
    [] c = 121 -> ZeroPadded(tm.y % 100, 2)       \* y
    [] c = 109 -> ZeroPadded(tm.mo, 2)            \* m
    [] c = 110 -> Decimal(tm.mo)                  \* n
    [] c = 100 -> ZeroPadded(tm.d, 2)             \* d
    [] c = 106 -> Decimal(tm.d)                   \* j
    [] c = 72 -> ZeroPadded(tm.h, 2)              \* H
    [] c = 71 -> Decimal(tm.h)                    \* G
    [] c = 105 -> ZeroPadded(tm.mi, 2)            \* i
    [] c = 115 -> ZeroPadded(tm.s, 2)             \* s
    [] c = 104 -> ZeroPadded(Hour12(tm.h), 2)     \* h
    [] c = 103 -> Decimal(Hour12(tm.h))           \* g
    [] c = 65 -> IF tm.h < 12 THEN <<65, 77>> ELSE <<80, 77>>
    [] c = 97 -> IF tm.h < 12 THEN <<97, 109>> ELSE <<112, 109>>
    [] c = 119 -> Decimal(tm.wday)                \* w
    [] c = 78 -> Decimal(IF tm.wday = 0 THEN 7 ELSE tm.wday)
    [] c = 122 -> Decimal(tm.yday)                \* z
    [] c = 76 -> Decimal(IF Leap(tm.y) THEN 1 ELSE 0)
    [] c = 116 -> Decimal(MonthDays(tm.y, tm.mo)) \* t
    [] c = 85 -> Decimal(t)                       \* U
    [] OTHER -> <<c>>

\* A backslash takes the next letter as it is.
hpbi_date2(f, t) ==
  LET From[i \in 1..(Len(f) + 2)] ==
        CASE i > Len(f) -> <<>>
          [] f[i] = 92 -> IF i < Len(f) THEN <<f[i + 1]>> \o From[i + 2] ELSE <<>>
          [] OTHER -> DateField(f[i], t, localtime(t)) \o From[i + 1]
  IN  hp_str_lit(From[1])

\* sscanf "%4d-%2d-%2d %2d:%2d:%2d" from position p: the numbers read before the first
\* mismatch.  A number is a run of at most w digits after blanks.
Scan(s, p, widths, seps) ==
  LET Skip[q \in 1..(Len(s) + 1)] == IF q <= Len(s) /\ s[q] \in CSpace THEN Skip[q + 1] ELSE q
      Run(q, w) == CHOOSE n \in 0..w : /\ \A r \in 0..(n - 1) : q + r <= Len(s) /\ s[q + r] \in Digit
                                       /\ n = w \/ q + n > Len(s) \/ s[q + n] \notin Digit
      Step(st, k) ==
        LET sep == IF k = 1 THEN 0 ELSE seps[k - 1]
            q0 == CASE sep = 0 -> st.p
                    [] sep = 32 -> Skip[st.p]
                    [] OTHER -> IF st.p <= Len(s) /\ s[st.p] = sep THEN st.p + 1 ELSE Len(s) + 1
            q == Skip[q0]
            n == Run(q, widths[k])
        IN  IF ~ st.on \/ n = 0 THEN [st EXCEPT !.on = FALSE]
            ELSE [on |-> TRUE, p |-> q + n, got |-> Append(st.got, Number10(SubSeq(s, q, q + n - 1)))]
  IN  FoldLeft(Step, [on |-> TRUE, p |-> p, got |-> <<>>], [k \in DOMAIN widths |-> k]).got

Now == <<110, 111, 119>>
Units == << << <<100, 97, 121>>, "day">>, << <<119, 101, 101, 107>>, "week">>, << <<104, 111, 117, 114>>, "hour">>,
            << <<109, 105, 110>>, "min">>, << <<115, 101, 99>>, "sec">>,
            << <<109, 111, 110, 116, 104>>, "month">>, << <<121, 101, 97, 114>>, "year">> >>

\* "now", "+2 days", or an ISO date with - or / and optionally a time; 0 if it is none.
hpbi_strtotime(x, now) ==
  LET s == hp_str_lit(LeftOf(x, {32}))
      delta == Len(s) > 1 /\ s[1] \in {43, 45} /\ s[2] \in Digit
      n == Number10(After(s, 1)) * (IF delta /\ s[1] = 45 THEN -1 ELSE 1)
      rest == LeftOf(SelectSeq(After(s, 1), LAMBDA c : c \notin Digit), {32})
      units == {k \in DOMAIN Units : At(rest, Units[k][1], 0)}
      tm == localtime(now)
      u == Units[CHOOSE k \in units : TRUE][2]
      By(unit) == IF u = unit THEN n ELSE 0
      widths == <<4, 2, 2, 2, 2, 2>>
      iso == Scan(s, 1, widths, <<45, 45, 32, 58, 58>>)
      got == IF Len(iso) < 3 THEN Scan(s, 1, widths, <<47, 47, 32, 58, 58>>) ELSE iso
      F(k) == IF k <= Len(got) THEN got[k] ELSE 0
  IN  CASE s = Now -> now
        [] delta -> IF units = {} THEN 0
                    ELSE mktime(tm.y + By("year"), tm.mo + By("month"), tm.d + By("day") + (7 * By("week")),
                                tm.h + By("hour"), tm.mi + By("min"), tm.s + By("sec"))
        [] OTHER -> IF Len(got) < 3 THEN 0 ELSE mktime(F(1), F(2), F(3), F(4), F(5), F(6))
=============================================================================
