------------------------------ MODULE Strings ------------------------------
(***************************************************************************)
(* The string functions of the runtime (hphp_rt.c) and of the standard     *)
(* builtins (hphp_std.c).  A string is the sequence of its bytes, numbers  *)
(* from 0 to 255; positions count from 0 as in C, so byte i of s is        *)
(* s[i + 1].  What allocates, copies and frees is left out: a function     *)
(* returns the bytes of its result.  The in-place append, where the        *)
(* difference between a string and its bytes shows, is in module Store.    *)
(***************************************************************************)
EXTENDS Integers, Sequences
LOCAL INSTANCE SequencesExt

Byte == 0..255
Digit == 48..57
Upper == 65..90
Lower == 97..122
Alnum == Digit \cup Upper \cup Lower
CSpace == {32} \cup 9..13                 \* isspace
HexVal(c) == CASE c \in Digit -> c - 48
               [] c \in 65..70 -> c - 55
               [] c \in 97..102 -> c - 87
               [] OTHER -> -1

Least(a, b) == IF a < b THEN a ELSE b
Most(a, b) == IF a < b THEN b ELSE a
toupper(c) == IF c \in Lower THEN c - 32 ELSE c
tolower(c) == IF c \in Upper THEN c + 32 ELSE c
Mapped(f(_), s) == [i \in DOMAIN s |-> f(s[i])]
Flat(ss) == FoldLeft(LAMBDA a, b : a \o b, <<>>, ss)

(* A C string ends at its first NUL. *)
hp_str_lit(s) ==
  IF \E i \in DOMAIN s : s[i] = 0
  THEN SubSeq(s, 1, (CHOOSE i \in DOMAIN s : s[i] = 0 /\ \A j \in 1..(i - 1) : s[j] # 0) - 1)
  ELSE s

(***************************************************************************)
(* Slices and searches.                                                    *)
(***************************************************************************)
norm_index(i, len) ==
  LET k == IF i < 0 THEN i + len ELSE i
  IN  IF k < 0 THEN 0 ELSE Least(k, len)

Cut(s, from, to) == IF to <= from THEN <<>> ELSE SubSeq(s, from + 1, to)

hp_str_slice(s, start, end) ==
  LET e == IF end < 0 THEN end + Len(s) ELSE end
  IN  Cut(s, norm_index(start, Len(s)), IF e < 0 \/ e > Len(s) THEN Len(s) ELSE e)

hp_str_char_at(s, i) == IF i \in 0..(Len(s) - 1) THEN <<s[i + 1]>> ELSE <<>>

(* Does needle n stand at position i of h? *)
At(h, n, i) == i + Len(n) <= Len(h) /\ SubSeq(h, i + 1, i + Len(n)) = n

hp_str_index(h, n) ==
  LET hits == {i \in 0..(Len(h) - Len(n)) : At(h, n, i)}
  IN  CASE Len(n) > Len(h) -> -1
        [] n = <<>> -> 0
        [] OTHER -> IF hits = {} THEN -1 ELSE CHOOSE i \in hits : \A j \in hits : i <= j

\* The first byte at which two strings differ decides, then their lengths.
hp_str_cmp(a, b) ==
  LET n == Least(Len(a), Len(b))
      d == {i \in 1..n : a[i] # b[i]}
      i == CHOOSE x \in d : \A y \in d : x <= y
  IN  CASE d # {} -> IF a[i] < b[i] THEN -1 ELSE 1
        [] Len(a) < Len(b) -> -1
        [] Len(a) > Len(b) -> 1
        [] OTHER -> 0

hpbi_substr(s, start, len, toEnd) ==
  LET st0 == IF start < 0 THEN start + Len(s) ELSE start
      st  == Most(st0, 0)
      l0  == IF toEnd THEN Len(s) - st ELSE len
      l   == Most(IF l0 < 0 THEN Len(s) - st + l0 ELSE l0, 0)
  IN  IF st > Len(s) THEN <<>> ELSE hp_str_slice(s, st, st + l)

\* -1 stands for PHP's false.
hpbi_strpos(h, n, off) ==
  LET o == Least(Most(off, 0), Len(h))
      r == hp_str_index(Cut(h, o, Len(h)), n)
  IN  IF r < 0 THEN -1 ELSE r + o

\* <<>> stands for false here.
hpbi_strstr(h, n) ==
  LET i == hp_str_index(h, n) IN IF i < 0 THEN <<>> ELSE hp_str_slice(h, i, Len(h))

hpbi_str_starts_with(h, n) == At(h, n, 0)
hpbi_str_ends_with(h, n) == Len(n) <= Len(h) /\ At(h, n, Len(h) - Len(n))

\* n beyond the shorter string is cut to it: a prefix counts as equal.
hpbi_strncmp(a, b, n) ==
  LET k == Least(Most(n, 0), Least(Len(a), Len(b)))
  IN  hp_str_cmp(Cut(a, 0, k), Cut(b, 0, k))

hp_str_casecmp_n(a, b) == hp_str_cmp(Mapped(tolower, a), Mapped(tolower, b))

\* Here a negative length is a huge size_t.
hpbi_strncasecmp(a, b, n) ==
  LET k == Least(IF n < 0 THEN Len(a) ELSE n, Least(Len(a), Len(b)))
  IN  hp_str_casecmp_n(Cut(a, 0, k), Cut(b, 0, k))

hpbi_substr_count(h, n) ==
  LET Hits[i \in 0..(Len(h) + 1)] ==
        IF i + Len(n) > Len(h) THEN 0
        ELSE IF At(h, n, i) THEN 1 + Hits[i + Len(n)] ELSE Hits[i + 1]
  IN  IF n = <<>> THEN 0 ELSE Hits[0]

(***************************************************************************)
(* New strings from old.                                                   *)
(***************************************************************************)
hp_str_repeat(s, n) == Flat([i \in 1..Most(n, 0) |-> s])
hp_str_reverse(s) == Reverse(s)

hp_str_replace(s, search, new) ==
  LET From[i \in 0..Len(s)] ==
        IF i = Len(s) THEN <<>>
        ELSE IF At(s, search, i) THEN new \o From[i + Len(search)]
        ELSE <<s[i + 1]>> \o From[i + 1]
  IN  IF search = <<>> THEN s ELSE From[0]

Blank == CSpace \cup {0}                  \* is_ws

(* s without its leading, its trailing, and both kinds of bytes of W. *)
LeftOf(s, W) == LET in == {i \in DOMAIN s : s[i] \notin W}
                IN  IF in = {} THEN <<>> ELSE SubSeq(s, CHOOSE i \in in : \A j \in in : i <= j, Len(s))
RightOf(s, W) == LET in == {i \in DOMAIN s : s[i] \notin W}
                 IN  IF in = {} THEN <<>> ELSE SubSeq(s, 1, CHOOSE i \in in : \A j \in in : i >= j)
hp_str_trim(s) == RightOf(LeftOf(s, Blank), Blank)
hpbi_ltrim(s, chars) == LeftOf(s, CSpace \cup {chars[i] : i \in DOMAIN chars})
hpbi_rtrim(s, chars) == RightOf(s, CSpace \cup {chars[i] : i \in DOMAIN chars})
hpbi_chop(s) == RightOf(s, CSpace)

hp_str_toupper(s) == Mapped(toupper, s)
hp_str_tolower(s) == Mapped(tolower, s)
hpbi_ucfirst(s) == [i \in DOMAIN s |-> IF i = 1 THEN toupper(s[i]) ELSE s[i]]
hpbi_lcfirst(s) == [i \in DOMAIN s |-> IF i = 1 THEN tolower(s[i]) ELSE s[i]]
\* The first byte of every run of bytes that are no blanks.
hpbi_ucwords(s) == [i \in DOMAIN s |-> IF i = 1 \/ s[i - 1] \in CSpace THEN toupper(s[i]) ELSE s[i]]

hpbi_str_pad(s, want, pad) ==
  LET p == IF pad = <<>> THEN <<32>> ELSE pad
      n == want - Len(s)
  IN  IF n <= 0 THEN s ELSE s \o hp_str_slice(hp_str_repeat(p, (n + Len(p) - 1) \div Len(p)), 0, n)

hpbi_str_split(s, n) ==
  LET k == IF n <= 0 THEN 1 ELSE n
  IN  [i \in 1..((Len(s) + k - 1) \div k) |-> Cut(s, (i - 1) * k, Least(i * k, Len(s)))]

SlipHpbi_explode(sep, s) ==
  LET From[i \in 0..(Len(s) + 1), start \in 0..Len(s)] ==
        IF i + Len(sep) > Len(s) THEN << Cut(s, start, Len(s)) >>
        ELSE IF At(s, sep, i) THEN << Cut(s, start, i) >> \o From[i + 1, i + Len(sep)]
        ELSE From[i + 1, start]
  IN  From[0, 0]

\* sep # <<>>: an empty separator throws.
hpbi_explode(sep, s) ==
  LET From[i \in 0..Len(s), start \in 0..Len(s)] ==
        IF i + Len(sep) > Len(s) THEN << Cut(s, start, Len(s)) >>
        ELSE IF At(s, sep, i) THEN << Cut(s, start, i) >> \o From[i + Len(sep), i + Len(sep)]
        ELSE From[i + 1, start]
  IN  From[0, 0]

hp_implode(glue, parts) ==
  Flat([i \in DOMAIN parts |-> IF i = 1 THEN parts[i] ELSE glue \o parts[i]])

hpbi_nl2br(s) == hp_str_replace(s, <<10>>, <<60, 98, 114, 32, 47, 62, 10>>)
=============================================================================
