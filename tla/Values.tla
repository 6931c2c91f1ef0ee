------------------------------- MODULE Values ------------------------------
(***************************************************************************)
(* Dynamic values (hval) and the operators on them, hphp_rt.c.  A value is *)
(* a pair of its tag and its content:                                      *)
(*   <<"null", 0>>  <<"int", n>>  <<"float", q>>  <<"bool", b>>            *)
(*   <<"str", bytes>>  <<"arr", array>>  <<"obj", p>>  <<"clo", p>>        *)
(* A float is a rational <<n, d>> in lowest terms, d > 0: rounding, NaN,   *)
(* -0, infinity are left out.  p is an address, 0 for NULL.  An array is  *)
(* a record of module Arrays; its field id stands for its address, and 0   *)
(* for that of an array just made.  Integers wrap at IntBits bits, 64 in   *)
(* the code.                                                               *)
(***************************************************************************)
EXTENDS Formats
LOCAL INSTANCE SequencesExt

CONSTANT IntBits
ASSUME IntBitsAssumption == IntBits \in 2..30

Wrap(n) == LET h == 2 ^ (IntBits - 1) IN ((n + h) % (2 * h)) - h

Null == <<"null", 0>>
Integer(n) == <<"int", Wrap(n)>>
Truth(b) == <<"bool", b>>
Str(s) == <<"str", s>>
Arr(a) == <<"arr", a>>

(* Rationals. *)
Gcd(a, b) == LET G[x, y \in Nat] == IF y = 0 THEN x ELSE G[y, x % y] IN G[a, b]
Magnitude(n) == IF n < 0 THEN -n ELSE n
Ratio(n, d) == LET g == Gcd(Magnitude(n), Magnitude(d))
                   sign == IF d < 0 THEN -1 ELSE 1
               IN  << sign * (n \div g), Magnitude(d) \div g >>
Real(n) == <<n, 1>>
QAdd(x, y) == Ratio((x[1] * y[2]) + (y[1] * x[2]), x[2] * y[2])
QSub(x, y) == Ratio((x[1] * y[2]) - (y[1] * x[2]), x[2] * y[2])
QMul(x, y) == Ratio(x[1] * y[1], x[2] * y[2])
QDiv(x, y) == Ratio(x[1] * y[2], x[2] * y[1])
QLess(x, y) == x[1] * y[2] < y[1] * x[2]
Float(q) == <<"float", q>>
Floor(q) == q[1] \div q[2]
Whole(q) == q[2] = 1

(* C's division: the quotient is truncated, the remainder has the sign of a. *)
CDiv(a, b) == LET q == Magnitude(a) \div Magnitude(b) IN IF (a < 0) = (b < 0) THEN q ELSE -q
CRem(a, b) == a - (b * CDiv(a, b))
Truncate(q) == CDiv(q[1], q[2])

(***************************************************************************)
(* Numbers in strings.                                                     *)
(***************************************************************************)
\* The end of the longest run of bytes in S from position i (from 1).
RunEnd(s, i, S) == CHOOSE j \in i..(Len(s) + 1) : /\ \A k \in i..(j - 1) : s[k] \in S
                                                  /\ j > Len(s) \/ s[j] \notin S
Here(s, i) == IF i <= Len(s) THEN s[i] ELSE 0

\* strtod and strtoll read: blanks, sign, digits, ".", digits, e, sign, digits.
\* end = start when there is no number.
Shape(s) ==
  LET start == RunEnd(s, 1, CSpace)
      dig   == IF Here(s, start) \in {43, 45} THEN start + 1 ELSE start
      dot   == RunEnd(s, dig, Digit)
      frac  == IF Here(s, dot) = 46 THEN RunEnd(s, dot + 1, Digit) ELSE dot
      some  == dot > dig \/ frac > dot + 1
      exp   == IF Here(s, frac + 1) \in {43, 45} THEN frac + 2 ELSE frac + 1
      hasExp == some /\ Here(s, frac) \in {69, 101} /\ Here(s, exp) \in Digit
      exps  == IF hasExp THEN RunEnd(s, exp, Digit) ELSE frac
  IN  [neg |-> Here(s, start) = 45, dig |-> dig, dot |-> dot, frac |-> frac, exp |-> exp, end |-> exps,
       some |-> some, hasExp |-> hasExp, expNeg |-> Here(s, frac + 1) = 45]

Negated(b, n) == IF b THEN -n ELSE n

hp_str_to_int(s0) ==
  LET s == hp_str_lit(s0)  sh == Shape(s)
  IN  Wrap(Negated(sh.neg, Number10(SubSeq(s, sh.dig, sh.dot - 1))))

hp_str_to_double(s0) ==
  LET s     == hp_str_lit(s0)
      sh    == Shape(s)
      places == Most(sh.frac - sh.dot - 1, 0)
      digits == SubSeq(s, sh.dig, sh.dot - 1) \o SubSeq(s, sh.dot + 1, sh.frac - 1)
      m     == Ratio(Negated(sh.neg, Number10(digits)), 10 ^ places)
      e     == IF sh.hasExp THEN Number10(SubSeq(s, sh.exp, sh.end - 1)) ELSE 0
  IN  IF ~ sh.some THEN Real(0)
      ELSE IF sh.expNeg THEN QDiv(m, Real(10 ^ e)) ELSE QMul(m, Real(10 ^ e))

\* The whole string must be a number, with blanks around it.
hp_str_is_numeric(s) ==
  LET sh == Shape(s) IN s # <<>> /\ sh.some /\ RunEnd(s, sh.end, CSpace) = Len(s) + 1

(***************************************************************************)
(* Conversions.                                                            *)
(***************************************************************************)
Signed(n, s) == IF n < 0 THEN <<45>> \o s ELSE s
hp_str_from_int(n) == Signed(n, Decimal(Magnitude(n)))

\* %.14g of a fraction: here at most three decimals.
hp_str_from_double(q) ==
  LET m  == Magnitude(q[1])
      th == (1000 * (m % q[2])) \div q[2]
      digits == ZeroPadded(th, 3)
  IN  IF Whole(q) THEN hp_str_from_int(q[1])
      ELSE Signed(q[1], Decimal(m \div q[2]) \o <<46>> \o RightOf(digits, {48}))

hp_val_to_str(v) ==
  CASE v[1] = "null" -> <<>>
    [] v[1] = "int" -> hp_str_from_int(v[2])
    [] v[1] = "float" -> hp_str_from_double(v[2])
    [] v[1] = "bool" -> IF v[2] THEN <<49>> ELSE <<>>
    [] v[1] = "str" -> v[2]
    [] v[1] = "arr" -> <<65, 114, 114, 97, 121>>             \* Array
    [] v[1] = "obj" -> <<79, 98, 106, 101, 99, 116>>         \* Object
    [] v[1] = "clo" -> <<67, 108, 111, 115, 117, 114, 101>>  \* Closure

hp_val_to_int(v) ==
  CASE v[1] = "int" -> v[2]
    [] v[1] = "float" -> Truncate(v[2])
    [] v[1] = "bool" -> IF v[2] THEN 1 ELSE 0
    [] v[1] = "str" -> hp_str_to_int(v[2])
    [] v[1] = "null" -> 0
    [] OTHER -> 1

hp_val_to_float(v) ==
  CASE v[1] = "int" -> Real(v[2])
    [] v[1] = "float" -> v[2]
    [] v[1] = "bool" -> Real(IF v[2] THEN 1 ELSE 0)
    [] v[1] = "str" -> hp_str_to_double(v[2])
    [] OTHER -> Real(0)

hp_val_to_bool(v) ==
  CASE v[1] = "null" -> FALSE
    [] v[1] = "int" -> v[2] # 0
    [] v[1] = "float" -> v[2][1] # 0
    [] v[1] = "bool" -> v[2]
    [] v[1] = "str" -> Len(v[2]) > 0
    [] v[1] = "arr" -> Len(v[2].vals) > 0
    [] v[1] \in {"obj", "clo"} -> v[2] # 0

hp_kind_name(v) ==
  CASE v[1] = "int" -> "integer" [] v[1] = "float" -> "double" [] v[1] = "bool" -> "boolean"
    [] v[1] = "str" -> "string" [] v[1] = "arr" -> "array" [] v[1] = "obj" -> "object"
    [] v[1] = "clo" -> "closure" [] OTHER -> "null"

hp_num_like(v) == v[1] \in {"int", "float", "bool"} \/ (v[1] = "str" /\ hp_str_is_numeric(v[2]))

(***************************************************************************)
(* Comparisons.                                                            *)
(***************************************************************************)
SameArray(a, b) == a.id = b.id /\ a.id # 0
Either(a, b, tags) == a[1] \in tags \/ b[1] \in tags

\* ==, in the order of the code's tests.
hp_val_eq(a, b) ==
  CASE a[1] = "str" /\ b[1] = "str" -> a[2] = b[2]
    [] a[1] = "arr" /\ b[1] = "arr" -> SameArray(a[2], b[2])
    [] OTHER ->
       CASE Either(a, b, {"null"}) -> ~ hp_val_to_bool(a) /\ ~ hp_val_to_bool(b)
         [] OTHER ->
            CASE Either(a, b, {"bool"}) -> hp_val_to_bool(a) = hp_val_to_bool(b)
              [] OTHER -> Either(a, b, {"int", "float"}) /\ hp_val_to_float(a) = hp_val_to_float(b)

hp_val_cmp(a, b) ==
  IF a[1] = "str" /\ b[1] = "str" THEN hp_str_cmp(a[2], b[2])
  ELSE LET x == hp_val_to_float(a)  y == hp_val_to_float(b)
       IN  IF QLess(x, y) THEN -1 ELSE IF QLess(y, x) THEN 1 ELSE 0

hp_lt(a, b) == hp_val_cmp(a, b) < 0
hp_le(a, b) == hp_val_cmp(a, b) <= 0
hp_gt(a, b) == hp_val_cmp(a, b) > 0
hp_ge(a, b) == hp_val_cmp(a, b) >= 0

(***************************************************************************)
(* Arithmetic.  Raised stands for a throw.                                 *)
(***************************************************************************)
Raised == <<"raised", 0>>

hp_add(a, b) ==
  LET x == hp_val_to_float(a)  y == hp_val_to_float(b)
  IN  IF Either(a, b, {"str"})
      THEN IF hp_num_like(a) /\ hp_num_like(b)
           THEN IF ~ Either(a, b, {"float"}) /\ Whole(x) /\ Whole(y) THEN Integer(x[1] + y[1]) ELSE Float(QAdd(x, y))
           ELSE Str(hp_val_to_str(a) \o hp_val_to_str(b))
      ELSE IF Either(a, b, {"float"}) THEN Float(QAdd(x, y))
      ELSE Integer(hp_val_to_int(a) + hp_val_to_int(b))

hp_sub(a, b) ==
  IF Either(a, b, {"float"}) THEN Float(QSub(hp_val_to_float(a), hp_val_to_float(b)))
  ELSE Integer(hp_val_to_int(a) - hp_val_to_int(b))

hp_mul(a, b) ==
  IF Either(a, b, {"float"}) THEN Float(QMul(hp_val_to_float(a), hp_val_to_float(b)))
  ELSE Integer(hp_val_to_int(a) * hp_val_to_int(b))

hp_divv(a, b) ==
  LET d == hp_val_to_float(b)
  IN  IF d = Real(0) THEN Raised ELSE Float(QDiv(hp_val_to_float(a), d))

hp_mod(a, b) == IF b = 0 THEN Raised ELSE Integer(CRem(a, b))
hpbi_intdiv(a, b) == LET d == hp_val_to_int(b) IN IF d = 0 THEN Raised ELSE Integer(CDiv(hp_val_to_int(a), d))

SlipHp_pow_i(a, b) ==
  LET P[e \in Nat, r \in Int, base \in Int] ==
        IF e = 0 THEN r
        ELSE LET sq == Wrap(base * base)
             IN  P[e \div 2, IF (e % 2) = 1 THEN Wrap(r * sq) ELSE r, sq]
  IN  IF b < 0 THEN 0 ELSE P[b, 1, a]

\* By squaring, each product cut to the width.
hp_pow_i(a, b) ==
  LET P[e \in Nat, r \in Int, base \in Int] ==
        IF e = 0 THEN r
        ELSE P[e \div 2, IF (e % 2) = 1 THEN Wrap(r * base) ELSE r, Wrap(base * base)]
  IN  IF b < 0 THEN 0 ELSE P[b, 1, a]

hp_nullcoal(a, b) == IF a[1] = "null" THEN b ELSE a
hp_match_any(subject, pats) == \E i \in DOMAIN pats : hp_val_eq(subject, pats[i])

hpbi_max(vals) == IF vals = <<>> THEN Null
                  ELSE FoldLeft(LAMBDA best, v : IF hp_val_cmp(v, best) > 0 THEN v ELSE best, vals[1], vals)
hpbi_min(vals) == IF vals = <<>> THEN Null
                  ELSE FoldLeft(LAMBDA best, v : IF hp_val_cmp(v, best) < 0 THEN v ELSE best, vals[1], vals)
hpbi_abs(v) == IF v[1] = "float" THEN Float(<<Magnitude(v[2][1]), v[2][2]>>) ELSE Integer(Magnitude(hp_val_to_int(v)))

\* A half goes by the mode: 1 down, 2 to even, 3 to odd, else up.
RoundHalf(q, mode) ==
  LET fl == Floor(q)  twice == QSub(QMul(q, Real(2)), Real(2 * fl))
  IN  CASE QLess(Real(1), twice) -> fl + 1
        [] QLess(twice, Real(1)) -> fl
        [] OTHER -> CASE mode = 2 -> IF (fl % 2) = 0 THEN fl ELSE fl + 1
                      [] mode = 3 -> IF (fl % 2) # 0 THEN fl ELSE fl + 1
                      [] mode = 1 -> fl
                      [] OTHER -> fl + 1

\* prec and mode are values; without both, C's round takes a half away from zero.
hpbi_round(v, prec, mode) ==
  LET x == hp_val_to_float(v)
      m == IF mode[1] = "null" THEN 0 ELSE hp_val_to_int(mode)
      n == hp_val_to_int(prec)
      p == IF n >= 0 THEN Real(10 ^ n) ELSE <<1, 10 ^ (-n)>>
  IN  CASE prec[1] = "null" /\ m = 0 -> Float(Real(Negated(x[1] < 0, RoundHalf(<<Magnitude(x[1]), x[2]>>, 0))))
        [] prec[1] = "null" -> Float(Real(RoundHalf(x, m)))
        [] OTHER -> Float(QDiv(Real(RoundHalf(QMul(x, p), m)), p))
=============================================================================
