------------------------------- MODULE Regex -------------------------------
(***************************************************************************)
(* The backtracking regular expressions of hphp_std.c: the pattern parser  *)
(* (rx_parse_alt and what it calls), the matcher with its explicit         *)
(* continuations (rx_m, rx_k, rx_m_rep_at, rx_m_seq) and the builtins over *)
(* them.                                                                   *)
(*                                                                         *)
(* A node is a tuple <<kind, ...>>; a continuation is the sequence of what *)
(* is still to be matched, next first.  The captures of the context are    *)
(* restored by C_GRP when the rest fails, so a failing match leaves none:  *)
(* a result is NoMatch or the end with the captures that led there.        *)
(***************************************************************************)
EXTENDS Json
LOCAL INSTANCE SequencesExt

rx_is_word(c) == c \in Alnum \cup {95}
BothCases(set) == set \cup {toupper(c) : c \in set} \cup {tolower(c) : c \in set}
rx_set_add(set, more, ci) == set \cup (IF ci THEN BothCases(more) ELSE more)

(* \d \w \s and their negations; {} when the letter names no class. *)
Named(c) == CASE c = 100 -> Digit [] c = 119 -> {b \in Byte : rx_is_word(b)}
              [] c = 115 -> CSpace [] OTHER -> {}
rx_escape_class(c) ==
  IF c \in Upper /\ Named(tolower(c)) # {} THEN Byte \ Named(tolower(c)) ELSE Named(c)

(***************************************************************************)
(* The parser.  A state is [pos, groups, rx]; Failed is rp->err.           *)
(***************************************************************************)
Failed == [pos |-> -1, groups |-> 0, rx |-> <<>>]
rx_peek(src, pos) == IF pos < Len(src) THEN src[pos + 1] ELSE 0
rx_next(src, pos) == Least(pos + 1, Len(src))
Parsed(pos, groups, rx) == [pos |-> pos, groups |-> groups, rx |-> rx]

RECURSIVE rx_parse_alt(_, _, _, _), ClassItems(_, _, _, _, _), Branches(_, _, _, _, _),
          SeqItems(_, _, _, _, _)

(* The members of [...]: "]" first is a member; a range needs a hi before "]". *)
ClassItems(src, pos, set, first, f) ==
  IF pos >= Len(src) \/ (rx_peek(src, pos) = 93 /\ ~first) THEN [pos |-> pos, set |-> set]
  ELSE LET esc   == rx_peek(src, pos) = 92
           from  == IF esc THEN rx_next(src, pos) ELSE pos
           lo    == rx_peek(src, from)
           after == rx_next(src, from)
           range == rx_peek(src, after) = 45 /\ after + 1 < Len(src) /\ src[after + 2] # 93
           hi    == IF rx_peek(src, after + 1) = 92 THEN after + 2 ELSE after + 1
       IN  CASE esc /\ rx_escape_class(lo) # {} ->
                  ClassItems(src, after, rx_set_add(set, rx_escape_class(lo), f.ci), FALSE, f)
             [] range -> ClassItems(src, rx_next(src, hi),
                                    rx_set_add(set, lo..rx_peek(src, hi), f.ci), FALSE, f)
             [] OTHER -> ClassItems(src, after, rx_set_add(set, {lo}, f.ci), FALSE, f)

RxClass(src, pos, groups, f) ==
  LET neg == rx_peek(src, pos) = 94
      in  == ClassItems(src, IF neg THEN pos + 1 ELSE pos, {}, TRUE, f)
  IN  IF rx_peek(src, in.pos) # 93 THEN Failed
      ELSE Parsed(in.pos + 1, groups, <<"class", in.set, neg>>)

RxGroup(src, pos, groups, f) ==
  LET ask  == rx_peek(src, pos) = 63
      g    == IF ask THEN 0 ELSE groups + 1
      body == rx_parse_alt(src, IF ask THEN pos + 2 ELSE pos, IF ask THEN groups ELSE g, f)
  IN  IF \/ ask /\ rx_peek(src, pos + 1) # 58
         \/ body = Failed
         \/ rx_peek(src, body.pos) # 41
      THEN Failed
      ELSE Parsed(body.pos + 1, body.groups, <<"group", g, <<"seq", <<body.rx>>>>>>)

RxEscape(src, pos, groups, f) ==
  LET e == rx_peek(src, pos)
      c == CASE e = 110 -> 10 [] e = 116 -> 9 [] e = 114 -> 13 [] e = 48 -> 0 [] OTHER -> e
  IN  Parsed(rx_next(src, pos), groups,
             CASE rx_escape_class(e) # {} -> <<"class", rx_set_add({}, rx_escape_class(e), f.ci), FALSE>>
               [] e = 98 -> <<"bow">>
               [] OTHER -> <<"char", c, f.ci>>)

rx_parse_atom(src, pos, groups, f) ==
  LET c == rx_peek(src, pos)
      q == rx_next(src, pos)
  IN  CASE c = 40 -> RxGroup(src, q, groups, f)
        [] c = 91 -> RxClass(src, q, groups, f)
        [] c = 46 -> Parsed(q, groups, <<"any", f.dotall>>)
        [] c = 94 -> Parsed(q, groups, <<"bol", f.multiline>>)
        [] c = 36 -> Parsed(q, groups, <<"eol", f.multiline>>)
        [] c = 92 -> RxEscape(src, q, groups, f)
        [] c \in {42, 43, 63} -> Failed
        [] OTHER -> Parsed(q, groups, <<"char", c, f.ci>>)

(* The number at pos: its digits end where it ends; no digit is 0. *)
NumberEnd(src, pos) ==
  CHOOSE e \in pos..Len(src) : /\ \A i \in pos..(e - 1) : src[i + 1] \in Digit
                               /\ rx_peek(src, e) \notin Digit
NumberAt(src, pos) == FoldLeft(LAMBDA n, d : (10 * n) + d - 48, 0, Cut(src, pos, NumberEnd(src, pos)))

(* {m}, {m,}, {m,n}: [min, max, pos]; max -1 is unbounded. *)
Braces(src, pos) ==
  LET e  == NumberEnd(src, pos)
      mn == NumberAt(src, pos)
      e2 == NumberEnd(src, e + 1)
  IN  CASE rx_peek(src, e) # 44 -> [min |-> mn, max |-> mn, pos |-> e]
        [] e2 = e + 1 -> [min |-> mn, max |-> -1, pos |-> e2]
        [] OTHER -> [min |-> mn, max |-> NumberAt(src, e + 1), pos |-> e2]

rx_parse_rep(src, pos, groups, f) ==
  LET atom == rx_parse_atom(src, pos, groups, f)
      c    == rx_peek(src, atom.pos)
      b    == CASE c = 42 -> [min |-> 0, max |-> -1, pos |-> atom.pos]
                [] c = 43 -> [min |-> 1, max |-> -1, pos |-> atom.pos]
                [] c = 63 -> [min |-> 0, max |-> 1, pos |-> atom.pos]
                [] OTHER -> Braces(src, atom.pos + 1)
      lazy == rx_peek(src, b.pos + 1) = 63
  IN  IF atom = Failed \/ c \notin {42, 43, 63, 123} THEN atom
      ELSE IF c = 123 /\ rx_peek(src, b.pos) # 125 THEN Failed
      ELSE Parsed(IF lazy THEN b.pos + 2 ELSE b.pos + 1, atom.groups,
                  <<"rep", atom.rx, b.min, b.max, lazy>>)

SeqItems(src, pos, groups, kids, f) ==
  IF pos >= Len(src) \/ src[pos + 1] \in {124, 41} THEN Parsed(pos, groups, <<"seq", kids>>)
  ELSE LET item == rx_parse_rep(src, pos, groups, f)
       IN  IF item = Failed THEN Failed
           ELSE SeqItems(src, item.pos, item.groups, Append(kids, item.rx), f)
rx_parse_seq(src, pos, groups, f) == SeqItems(src, pos, groups, <<>>, f)

Branches(src, pos, groups, kids, f) ==
  LET b == rx_parse_seq(src, pos, groups, f)
  IN  CASE b = Failed -> Failed
        [] b # Failed /\ rx_peek(src, b.pos) = 124 ->
             Branches(src, b.pos + 1, b.groups, Append(kids, b.rx), f)
        [] OTHER -> Parsed(b.pos, b.groups,
                           IF kids = <<>> THEN b.rx ELSE <<"alt", Append(kids, b.rx)>>)
rx_parse_alt(src, pos, groups, f) == Branches(src, pos, groups, <<>>, f)

(***************************************************************************)
(* /pat/flags: the delimiter is the first byte unless it is alphanumeric,  *)
(* a backslash or a space; the body ends before its last occurrence, or,   *)
(* when there is none, at the end of the pattern.                          *)
(***************************************************************************)
rx_split_pattern(s) ==
  LET n     == Len(s)
      delim == n >= 2 /\ s[1] \notin Alnum \cup {92} \cup CSpace
      lasts == {i \in 2..n : s[i] = s[1]}
      end   == IF lasts = {} THEN n ELSE (CHOOSE i \in lasts : \A j \in lasts : j <= i) - 1
      cut   == delim /\ end >= 2
      body  == IF cut THEN SubSeq(s, 2, end) ELSE s
      flags == IF cut THEN {s[i] : i \in (end + 2)..n} ELSE {}
      p     == rx_parse_alt(body, 0, 0, [ci |-> 105 \in flags, dotall |-> 115 \in flags,
                                         multiline |-> 109 \in flags])
  IN  IF p = Failed \/ p.pos # Len(body) THEN Failed ELSE p

(***************************************************************************)
(* The matcher.  A continuation is <<"seq", node, idx>>, <<"rep", node,    *)
(* count>> or <<"grp", node, start>>; the empty sequence is C_DONE.        *)
(***************************************************************************)
NoMatch == [end |-> -1, caps |-> <<>>]
RECURSIVE rx_m(_, _, _, _, _), rx_k(_, _, _, _), rx_m_rep_at(_, _, _, _, _, _), Alternatives(_, _, _, _, _)

rx_m_seq(kids, idx, pos, s, caps, k) ==
  IF idx > Len(kids) THEN rx_k(k, pos, s, caps)
  ELSE rx_m(kids[idx], pos, s, caps, <<<<"seq", kids, idx + 1>>>> \o k)

Alternatives(kids, pos, s, caps, k) ==
  IF kids = <<>> THEN NoMatch
  ELSE LET r == rx_m_seq(Head(kids)[2], 1, pos, s, caps, k)
       IN  IF r # NoMatch THEN r ELSE Alternatives(Tail(kids), pos, s, caps, k)

rx_m(n, pos, s, caps, k) ==
  LET more == pos < Len(s)
      c    == IF more THEN s[pos + 1] ELSE 0
      step(ok, to) == IF ok THEN rx_k(k, to, s, caps) ELSE NoMatch
  IN  CASE n[1] = "char" ->
             step(more /\ (IF n[3] THEN tolower(c) = tolower(n[2]) ELSE c = n[2]), pos + 1)
        [] n[1] = "any" -> step(more /\ (n[2] \/ c # 10), pos + 1)
        [] n[1] = "class" -> step(more /\ ((c \in n[2]) # n[3]), pos + 1)
        [] n[1] = "bol" -> step(pos = 0 \/ (n[2] /\ s[pos] = 10), pos)
        [] n[1] = "eol" -> step(~more \/ (n[2] /\ c = 10), pos)
        [] n[1] = "bow" -> step((pos > 0 /\ rx_is_word(s[pos])) # (more /\ rx_is_word(c)), pos)
        [] n[1] = "group" ->
             rx_m_seq(n[3][2], 1, pos, s, caps, IF n[2] = 0 THEN k ELSE <<<<"grp", n[2], pos>>>> \o k)
        [] n[1] = "seq" -> rx_m_seq(n[2], 1, pos, s, caps, k)
        [] n[1] = "alt" -> Alternatives(n[2], pos, s, caps, k)
        [] OTHER -> rx_m_rep_at(n, 0, pos, s, caps, k)

(* One more round first, or, when lazy, one more round last; the cap on    *)
(* the rounds ends the rounds of a body that matches nothing.              *)
SlipRx_m_rep_at(n, count, pos, s, caps, k) ==
  LET again == IF (n[4] < 0 \/ count + 1 <= n[4]) /\ count < Len(s) + n[3] + 2
               THEN rx_m(n[2], pos, s, caps, <<<<"rep", n, count + 1>>>> \o k) ELSE NoMatch
      stop  == IF count > n[3] \/ (count = n[3] /\ ~ n[5]) THEN rx_k(k, pos, s, caps) ELSE NoMatch
  IN  IF n[5] THEN (IF stop # NoMatch THEN stop ELSE again)
      ELSE (IF again # NoMatch THEN again ELSE stop)

rx_m_rep_at(n, count, pos, s, caps, k) ==
  LET again == IF (n[4] < 0 \/ count + 1 <= n[4]) /\ count < Len(s) + n[3] + 2
               THEN rx_m(n[2], pos, s, caps, <<<<"rep", n, count + 1>>>> \o k) ELSE NoMatch
      stop  == IF count >= n[3] THEN rx_k(k, pos, s, caps) ELSE NoMatch
  IN  IF n[5] THEN (IF stop # NoMatch THEN stop ELSE again)
      ELSE (IF again # NoMatch THEN again ELSE stop)

rx_k(k, pos, s, caps) ==
  IF k = <<>> THEN [end |-> pos, caps |-> caps]
  ELSE CASE k[1][1] = "seq" -> rx_m_seq(k[1][2], k[1][3], pos, s, caps, Tail(k))
         [] k[1][1] = "rep" -> rx_m_rep_at(k[1][2], k[1][3], pos, s, caps, Tail(k))
         [] OTHER -> rx_k(Tail(k), pos, s, [caps EXCEPT ![k[1][2]] = <<k[1][3], pos>>])

rx_run(p, s, off) == rx_m(p.rx, off, s, [g \in 1..p.groups |-> <<-1, -1>>], <<>>)

(* The leftmost match at or after off: [from, end, caps], or NoMatch. *)
rx_search(p, s, off) ==
  LET hits == {i \in off..Len(s) : rx_run(p, s, i) # NoMatch}
      from == CHOOSE i \in hits : \A j \in hits : i <= j
      r    == rx_run(p, s, from)
  IN  IF hits = {} THEN NoMatch ELSE [from |-> from, end |-> r.end, caps |-> r.caps]

(***************************************************************************)
(* The builtins.  rx_match_arr is the row <<whole match, group 1, ...>>.   *)
(***************************************************************************)
Captured(s, m, g) == IF m.caps[g][1] = -1 THEN <<>> ELSE Cut(s, m.caps[g][1], m.caps[g][2])
rx_match_arr(s, m) == <<Cut(s, m.from, m.end)>> \o [g \in DOMAIN m.caps |-> Captured(s, m, g)]

rx_first_match(pat, s) ==
  LET p == rx_split_pattern(pat)
      m == rx_search(p, s, 0)
  IN  IF p = Failed \/ m = NoMatch THEN <<>> ELSE rx_match_arr(s, m)

(* Every match from off on: the next search starts after the match, one    *)
(* byte further when it is empty.                                          *)
RECURSIVE Matches(_, _, _)
Matches(p, s, off) ==
  LET m == rx_search(p, s, off)
  IN  IF off > Len(s) \/ m = NoMatch THEN <<>>
      ELSE <<m>> \o Matches(p, s, IF m.end > m.from THEN m.end ELSE m.from + 1)

rx_all_matches(pat, s) ==
  LET p  == rx_split_pattern(pat)
      ms == Matches(p, s, 0)
  IN  IF p = Failed THEN <<>>
      ELSE [g \in 1..(p.groups + 1) |-> [i \in DOMAIN ms |-> rx_match_arr(s, ms[i])[g]]]

(* $0-$9 and \0-\9 of the replacement. *)
RECURSIVE Replacement(_, _, _)
Replacement(r, s, m) ==
  CASE r = <<>> -> <<>>
    [] r # <<>> /\ r[1] \in {36, 92} /\ Len(r) > 1 /\ r[2] \in Digit ->
         (LET g == r[2] - 48
          IN  IF g = 0 THEN Cut(s, m.from, m.end)
              ELSE IF g \in DOMAIN m.caps THEN Captured(s, m, g) ELSE <<>>)
         \o Replacement(SubSeq(r, 3, Len(r)), s, m)
    [] OTHER -> <<r[1]>> \o Replacement(Tail(r), s, m)

(* Where the copying of the subject goes on after a match: the byte after  *)
(* an empty match is skipped.  Past the end (an empty match at the end)    *)
(* the length of the rest is -1 as a size_t: Overrun.                      *)
Overrun == <<-1>>
NextOff(m) == IF m.end > m.from THEN m.end ELSE m.from + 1
RECURSIVE Replaced(_, _, _, _)
Replaced(p, r, s, off) ==
  LET m == rx_search(p, s, off)
      rest == Replaced(p, r, s, NextOff(m))
  IN  CASE off > Len(s) -> Overrun
        [] off <= Len(s) /\ m = NoMatch -> Cut(s, off, Len(s))
        [] OTHER -> IF rest = Overrun THEN Overrun
                    ELSE Cut(s, off, m.from) \o Replacement(r, s, m) \o rest
hpbi_preg_replace(pat, r, s) ==
  LET p == rx_split_pattern(pat) IN IF p = Failed THEN s ELSE Replaced(p, r, s, 0)

(* An empty match separates nothing, but what stands before it is dropped. *)
RECURSIVE SplitFrom(_, _, _)
SplitFrom(p, s, off) ==
  LET m == rx_search(p, s, off)
      rest == SplitFrom(p, s, NextOff(m))
  IN  CASE off > Len(s) -> <<Overrun>>
        [] off <= Len(s) /\ m = NoMatch -> <<Cut(s, off, Len(s))>>
        [] OTHER -> IF rest = <<Overrun>> \/ m.end = m.from THEN rest
                    ELSE <<Cut(s, off, m.from)>> \o rest
hpbi_preg_split(pat, s) ==
  LET p == rx_split_pattern(pat) IN IF p = Failed THEN <<s>> ELSE SplitFrom(p, s, 0)

hpbi_preg_grep(pat, a) ==
  LET p == rx_split_pattern(pat)
      hit(v) == rx_search(p, hp_val_to_str(v), 0) # NoMatch
      keep == SelectSeq([i \in 1..Len(a.vals) |-> i], LAMBDA i : hit(a.vals[i]))
  IN  CASE p = Failed -> Truth(FALSE)
        [] p # Failed /\ a.map -> Arr(hp_map_of([i \in DOMAIN keep |-> <<a.keys[keep[i]], a.vals[keep[i]]>>]))
        [] OTHER -> Arr(ListOf([i \in DOMAIN keep |-> a.vals[keep[i]]]))
=============================================================================
