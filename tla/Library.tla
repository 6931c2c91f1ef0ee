------------------------------ MODULE Library ------------------------------
(***************************************************************************)
(* The pure builtins of the runtime, checked against reference definitions *)
(* and against each other.  A behaviour picks a topic, lets its arguments  *)
(* x and y grow by one item of the topic's alphabet a step, and calls the  *)
(* builtins with them, so that a run calls them with every pair up to the  *)
(* bounds.  Items are bytes, values, numbers or short texts, as the topic  *)
(* needs; the properties of a topic apply the builtins to x and y.         *)
(***************************************************************************)
EXTENDS Regex, Exchange, FiniteSets
LOCAL INSTANCE SequencesExt

Texts == {<<>>, <<48>>, <<49>>, <<97>>, <<49, 46, 48>>}
Scalars == {Null, Truth(FALSE), Truth(TRUE), Float(<<1, 2>>), Float(Real(1))}
             \cup {IntKey(n) : n \in {-1, 0, 1}} \cup {Str(s) : s \in Texts}
Printable == {Null, Truth(TRUE), IntKey(-3), IntKey(7), Str(<<>>), Str(<<34, 97>>), Str(<<92>>), Str(<<10, 200>>),
              Str(<<47, 9>>), Arr(ListOf(<<IntKey(1), Str(<<97>>)>>)), Arr(hp_map_of(<<<<Str(<<98>>), Null>>>>))}

\* a . * ? | ( ) ^ $ {2,} [^a] (a|ab) \b
RegexParts == {<<97>>, <<46>>, <<42>>, <<63>>, <<124>>, <<40>>, <<41>>, <<94>>, <<36>>, <<123, 50, 44, 125>>,
           <<91, 94, 97, 93>>, <<40, 97, 124, 97, 98, 41>>, <<92, 98>>}

Installs == {"add"} \X {<<"a">>, <<"b">>, <<"version">>} \X {<<"1">>, <<"2">>}
Removals == {"remove"} \X {<<"a">>, <<"b">>, <<"version">>} \X {<<>>}
OneByte == <<"byte">>
PackedFiles == {"f", "g", "../f"} \X {<<>>, <<OneByte>>, <<Terminator>>, <<Header("g", 1), OneByte>>}

(* What may come next in x and in y, and how long they get: the bounds. *)
Ways == [words   |-> [x |-> {97, 98}, y |-> {97, 98}, maxX |-> 4, maxY |-> 3],
         bytes   |-> [x |-> {0, 32, 34, 37, 38, 39, 43, 60, 92, 97, 255}, y |-> {38, 61, 97}, maxX |-> 3, maxY |-> 2],
         paths   |-> [x |-> {32, 46, 47, 97}, y |-> {}, maxX |-> 5, maxY |-> 0],
         wild    |-> [x |-> {97, 98}, y |-> {97, 42, 63}, maxX |-> 4, maxY |-> 4],
         regex   |-> [x |-> {}, y |-> RegexParts, maxX |-> 0, maxY |-> 3],
         digits  |-> [x |-> {32, 43, 45, 46, 48, 49, 101}, y |-> {}, maxX |-> 5, maxY |-> 0],
         numbers |-> [x |-> -16..15, y |-> -16..15, maxX |-> 1, maxY |-> 1],
         values  |-> [x |-> Scalars, y |-> Scalars, maxX |-> 1, maxY |-> 1],
         json    |-> [x |-> Printable, y |-> {Str(<<97>>), Str(<<98, 46>>)}, maxX |-> 2, maxY |-> 2],
         sorts   |-> [x |-> {IntKey(1), IntKey(2), Float(Real(1)), Float(Real(2))}, y |-> {}, maxX |-> 4, maxY |-> 0],
         arrays  |-> [x |-> {IntKey(1), IntKey(2), Str(<<97>>)}, y |-> {IntKey(1), Str(<<97>>)},
                      maxX |-> 3, maxY |-> 2],
         dates   |-> [x |-> {1970, 1999, 2000, 2023, 2024}, y |-> 0..13 \cup 28..32, maxX |-> 1, maxY |-> 2],
         packages |-> [x |-> Installs \cup Removals, y |-> {}, maxX |-> 3, maxY |-> 0],
         archives |-> [x |-> PackedFiles, y |-> {}, maxX |-> 2, maxY |-> 0],
         projects |-> [x |-> {"a", "A", "7", "_", "-", "version"}, y |-> {}, maxX |-> 3, maxY |-> 0],
         files    |-> [x |-> {0, 10, 13, 97}, y |-> {}, maxX |-> 4, maxY |-> 0],
         addresses |-> [x |-> {"a", ":", "8", "/", " "}, y |-> {}, maxX |-> 5, maxY |-> 0]]

VARIABLES topic, x, y
libVars == <<topic, x, y>>

LibInit == topic = "none" /\ x = <<>> /\ y = <<>>
Pick  == /\ topic = "none" /\ topic' \in DOMAIN Ways
         /\ UNCHANGED <<x, y>>
GrowX == /\ topic # "none" /\ Len(x) < Ways[topic].maxX
         /\ \E c \in Ways[topic].x : x' = Append(x, c)
         /\ UNCHANGED <<topic, y>>
GrowY == /\ topic # "none" /\ Len(y) < Ways[topic].maxY
         /\ \E c \in Ways[topic].y : y' = Append(y, c)
         /\ UNCHANGED <<topic, x>>
\* The builtins of the topic are applied to the arguments.
Invoke == topic # "none" /\ topic' = "none" /\ x' = <<>> /\ y' = <<>>
LibNext == Pick \/ GrowX \/ GrowY \/ Invoke
LibSpec == LibInit /\ [][LibNext]_libVars

(***************************************************************************)
(* Searching and replacing.                                                *)
(***************************************************************************)
\* Splitting a text at a separator and joining the parts gives the text back; a
\* replacement is the same split joined by the new text; the first part ends where
\* strpos finds the separator, and substr_count counts the cuts; the prefix tests agree
\* with it and with the substrings counted from either end (hpbi_explode, hp_str_replace,
\* hp_str_index, hpbi_substr_count, hpbi_substr, hpbi_strncmp).
SearchesAgree ==
  topic = "words" /\ y # <<>> =>
    LET parts == hpbi_explode(y, x)
    IN  /\ hp_implode(y, parts) = x
        /\ hp_str_replace(x, y, <<99>>) = hp_implode(<<99>>, parts)
        /\ hpbi_substr_count(x, y) = Len(parts) - 1
        /\ hpbi_strpos(x, y, 0) = IF Len(parts) = 1 THEN -1 ELSE Len(parts[1])
        /\ hpbi_strstr(x, y) = IF Len(parts) = 1 THEN <<>> ELSE Cut(x, Len(parts[1]), Len(x))
        /\ hpbi_str_starts_with(x, y) <=> hpbi_strpos(x, y, 0) = 0
        /\ hpbi_str_starts_with(x, y) \/ hpbi_str_starts_with(y, x) <=> hpbi_strncmp(x, y, Len(y)) = 0
        /\ \A n \in -1 .. 4 : hpbi_strncasecmp(x, hp_str_toupper(y), n) = hpbi_strncmp(x, y, IF n < 0 THEN 4 ELSE n)
        /\ hpbi_str_ends_with(x, y) <=> hpbi_str_starts_with(hp_str_reverse(x), hp_str_reverse(y))
        /\ \A n \in 1..Len(x) : hpbi_substr(x, 0, -n, FALSE) \o hpbi_substr(x, -n, 0, TRUE) = x

RECURSIVE Edits(_, _)
Edits(a, b) == IF a = <<>> \/ b = <<>> THEN Len(a) + Len(b)
               ELSE IF Head(a) = Head(b) THEN Edits(Tail(a), Tail(b))
               ELSE 1 + Least(Edits(Tail(a), Tail(b)), Least(Edits(Tail(a), b), Edits(a, Tail(b))))

\* levenshtein keeps one row of its table and overwrites it; its answer is the least
\* number of insertions, deletions and substitutions, at least one for each byte that
\* similar_text does not find in the other text (hpbi_levenshtein, hpbi_similar_text).
DistanceIsEdits == topic = "words" => /\ hpbi_levenshtein(x, y) = Edits(x, y)
                                      /\ Edits(x, y) >= Len(x) - hpbi_similar_text(x, y)

RECURSIVE Denotes(_, _)
Denotes(p, s) == CASE p = <<>> -> s = <<>>
                   [] p # <<>> /\ Head(p) = 42 -> Denotes(Tail(p), s) \/ (s # <<>> /\ Denotes(p, Tail(s)))
                   [] OTHER -> s # <<>> /\ Head(p) \in {63, Head(s)} /\ Denotes(Tail(p), Tail(s))

\* A wildcard pattern of glob accepts the names it denotes, also with several stars
\* and stars that stand for nothing, and glob lists those of a directory (wc_match,
\* hpbi_glob).
WildcardsAgree ==
  topic = "wild" =>
    LET listed == hpbi_glob(y, {x, <<98>>})
    IN  /\ wc_match(y, x) <=> Denotes(y, x)
        /\ \A name \in {x, <<98>>} : (\E i \in DOMAIN listed : listed[i] = name) <=> y = <<>> \/ Denotes(y, name)

\* The words of a text: the longest runs without a blank.
WordsOf(s) == SelectSeq(hpbi_explode(<<32>>, s), LAMBDA w : w # <<>>)
Capitals(words) == [i \in DOMAIN words |-> hpbi_ucfirst(words[i])]

\* wordwrap keeps the words in their order and breaks where a line would be too long; a
\* path is its directory and its last part, a file name what stands on both sides of
\* its first dot; trimming takes blanks only, from the side asked for; padding and
\* cutting to size lose no byte; capitals come and go without other changes, and the
\* tags of nl2br are those strip_tags removes (hpbi_wordwrap, hpbi_dirname,
\* hpbi_basename, hpbi_pathinfo, hp_str_trim, hpbi_ucwords, hpbi_nl2br).
WordsAndPaths ==
  topic = "paths" =>
    LET lines == hpbi_explode(<<10>>, hpbi_wordwrap(x, 3))
        base  == hpbi_basename(x, <<>>)
        dir   == hpbi_dirname(x)
        info  == hpbi_pathinfo(x)
    IN  /\ Flat([i \in DOMAIN lines |-> WordsOf(lines[i])]) = Flat(<<WordsOf(x)>>)
        /\ \A i \in DOMAIN lines : Len(lines[i]) <= 3 \/ Len(WordsOf(lines[i])) = 1
        /\ 47 \notin {base[i] : i \in DOMAIN base}
        /\ BaseStart(RightSlash(x)) > 1 /\ RightSlash(SubSeq(x, 1, BaseStart(RightSlash(x)))) # <<>> =>
             /\ hp_str_index(x, dir) = 0 /\ hpbi_str_ends_with(RightSlash(x), base)
             /\ SelectSeq(dir, LAMBDA c : c # 47) \o base = SelectSeq(x, LAMBDA c : c # 47)
        /\ info.extension # <<>> => info.filename \o <<46>> \o info.extension = base
        /\ \E i, j \in 0..Len(x) : hp_str_repeat(<<32>>, i) \o hp_str_trim(x) \o hp_str_repeat(<<32>>, j) = x
        /\ Flat(hpbi_str_split(hpbi_str_pad(x, 7, <<97, 46>>), 2)) = hpbi_str_pad(x, 7, <<97, 46>>)
        /\ Len(hpbi_str_pad(x, 7, <<97, 46>>)) = 7 /\ At(hpbi_str_pad(x, 7, <<97, 46>>), x, 0)
        /\ hpbi_ltrim(hpbi_rtrim(x, <<>>), <<>>) = hp_str_trim(x) /\ hpbi_chop(x) = hpbi_rtrim(x, <<>>)
        /\ hpbi_ucwords(x) = hp_implode(<<32>>, Capitals(hpbi_explode(<<32>>, x)))
        /\ hp_str_tolower(hp_str_toupper(x)) = x /\ hpbi_lcfirst(hpbi_ucfirst(x)) = x
        /\ hpbi_strip_tags(hpbi_nl2br(hpbi_wordwrap(x, 3))) = hpbi_wordwrap(x, 3)

(***************************************************************************)
(* Regular expressions against their denotation: the set of positions at   *)
(* which a match from pos may end.                                         *)
(***************************************************************************)
RECURSIVE Ends(_, _, _)
Rounds(n, s, from, k) ==
  LET R[i \in 0..k] == IF i = 0 THEN from ELSE UNION {Ends(n, s, p) : p \in R[i - 1]} IN R
EndsOfSeq(kids, s, pos) ==
  FoldLeft(LAMBDA ps, kid : UNION {Ends(kid, s, p) : p \in ps}, {pos}, kids)
Ends(n, s, pos) ==
  LET k == n[1]
      more == pos < Len(s)
  IN  CASE k = "seq" -> EndsOfSeq(n[2], s, pos)
        [] k = "alt" -> UNION {EndsOfSeq(n[2][i][2], s, pos) : i \in DOMAIN n[2]}
        [] k = "group" -> EndsOfSeq(n[3][2], s, pos)
        [] k = "rep" -> LET top == IF n[4] < 0 THEN n[3] + Len(s) ELSE n[4]
                        IN  UNION {Rounds(n[2], s, {pos}, top)[i] : i \in n[3]..top}
        [] OTHER -> CASE k = "char" -> IF more /\ s[pos + 1] = n[2] THEN {pos + 1} ELSE {}
                      [] k = "any" -> IF more THEN {pos + 1} ELSE {}
                      [] k = "class" -> IF more /\ (s[pos + 1] \in n[2]) # n[3] THEN {pos + 1} ELSE {}
                      [] k = "bol" -> {pos} \cap {0}
                      [] k = "eol" -> {pos} \cap {Len(s)}
                      [] OTHER -> {pos} \cap IF s = <<>> THEN {} ELSE {0, Len(s)}   \* \b between letters

Pattern == <<47>> \o Flat(y) \o <<47>>
Regex == rx_split_pattern(Pattern)
Samples == << <<>>, <<98>>, <<97, 98>>, <<98, 97, 97>> >>
Subjects == UNION {[1..n -> {97, 98}] : n \in 0..3}

\* The backtracking matcher finds a match at a position exactly when the pattern
\* denotes one there, and ends it where the pattern may end; a group's capture lies
\* inside the subject; preg_grep keeps the subjects that hold a match (rx_m, rx_m_rep_at
\* with its cap on empty rounds, rx_k, hpbi_preg_grep).
RegexAgrees ==
  topic = "regex" /\ y # <<>> /\ Regex # Failed =>
    /\ LET hits == SelectSeq(Samples, LAMBDA s : \E i \in 0..Len(s) : Ends(Regex.rx, s, i) # {})
       IN  hpbi_preg_grep(Pattern, ListOf([i \in DOMAIN Samples |-> Str(Samples[i])]))
             = Arr(ListOf([i \in DOMAIN hits |-> Str(hits[i])]))
    /\ \A s \in Subjects : \A i \in 0..Len(s) :
      LET r == rx_run(Regex, s, i)  ends == Ends(Regex.rx, s, i)
      IN  /\ r = NoMatch <=> ends = {}
          /\ r # NoMatch => r.end \in ends /\ \A g \in DOMAIN r.caps : r.caps[g][2] <= r.end

\* Replacing every match by itself changes nothing, and the parts of a split with the
\* matches between them are the subject, for a pattern that matches no empty text
\* (hpbi_preg_replace, hpbi_preg_split, rx_all_matches).
ReplaceCovers ==
  topic = "regex" /\ y # <<>> /\ Regex # Failed /\ (\A s \in Subjects : \A i \in 0..Len(s) : i \notin Ends(Regex.rx, s, i)) =>
    \A s \in Subjects :
      LET parts == hpbi_preg_split(Pattern, s)  hits == rx_all_matches(Pattern, s)[1]
      IN  /\ hpbi_preg_replace(Pattern, <<36, 48>>, s) = s
          /\ Len(parts) = Len(hits) + 1
          /\ Flat([i \in DOMAIN parts |-> parts[i] \o IF i <= Len(hits) THEN hits[i] ELSE <<>>]) = s

(***************************************************************************)
(* Encodings.                                                              *)
(***************************************************************************)
NoNul(s) == \A i \in DOMAIN s : s[i] # 0

\* What an encoder writes, its decoder reads back: base64 for all bytes, hex, urlencode
\* and HTML entities for text without NUL, HTML also without an ampersand of its own; text
\* in entities holds no tag
\* (hp_b64_encode, hpbi_bin2hex, hpbi_urlencode, hpbi_htmlentities and their inverses).
EncodingsRoundTrip ==
  topic = "bytes" =>
    /\ hp_b64_decode(hp_b64_encode(x)) = x
    /\ from_base(Str(hpbi_bin2hex(x)), 16) = IntKey(FoldLeft(LAMBDA n, c : (256 * n) + c, 0, x))
    /\ NoNul(x) => hpbi_hex2bin(hpbi_bin2hex(x)) = x /\ hpbi_urldecode(hpbi_urlencode(x)) = x
    /\ NoNul(x) => hpbi_strip_tags(hpbi_htmlentities(x)) = hpbi_htmlentities(x)
    /\ NoNul(x) /\ (\A i \in DOMAIN x : x[i] # 38) => hpbi_html_entity_decode(hpbi_htmlentities(x)) = x

\* A query built by http_build_query, sent in a URL, taken out by parse_url, split at
\* & and = and decoded gives the pairs back, whatever the keys and values hold.
QueryRoundTrips ==
  topic = "bytes" /\ NoNul(x) =>
    LET url == Https \o <<58, 47, 47, 97, 47, 63>> \o hpbi_http_build_query(<<<<y, x>>, <<x, y>>>>)
        pairs == hpbi_explode(<<38>>, hpbi_parse_url(url).query)
        Part(i, k) == hpbi_urldecode(hpbi_explode(<<61>>, pairs[i])[k])
    IN  Len(pairs) = 2 /\ \A i \in 1..2 : Part(i, 1) = <<y, x>>[i] /\ Part(i, 2) = <<x, y>>[i]

\* json_decode reads back what json_encode wrote, for lists and maps whose keys need no
\* quoting and whose values are not floats, also when it was printed with indentation
\* (hbuf_json_r, jp_value, hpbi_json_encode2).
JsonRoundTrips ==
  topic = "json" =>
    LET list == Arr(ListOf(x))
        map  == Arr(hp_map_of([i \in 1..Least(Len(x), Len(y)) |-> <<y[i], x[i]>>]))
    IN  /\ hpbi_json_decode(hpbi_json_encode(list)) = list /\ hpbi_json_decode(hpbi_json_encode(map)) = map
        /\ hpbi_json_decode2(hpbi_json_encode2(list, 1), TRUE) = list
        /\ hpbi_json_decode2(hpbi_json_encode2(map, 1), TRUE) = map

(***************************************************************************)
(* The package manager's texts.                                            *)
(***************************************************************************)
Index(ops) == FoldLeft(LAMBDA js, op : IF op[1] = "add" THEN pkg_registry_add(js, op[2], op[3])
                                                        ELSE pkg_registry_remove(js, op[2]), Listed(<<>>), ops)

\* After any installs and removals registry.json, read back, holds every package once,
\* with the version it was last installed in, and none that was removed; a package
\* called "version" loses its own version and no other's (pkg_registry_read, _add, _remove).
IndexReadsBack ==
  topic = "packages" =>
    LET js == Index(x)
        names == [i \in DOMAIN pkg_registry_read(js) |-> pkg_registry_read(js)[i][1]]
        LastOp(n) == LET ops == SelectSeq(x, LAMBDA op : op[2] = n) IN IF ops = <<>> THEN <<"none">> ELSE ops[Len(ops)]
    IN  /\ \A i, j \in DOMAIN names : names[i] = names[j] => i = j
        /\ \A n \in {<<"a">>, <<"b">>, <<"version">>} :
             /\ LastOp(n)[1] = "add" <=> \E i \in DOMAIN names : names[i] = n
             /\ LastOp(n)[1] = "add" /\ n # <<"version">> => pkg_installed_version(js, n) = LastOp(n)[3]

\* An archive unpacks to the files that were packed, whatever bytes they hold, less
\* those whose names lead out of the directory; one that was cut anywhere unpacks to
\* the first of them, each whole (pkg_pack_dir, pkg_extract, pkg_list_entries).
ArchivesUnpack ==
  topic = "archives" =>
    LET a == pkg_pack_dir(x)
    IN  /\ pkg_extract(a) = SelectSeq(x, LAMBDA f : ~ Escaping(f[1]))
        /\ pkg_list_entries(a) = [i \in DOMAIN x |-> x[i][1]]
        /\ \A n \in 0..Len(a) : /\ IsPrefix(pkg_extract(SubSeq(a, 1, n)), pkg_extract(a))
                                /\ IsPrefix(pkg_list_entries(SubSeq(a, 1, n)), pkg_list_entries(a))

\* The manifest that init writes is one the package manager accepts, with the
\* directory's name made valid, but for a directory called "version"
\* (pkg_cmd_init, pkg_manifest_parse).
ManifestsAccepted ==
  topic = "projects" =>
    LET name == SafeName(x)
    IN  /\ pkg_name_ok(name)
        /\ name # <<"version">> => pkg_manifest_parse(pkg_cmd_init(x, Nowhere))
                                     = [name |-> name, version |-> <<"0.1.0">>, entry |-> name \o <<".hphp">>]
        /\ pkg_cmd_init(x, x) = Fatal1 <=> ~ pkg_name_ok(x)

\* The parts of an address with a path, put together, are the address, and the host
\* holds neither a port nor a path; the address a user sets is the one in effect, unless
\* the environment names one; of an answer no byte is kept that its length leaves out
\* (url_parse, pkg_cmd_registry, http_request, pkgnet_get).
AddressesParse ==
  topic = "addresses" =>
    LET u == url_parse(x)  set == pkg_cmd_registry(<<"http://">> \o x)
    IN  /\ First1(x, "/") # 0 /\ u.host # <<>> =>
             /\ x \in {u.host \o u.path, u.host \o <<":">> \o u.port \o u.path}
             /\ First1(u.host, ":") = 0 /\ First1(u.host, "/") = 0
        /\ pkg_registry_url_or_default(Nowhere, set) = RightOf(set, {" "})
        /\ pkg_registry_url_or_default(x, <<>>) = IF x = <<>> THEN <<"default">> ELSE x
        /\ pkg_cmd_registry(x) = Fatal1
        /\ \A n \in -1 .. 6 :
             LET got == pkgnet_get([ended |-> TRUE, length |-> n, gap |-> TRUE, body |-> x])
             IN  got = SubSeq(x, 1, IF n < 0 THEN Len(x) ELSE Least(n, Len(x)))

(***************************************************************************)
(* Numbers and values.                                                     *)
(***************************************************************************)
Int1(s) == <<"int", s[1]>>
Full == x # <<>> /\ y # <<>>

\* Quotient and remainder rebuild the dividend, the remainder has its sign and is
\* smaller than the divisor; ** is the repeated product, cut to the width at every
\* step; sums, differences, products and abs agree within the width (hpbi_intdiv,
\* hp_mod, hp_pow_i, hp_add, hp_sub, hp_mul, hpbi_abs).  The least number divided by -1 is left out:
\* the C operators overflow there.
DivisionAndPower ==
  topic = "numbers" /\ Full /\ <<x[1], y[1]>> # <<-16, -1>> =>
    LET a == x[1]  b == y[1]
        P[n \in Nat] == IF n = 0 THEN 1 ELSE Wrap(P[n - 1] * a)
    IN  /\ b = 0 => hpbi_intdiv(Int1(x), Int1(y)) = Raised /\ hp_mod(a, b) = Raised
        /\ b # 0 => LET q == hpbi_intdiv(Int1(x), Int1(y))[2]  r == hp_mod(a, b)[2]
                    IN  a = (q * b) + r /\ Magnitude(r) < Magnitude(b) /\ (r # 0 => (r < 0) = (a < 0))
        /\ b >= 0 => hp_pow_i(a, b) = P[b]
        /\ hp_add(hp_sub(Int1(x), Int1(y)), Int1(y)) = Int1(x)
        /\ hp_mul(Int1(x), hp_add(Int1(y), IntKey(1))) = hp_add(hp_mul(Int1(x), Int1(y)), Int1(x))
        /\ hpbi_abs(Int1(x)) = hpbi_max(<<Int1(x), hp_sub(IntKey(0), Int1(x))>>)

\* A number printed by sprintf with zeros and a width is read back as itself, at least
\* as wide as asked; %+d shows the sign, %x and %b the bits of the number; and round is
\* off by at most a half in every mode (hpbi_sprintf, Padded, hpbi_round).
PrintedNumbers ==
  topic = "numbers" /\ Full =>
    LET n == Int1(x)
        wide == hpbi_sprintf(<<37, 48, 53, 100>>, <<n>>)
        sign == hpbi_sprintf(<<37, 43, 100, 32, 37, 120>>, <<n, n>>)
        bits == hpbi_sprintf(<<37, 98>>, <<n>>)
        q == Ratio(x[1], 4)
        Off(r) == QSub(r[2], q)
    IN  /\ Len(wide) = 5 /\ hp_str_to_int(wide) = x[1]
        /\ sign[1] = (IF x[1] < 0 THEN 45 ELSE 43) /\ hp_str_to_int(sign) = x[1]
        /\ FoldLeft(LAMBDA b, c : (2 * b) + (c - 48), 0, bits) = x[1] % 32
        /\ \A mode \in {Null} \cup {IntKey(m) : m \in 0..3}, prec \in {Null, IntKey(0)} :
             LET d == Off(hpbi_round(Float(q), prec, mode))
             IN  ~ QLess(<<1, 2>>, d) /\ ~ QLess(d, <<-1, 2>>)
        /\ \A scale \in {1, 41, 911, 76543} :
             LET amount == Float(Real(scale * x[1]))
                 whole == hpbi_number_format(amount, IntKey(0), Null, Null)
                 parts == hpbi_explode(<<44>>, whole)
             IN  /\ Flat(parts) = hp_val_to_str(amount)
                 /\ \A i \in 2..Len(parts) : Len(parts[i]) = 3
                 /\ Len(SelectSeq(parts[1], LAMBDA c : c # 45)) \in 1..3
                 /\ hpbi_number_format(amount, IntKey(2), Str(<<44>>), Str(<<46, 32>>))
                      = hp_str_replace(whole, <<44>>, <<46>>) \o <<44, 48, 48>>

\* == is symmetric, < and > are each other's inverse and, for numbers and strings,
\* exclude ==, max is not below min, and === implies == (hp_val_eq, hp_val_cmp, hpbi_max,
\* hpbi_min, hp_ident_eq).
OrderConsistent ==
  topic = "values" /\ Full =>
    LET a == x[1]  b == y[1]
    IN  /\ hp_val_eq(a, b) <=> hp_val_eq(b, a)
        /\ hp_lt(a, b) <=> hp_gt(b, a)
        /\ hp_le(a, b) <=> ~ hp_gt(a, b)
        /\ hp_ge(a, b) <=> ~ hp_lt(a, b)
        /\ a[1] \notin {"bool", "null"} /\ b[1] \notin {"bool", "null"} /\ hp_val_eq(a, b) => ~ hp_lt(a, b)
        /\ ~ hp_lt(hpbi_max(<<a, b>>), hpbi_min(<<a, b>>))
        /\ hp_ident_eq(a, b) => hp_val_eq(a, b) /\ hp_kind_name(a) = hp_kind_name(b)

\* /^\s*[+-]?(\d+\.?\d*|\.\d+)(e[+-]?\d+)?\s*$/
NumberPattern ==
  <<47, 94, 92, 115, 42, 91, 43, 45, 93, 63, 40, 92, 100, 43, 92, 46, 63, 92, 100, 42, 124, 92, 46, 92, 100, 43, 41,
    40, 101, 91, 43, 45, 93, 63, 92, 100, 43, 41, 63, 92, 115, 42, 36, 47>>

\* is_numeric accepts exactly the decimal numbers with blanks around them, as the program's own regular
\* expressions describe them (hp_str_is_numeric).
NumericStrings == topic = "digits" => (hp_str_is_numeric(x) <=> rx_first_match(NumberPattern, x) # <<>>)

(***************************************************************************)
(* Arrays.                                                                 *)
(***************************************************************************)
Keyed == hp_map_of([i \in DOMAIN x |-> <<Str(<<96 + i>>), x[i]>>])
Backwards == hp_map_of(Reverse(Entries(Keyed)))

\* A sort moves whole pairs, leaves no value that is above its successor, and keeps
\* the order of equal values; with a callback that compares, usort does what sort does,
\* and a map sorted by its keys is the map built in that order (hp_sort_pairs,
\* hp_sort_with_fn, hp_arr_sort, hp_map_sort_by_key, hpbi_uksort).
SortSorts ==
  topic = "sorts" =>
    \A desc \in BOOLEAN :
      LET r == hp_sort_pairs(Keyed, "val", desc)
          Spot(k) == CHOOSE i \in DOMAIN r.keys : r.keys[i] = Str(<<96 + k>>)
          Out(v, w) == IF desc THEN hp_lt(v, w) ELSE hp_lt(w, v)
          cmp == [p \in Ways.sorts.x \X Ways.sorts.x |-> IntKey(hp_val_cmp(p[1], p[2]))]
          keys == {Str(<<96 + i>>) : i \in DOMAIN x}
          byKey == [p \in keys \X keys |-> IntKey(hp_val_cmp(p[1], p[2]))]
      IN  /\ \A k \in DOMAIN x : r.vals[Spot(k)] = x[k]
          /\ \A i, j \in DOMAIN x : i < j =>
               ~ Out(r.vals[i], r.vals[j])
          /\ \A i, j \in DOMAIN x : i < j /\ hp_val_eq(x[i], x[j]) => Spot(i) < Spot(j)
          /\ hpbi_usort(ListOf(x), cmp).vals = hp_arr_sort(ListOf(x)).vals
          /\ hp_ident_eq(Arr(hpbi_uasort(Keyed, cmp)), Arr(hp_sort_pairs(Keyed, "val", FALSE)))
          /\ Entries(hp_map_sort_by_key(Backwards)) = Entries(Keyed)
          /\ Entries(hpbi_uksort(Backwards, byKey)) = Entries(Keyed)
          /\ \A v \in Ways.sorts.x : hp_arr_in(hp_arr_rsort(ListOf(x)), v) <=> hp_arr_in(ListOf(x), v)

\* The set-like builtins agree: diff and intersect split an array between them, unique
\* keeps one of each, array_search finds what in_array sees; a map keeps one entry a
\* key with the last value, and array_merge, array_chunk, array_pad and reverse lose
\* nothing (hpbi_array_diff and the functions after it); taking off what was put on, cutting
\* and joining, and keys with values give the array back (hp_arr_shift, hp_arr_slice,
\* hp_arr_keys); the callbacks see every value once (hpbi_array_map, _filter, _reduce).
SetLaws ==
  topic = "arrays" =>
    LET a == ListOf(x)  b == ListOf(y)
        m == hpbi_array_combine(a, hp_range(1, Len(x)))
        chunks == hpbi_array_chunk(a, 2).vals
    IN  /\ Size(hpbi_array_diff(a, <<b>>)) + Size(hpbi_array_intersect(a, <<b>>)) = Len(x)
        /\ \A v \in Ways.arrays.x : hp_arr_in(a, v) <=> hpbi_array_search(v, a) # Truth(FALSE)
        /\ LET u == hp_arr_unique(a)
           IN  /\ \A i, j \in DOMAIN u.vals : i # j => ~ hp_val_eq(u.vals[i], u.vals[j])
               /\ \A i \in DOMAIN x : hp_arr_in(u, x[i])
        /\ \A i \in DOMAIN x : hp_arr_get(m, x[i]) = IntKey(CHOOSE k \in DOMAIN x : x[k] = x[i] /\ \A l \in (k + 1)..Len(x) : x[l] # x[i])
        /\ Size(m) = Cardinality({x[i] : i \in DOMAIN x})
        /\ LET seen == hp_val_iter(Arr(m))
           IN  /\ hp_map_of([i \in DOMAIN seen |-> <<seen[i].k, seen[i].v>>]) = m
               /\ x # <<>> => seen[1].v = hpbi_reset(m) /\ seen[Len(seen)].v = hpbi_end(m)
        /\ hp_ident_eq(FoldLeft(hp_arr_push_vv, Null, x), Arr(a)) <=> x # <<>>
        /\ x # <<>> => hpbi_array_flip(hpbi_array_flip(m)) = [m EXCEPT !.next = hpbi_array_flip(hpbi_array_flip(m)).next]
        /\ hpbi_array_merge(a, <<b>>).vals = x \o y
        /\ Flat([i \in DOMAIN chunks |-> chunks[i][2].vals]) = x
        /\ hp_arr_reverse(hp_arr_reverse(a)).vals = x
        /\ hpbi_array_pad(a, -5, Null).vals = Reverse(hpbi_array_pad(hp_arr_reverse(a), 5, Null).vals)

\* Taking off what was put on, cutting and joining, and keys with their values give an
\* array back; + and array_replace differ from array_merge only where keys meet; a column
\* is what was laid in the rows (hp_arr_shift, hp_arr_unshift, hp_arr_slice, hp_arr_keys,
\* hp_arr_merge, hpbi_array_replace, hpbi_array_fill, hpbi_array_column).
PartLaws ==
  topic = "arrays" =>
    LET a == ListOf(x)  b == ListOf(y)
        m == hpbi_array_combine(a, hp_range(1, Len(x)))
        k == Str(<<107>>)  v == Str(<<118>>)
        rows == ListOf([i \in DOMAIN x |-> Arr(hp_map_of(<< <<k, x[i]>>, <<v, IntKey(i)>> >>))])
    IN  /\ \A c \in {a, m} : /\ hp_arr_shift(hp_arr_unshift(c, Null)) = Null
                            /\ Entries(Shifted(hp_arr_unshift(c, Null))) = Entries(c)
        /\ \A n \in 0..Len(x) :
             /\ hpbi_array_slice(a, 0, IntKey(n)).vals \o hpbi_array_slice(a, n, Null).vals = x
             /\ n > 0 => hpbi_array_slice(a, -n, Null).vals = Cut(x, Len(x) - n, Len(x))
             /\ hpbi_array_splice(a, 0, n) = hpbi_array_slice(a, 0, IntKey(n))
        /\ Entries(hpbi_array_combine(hp_arr_keys(m), hp_arr_values(m))) = Entries(m)
        /\ hp_arr_merge(a, b) = hpbi_array_merge(a, <<b>>)
        /\ hpbi_array_replace(a, <<b>>).vals = y \o Cut(x, Least(Len(x), Len(y)), Len(x))
        /\ Entries(hpbi_array_replace(m, <<m>>)) = Entries(m)
        /\ Entries(hpbi_array_fill(0, Len(x), Null)) = Entries(hpbi_array_pad(Empty, Len(x), Null))
        /\ hpbi_array_fill_keys(a, Null) = hpbi_array_combine(a, hpbi_array_fill(0, Len(x), Null))
        /\ hpbi_array_column(rows, k, Null).vals = x
        /\ x # <<>> => /\ Entries(hpbi_array_column(rows, v, k)) = Entries(m)
                       /\ hpbi_array_key_first(m) = hp_val_iter(Arr(m))[1].k
                       /\ hpbi_array_key_last(m) = Last(hp_val_iter(Arr(m))).k

\* The sum and the product of a joined array are those of its parts, a callback sees
\* every value once: filter with a membership test is intersect, reduce with + is the
\* sum (hp_arr_sum, hpbi_array_product, hpbi_array_map, hpbi_array_filter, hpbi_array_reduce).
CallbackLaws ==
  topic = "arrays" =>
    LET a == ListOf(x)  b == ListOf(y)
        all == hpbi_array_merge(a, <<b>>)
        vals == Ways.arrays.x  spots == {IntKey(i) : i \in 0..4}
        isInB == [p \in vals \X spots |-> Truth(hp_arr_in(b, p[1]))]
        second == [p \in vals \X spots |-> p[2]]
        plus == [p \in {IntKey(n) : n \in 0..10} \X vals |-> IntKey(p[1][2] + hp_val_to_int(p[2]))]
    IN  /\ hp_arr_sum(all) = hp_add(hp_arr_sum(a), hp_arr_sum(b))
        /\ hpbi_array_product(all) = hp_mul(hpbi_array_product(a), hpbi_array_product(b))
        /\ hpbi_array_filter(a, isInB) = hpbi_array_intersect(a, <<b>>)
        /\ hpbi_array_map(second, all) = hp_arr_keys(all)
        /\ hpbi_array_reduce(all, plus, IntKey(0)) = hp_arr_sum(all)

(***************************************************************************)
(* Dates.                                                                  *)
(***************************************************************************)
\* checkdate accepts exactly the days of the calendar: those that mktime and localtime
\* give back unchanged; and such a day, printed by date("Y-m-d"), is read back to the
\* same second by strtotime (hpbi_checkdate, hpbi_date2, hpbi_strtotime).
CalendarAgrees ==
  topic = "dates" /\ x # <<>> /\ Len(y) = 2 =>
    LET t == mktime(x[1], y[1], y[2], 0, 0, 0)
        tm == localtime(t)
        same == tm.y = x[1] /\ tm.mo = y[1] /\ tm.d = y[2]
    IN  t >= 0 =>
          /\ hpbi_checkdate(y[1], y[2], x[1]) <=> same
          /\ hpbi_strtotime(hpbi_date2(<<89, 45, 109, 45, 100>>, t), 0) = t
          /\ hpbi_mktime(IntKey(tm.h), IntKey(tm.mi), IntKey(tm.s), IntKey(tm.mo), IntKey(tm.d), IntKey(tm.y))
               = IntKey(t)
(***************************************************************************)
(* The promises of the library by subject, of every call.                  *)
(***************************************************************************)
\* Text: searching, splitting, replacing, edit distance, wildcards, words and paths
\* (hpbi_explode, hpbi_levenshtein, wc_match, hpbi_wordwrap).
TextLaws == [][Invoke => SearchesAgree /\ DistanceIsEdits /\ WildcardsAgree /\ WordsAndPaths]_libVars

\* Regular expressions match what they denote, and replacing and splitting lose nothing
\* (rx_m, hpbi_preg_replace, hpbi_preg_split).
RegexRight == [][Invoke => RegexAgrees /\ ReplaceCovers]_libVars

\* A server that reads a request's lines up to the blank one and then as many bytes as
\* were announced gets the path and the body that were sent; the parts of the URL are those
\* the package manager sees; an answer without a status is none (http_perform, http_parse_url).
RequestsArrive ==
  topic = "addresses" =>
    LET body == [i \in DOMAIN x |-> <<"byte", x[i]>>]
        raw == [answered |-> TRUE, ended |-> TRUE, code |-> 200, headers |-> <<>>, body |-> x]
        u == http_parse_url(x)
        r == hpbi_http_post(x, body, <<<<"line", "X", "y">>>>, raw)
        head == Before(r.sent, First1(r.sent, BlankLine))
        sizes == SelectSeq(head, LAMBDA l : l[2] = "Content-Length")
    IN  /\ u.ok <=> r.got # NoAnswer
        /\ u.ok => /\ head[1] = <<"line", "POST", u.path>>
                   /\ After(r.sent, First1(r.sent, BlankLine)) = body
                   /\ sizes = <<<<"line", "Content-Length", Len(body)>>>>
                   /\ r.got.body = x
                   /\ hpbi_http_get(x, [raw EXCEPT !.code = 0]).got = NoAnswer
        /\ u.host # <<>> /\ First1(x, "/") # 0 =>
             url_parse(x) = [host |-> u.host, path |-> <<"/">> \o u.path, port |-> u.port]

RECURSIVE SqlLiteral(_)
SqlLiteral(s) ==                           \* what MySQL reads up to the closing quote, and the rest
  LET Meant(c) == CASE c = 48 -> 0 [] c = 110 -> 10 [] c = 114 -> 13 [] c = 90 -> 26 [] OTHER -> c
      k == IF Head(s) = 92 THEN 2 ELSE 1
      r == SqlLiteral(Cut(s, k, Len(s)))
  IN  CASE s = <<>> -> <<<<>>, <<>>>>
        [] s # <<>> /\ Head(s) = 39 -> <<<<>>, Tail(s)>>
        [] OTHER -> <<<<IF k = 2 THEN Meant(s[2]) ELSE s[1]>> \o r[1], r[2]>>

SameButNuls(s, t) == \A i \in 1..(Len(s) + Len(t)) :
  (IF i > Len(s) THEN 0 ELSE s[i]) = (IF i > Len(t) THEN 0 ELSE t[i])

\* A password is accepted by the hash of itself and of those up to the block size that differ
\* from it in NULs behind them only, and by no other's; an escaped text,
\* put between quotes, is one SQL literal with the text's bytes: its end is the quote
\* behind it (hpbi_password_hash, hpbi_password_verify, hpbi_mysql_escape).
SecretsAndLiterals ==
  topic = "bytes" =>
    /\ \A salt \in {<<0, 0, 0, 0>>, <<1, 2, 3, 255>>} :
         hpbi_password_verify(y, hpbi_password_hash(x, salt)) <=>
           x = y \/ (Len(x) <= BlockSize /\ Len(y) <= BlockSize /\ SameButNuls(x, y))
    /\ hpbi_password_verify(x, hpbi_password_hash(x, <<255, 0, 7, 9>>))
    /\ SqlLiteral(hpbi_mysql_escape(x) \o <<39>> \o y) = <<x, y>>

RECURSIVE LinesFrom(_), PiecesFrom(_)
LinesFrom(f) == LET r == hpbi_fgets(f) IN IF ~ r.more THEN <<>> ELSE <<r.line>> \o LinesFrom(r.file)
PiecesFrom(f) == IF hpbi_feof(f) THEN <<>> ELSE LET r == hpbi_fread(f, 2) IN <<r.line>> \o PiecesFrom(r.file)

\* Every line of a file is read once, without its end, up to a NUL, and the end of the
\* file is known only when a read has met it; pieces that are read, put together, are
\* the file, and so are pieces that are written; a handle closed is the next one given
\* out, unless a lower one is free (hpbi_fgets, hpbi_feof, hpbi_fread, hpbi_fwrite,
\* hpbi_file_put_contents, hpbi_fopen).
FilesReadBack ==
  topic = "files" =>
    LET file == hpbi_fwrite(Opened(<<>>), x)
        parts == hpbi_explode(<<10>>, x)
        lines == IF parts[Len(parts)] = <<>> THEN SubSeq(parts, 1, Len(parts) - 1) ELSE parts
        pieces == PiecesFrom(file)
        Busy(n) == [i \in 1..(SlotLimit - 1) |-> i <= n]
    IN  /\ LinesFrom(file) = [i \in DOMAIN lines |-> RightOf(hp_str_lit(lines[i]), EndOfLine)]
        /\ hpbi_file_get_contents(Flat(pieces)) = x
        /\ hpbi_file_put_contents(x, pieces, FALSE) = x /\ hpbi_file_put_contents(x, pieces, TRUE) = x \o x
        /\ x # <<>> => ~ hpbi_feof(hpbi_fread(file, Len(x)).file)
        /\ \A n \in 0..(SlotLimit - 1) : \A fh \in 0..SlotLimit :
             LET new == hpbi_fopen(hpbi_fclose(Busy(n), fh))
             IN  file_ok(Busy(n), fh) => new = fh

PackageTexts == IndexReadsBack /\ ArchivesUnpack /\ ManifestsAccepted /\ AddressesParse

\* What is encoded is decoded again: base64, hex, URLs, HTML, queries, JSON, and the
\* package manager's files (hp_b64_encode, hpbi_urlencode, hpbi_http_build_query,
\* hbuf_json_r, pkg_registry_add, pkg_pack_dir and their inverses).
RoundTrips == [][Invoke => EncodingsRoundTrip /\ QueryRoundTrips /\ JsonRoundTrips
                          /\ PackageTexts /\ SecretsAndLiterals /\ FilesReadBack /\ RequestsArrive]_libVars

\* Numbers: division, powers, printing, rounding, and the calendar
\* (hp_mod, hp_pow_i, hpbi_sprintf, hpbi_round, hpbi_checkdate).
Arithmetic == [][Invoke => DivisionAndPower /\ PrintedNumbers /\ CalendarAgrees]_libVars

\* Comparing, sorting and the set-like array builtins agree with one another
\* (hp_val_cmp, hp_str_is_numeric, hp_sort_pairs, hpbi_array_diff).
OrderAndArrays == [][Invoke => OrderConsistent /\ NumericStrings /\ SortSorts /\ SetLaws /\ PartLaws /\ CallbackLaws]_libVars
=============================================================================
