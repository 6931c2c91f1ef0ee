------------------------------ MODULE Exchange ------------------------------
(***************************************************************************)
(* Texts that one run of a program writes and another one reads: the       *)
(* package manager's hphp.json, registry.json, .hpx archives, registry     *)
(* address and answers (pkgcore.c, pkgnet.c, the pkg commands of main.c),  *)
(* and the runtime's HTTP client, files, passwords and SQL literals        *)
(* (hphp_std.c).  A JSON text is a sequence of marks and quoted strings    *)
(* without escapes, an archive one of headers and bytes; a letter of a     *)
(* name may stand for a whole word in lower case.  Sizes of the fixed      *)
(* buffers are left out.                                                   *)
(***************************************************************************)
EXTENDS Formats

Nowhere == <<"NULL">>                        \* a null pointer
Fatal1 == <<"fatal">>                        \* the process ends with a message

(***************************************************************************)
(* Flat JSON.                                                              *)
(***************************************************************************)
InQuotes(s) == <<"quoted", s>>
Mark1(m) == <<"mark", m>>
Key1(word) == InQuotes(<<word>>)
Object(pairs) ==
  <<Mark1("{")>> \o Flat([i \in DOMAIN pairs |-> <<InQuotes(pairs[i][1]), Mark1(":"), InQuotes(pairs[i][2])>>
                                                 \o IF i < Len(pairs) THEN <<Mark1(",")>> ELSE <<>>])
                 \o <<Mark1("}")>>

\* The string behind the first place where the key stands in quotes, whatever it is there.
json_get_str(js, key) ==
  LET k == First1(js, Key1(key))
      p == IF k < Len(js) /\ js[k + 1] = Mark1(":") THEN k + 2 ELSE k + 1
  IN  IF k # 0 /\ p <= Len(js) /\ js[p][1] = "quoted" THEN js[p][2] ELSE Nowhere

(***************************************************************************)
(* Manifests.                                                              *)
(***************************************************************************)
LowerCase == {"a", "b", "version", "mypkg"}
LowerOf(c) == IF c = "A" THEN "a" ELSE c
NameLetters == LowerCase \cup {"7", "_"}
pkg_name_ok(s) == s # <<>> /\ \A i \in DOMAIN s : s[i] \in NameLetters

\* The directory's name without what no name may hold.
SafeName(base) == LET kept == SelectSeq([i \in DOMAIN base |-> LowerOf(base[i])], LAMBDA c : c \in NameLetters)
                  IN  IF kept = <<>> THEN <<"mypkg">> ELSE kept

pkg_cmd_init(base, forced) ==
  LET name == IF forced = Nowhere THEN SafeName(base) ELSE forced
  IN  IF ~ pkg_name_ok(name) THEN Fatal1
      ELSE Object(<< <<<<"name">>, name>>, <<<<"version">>, <<"0.1.0">>>>, <<<<"entry">>, name \o <<".hphp">>>>,
                     <<<<"description">>, <<"A HolyPHP package.">>>>, <<<<"author">>, <<>>>> >>)

Rejected == [name |-> Nowhere, version |-> Nowhere, entry |-> Nowhere]
pkg_manifest_parse(js) ==
  LET name == json_get_str(js, "name")  version == json_get_str(js, "version")  entry == json_get_str(js, "entry")
  IN  IF js = <<>> \/ name = Nowhere \/ ~ pkg_name_ok(name) \/ version \in {Nowhere, <<>>} THEN Rejected
      ELSE [name |-> name, version |-> version, entry |-> IF entry = Nowhere THEN name \o <<".hphp">> ELSE entry]

(***************************************************************************)
(* registry.json.                                                          *)
(***************************************************************************)
\* The search goes on behind each "name" in quotes, also one that is a value.
pkg_registry_read(js) ==
  LET From[p \in 1..(Len(js) + 1)] ==
        LET rest == SubSeq(js, p, Len(js))
            k    == First1(rest, Key1("name"))
            here == SubSeq(rest, k, Len(rest))
            v    == json_get_str(here, "version")
        IN  IF k = 0 \/ json_get_str(here, "name") = Nowhere THEN <<>>
            ELSE << <<json_get_str(here, "name"), IF v = Nowhere THEN <<>> ELSE v>> >> \o From[p + k]
  IN  From[1]

\* The rows as they are written; n of them were there before, which decides the commas.
RowsText(rows, n) ==
  Flat([i \in DOMAIN rows |-> Object(<< <<<<"name">>, rows[i][1]>>, <<<<"version">>, rows[i][2]>> >>)
                              \o IF i < n THEN <<Mark1(",")>> ELSE <<>>])
Listed(body) == <<Mark1("[")>> \o body \o <<Mark1("]")>>

pkg_registry_add(js, name, version) ==
  LET rows == pkg_registry_read(js)
      kept == [i \in DOMAIN rows |-> IF rows[i][1] = name THEN <<name, version>> ELSE rows[i]]
      new  == Object(<< <<<<"name">>, name>>, <<<<"version">>, version>> >>)
  IN  Listed(RowsText(kept, Len(rows)) \o
             CASE \E i \in DOMAIN rows : rows[i][1] = name -> <<>>
               [] OTHER -> new \o IF rows = <<>> THEN <<>> ELSE <<Mark1(",")>>)

pkg_registry_remove(js, name) ==
  LET rows == pkg_registry_read(js)
  IN  Listed(RowsText(SelectSeq(rows, LAMBDA r : r[1] # name), Len(rows)))

pkg_installed_version(js, name) ==
  LET hits == SelectSeq(pkg_registry_read(js), LAMBDA r : r[1] = name)
  IN  IF hits = <<>> THEN Nowhere ELSE hits[1][2]

(***************************************************************************)
(* Archives.  A file's data may hold anything, also what looks like a      *)
(* header; names hold no blank.                                            *)
(***************************************************************************)
Header(name, size) == <<"file", name, size>>
Terminator == <<"HPHX1">>
Escaping(name) == name \in {"/f", "../f"}

\* files: names and data.
pkg_pack_dir(files) ==
  Flat([i \in DOMAIN files |-> <<Header(files[i][1], Len(files[i][2]))>> \o files[i][2]]) \o <<Terminator>>

\* A file that is not there to its end, and what follows it, is not unpacked.
pkg_extract(a) ==
  LET N == Len(a)
      From[p \in 1..(N + 1)] ==
        CASE p > N \/ (p <= N /\ a[p][1] # "file") -> <<>>
          [] OTHER -> IF p + a[p][3] > N THEN <<>>
                      ELSE (IF Escaping(a[p][2]) THEN <<>> ELSE << <<a[p][2], SubSeq(a, p + 1, p + a[p][3])>> >>)
                           \o From[p + a[p][3] + 1]
  IN  From[1]

\* The names, also of a file that is cut short.
pkg_list_entries(a) ==
  LET N == Len(a)
      From[p \in 1..(N + 1)] ==
        CASE p > N \/ (p <= N /\ a[p][1] # "file") -> <<>>
          [] OTHER -> <<a[p][2]>> \o IF p + a[p][3] > N THEN <<>> ELSE From[p + a[p][3] + 1]
  IN  From[1]

(***************************************************************************)
(* The registry's address and its answers.                                 *)
(***************************************************************************)
\* Of what stands behind http://: host, port and path; one without a host is refused.
url_parse(s) ==
  LET slash == First1(s, "/")  colon == First1(s, ":")
      ported == colon # 0 /\ (slash = 0 \/ colon < slash)
      host == IF slash # 0 /\ ported THEN Before(s, colon) ELSE Before(s, slash)
  IN  [host |-> host,
       port |-> IF ported THEN After(Before(s, slash), colon) ELSE <<"80">>,
       path |-> IF slash = 0 THEN <<"/">> ELSE SubSeq(s, slash, Len(s))]

\* registry_url as it is read: blanks at both ends are dropped; "http://" is one letter.
pkg_registry_url(file) == LET s == LeftOf(RightOf(file, {" ", "\n"}), {" "}) IN IF s = <<>> THEN Nowhere ELSE s
pkg_cmd_registry(url) == IF url # <<>> /\ url[1] = "http://" THEN url ELSE Fatal1
pkg_registry_url_or_default(env, file) ==
  CASE env \notin {Nowhere, <<>>} -> env
    [] OTHER -> IF pkg_registry_url(file) # Nowhere THEN pkg_registry_url(file) ELSE <<"default">>

\* An answer: status, whether a blank line ends its headers, the length they announce (or
\* -1) and whether a blank stands before it, and what has come of the body.  The reader
\* steps over one byte before the digits.
http_request(answer) ==
  LET digits == Decimal(answer.length)
      want == IF answer.gap THEN answer.length ELSE Number10(After(digits, 1))
      body == answer.body
  IN  CASE ~ answer.ended -> Nowhere
        [] answer.length < 0 -> body
        [] OTHER -> SubSeq(body, 1, Least(want, Len(body)))

\* The length handed on is that of the text: an archive ends at its first NUL.
pkgnet_get(answer) == LET body == http_request(answer) IN IF body = Nowhere THEN body ELSE Before(body, First1(body, "NUL"))
pkgnet_post(answer) == http_request(answer)

(***************************************************************************)
(* The runtime's HTTP client.  A request is a sequence of lines and then   *)
(* the body, an answer has a status line, headers and a body.              *)
(***************************************************************************)
NoAnswer == [status |-> 0, body |-> Nowhere, contentType |-> Nowhere]     \* false

\* What stands behind http://; a host may not be empty.
http_parse_url(s) ==
  LET slash == First1(s, "/")  host == Before(s, slash)  colon == First1(host, ":")
  IN  [ok |-> host # <<>>, host |-> Before(host, colon),
       port |-> IF colon = 0 THEN <<"80">> ELSE After(host, colon), path |-> After(s, slash)]

BlankLine == <<"line">>
RequestText(u, method, body, hdrs) ==
  <<<<"line", method, u.path>>, <<"line", "Host", u.host>>, <<"line", "Connection", "close">>>> \o hdrs
  \o IF body = <<>> THEN <<BlankLine>> ELSE <<<<"line", "Content-Length", Len(body)>>, BlankLine>> \o body

\* raw: whether the host answered and a blank line was found, the status line's number,
\* the headers (a name and the rest of the line) and the body, which ends at its first
\* NUL.  The last Content-Type counts, with the blank before it.
http_perform(u, method, body, hdrs, raw) ==
  LET types == SelectSeq(raw.headers, LAMBDA h : h[1] = "Content-Type")
  IN  [sent |-> RequestText(u, method, body, hdrs),
       got  |-> IF ~ raw.answered \/ ~ raw.ended \/ raw.code = 0 THEN NoAnswer
                ELSE [status |-> raw.code, body |-> Before(raw.body, First1(raw.body, "NUL")),
                      contentType |-> IF types = <<>> THEN <<>> ELSE types[Len(types)][2]]]

hpbi_http_request(url, method, body, hdrs, raw) ==
  IF ~ http_parse_url(url).ok THEN [sent |-> <<>>, got |-> NoAnswer]
  ELSE http_perform(http_parse_url(url), IF method = "" THEN "GET" ELSE method, body, hdrs, raw)
hpbi_http_get(url, raw) == hpbi_http_request(url, "GET", <<>>, <<>>, raw)
hpbi_http_post(url, body, hdrs, raw) == hpbi_http_request(url, "POST", body, hdrs, raw)

(***************************************************************************)
(* Files by handle.  A file is its bytes; a reader is a position and       *)
(* whether a read has met the end.  The byte 0 ends a line that is read.   *)
(***************************************************************************)
SlotLimit == 4                               \* HP_MAX_FILES: handles are 1..SlotLimit - 1
Opened(data) == [data |-> data, pos |-> 0, eof |-> FALSE]
hpbi_fopen(slots) == LET free == {i \in DOMAIN slots : ~ slots[i]}
                     IN  IF free = {} THEN 0 ELSE CHOOSE i \in free : \A j \in free : i <= j
file_ok(slots, fh) == fh \in DOMAIN slots /\ slots[fh]
hpbi_fclose(slots, fh) == IF file_ok(slots, fh) THEN [slots EXCEPT ![fh] = FALSE] ELSE slots

\* What is read, and the file behind it.
EndOfLine == {10, 13}
hpbi_fgets(f) ==
  LET rest == Cut(f.data, f.pos, Len(f.data))
      nl == First1(rest, 10)
      line == IF nl = 0 THEN rest ELSE SubSeq(rest, 1, nl)
  IN  [more |-> rest # <<>>, line |-> RightOf(hp_str_lit(line), EndOfLine),
       file |-> [f EXCEPT !.pos = @ + Len(line), !.eof = @ \/ nl = 0]]
hpbi_fread(f, want) ==
  LET got == IF want <= 0 THEN <<>> ELSE Cut(f.data, f.pos, Least(f.pos + want, Len(f.data)))
  IN  [line |-> got, file |-> [f EXCEPT !.pos = @ + Len(got), !.eof = @ \/ Len(got) < want]]
hpbi_feof(f) == f.eof
hpbi_fwrite(f, s) == [f EXCEPT !.data = @ \o s]

\* flags & 8 appends; an array is written piece by piece.
hpbi_file_put_contents(old, pieces, append) == (IF append THEN old ELSE <<>>) \o Flat(pieces)
hpbi_file_get_contents(data) == data

(***************************************************************************)
(* Passwords and SQL literals.  The key derivation is any function that    *)
(* keeps keys apart, the password being the key of its HMAC; SaltSize is   *)
(* 16 and BlockSize 64 in the code.                                        *)
(***************************************************************************)
SaltSize == 4
BlockSize == 2
\* A short key is filled up with zeros, a longer one hashed, which keeps it apart.
HmacKey(key) == IF Len(key) > BlockSize THEN key ELSE key \o [i \in 1..(BlockSize - Len(key)) |-> 0]
hp_pbkdf2_sha256(pw, salt, rounds) == <<rounds>> \o salt \o HmacKey(pw)
hpbi_password_hash(pw, salt) ==
  << <<"$hphp$">>, 64, hp_b64_encode(salt), hp_b64_encode(hp_pbkdf2_sha256(pw, salt, 64)) >>

\* The salt is read back in groups of four characters, up to a broken one.
DecodedSalt(text) ==
  LET groups == Len(text) \div 4
      V(i) == IF b64_val(text[i]) < 0 THEN 0 ELSE b64_val(text[i])
      Broken(g) == b64_val(text[(4 * g) - 3]) < 0 \/ b64_val(text[(4 * g) - 2]) < 0
      Bits24(g) == (262144 * V((4 * g) - 3)) + (4096 * V((4 * g) - 2)) + (64 * V((4 * g) - 1)) + V(4 * g)
      Salt(o) == LET g == (o \div 3) + 1
                 IN  IF g > groups \/ (\E h \in 1..Least(g, groups) : Broken(h)) THEN 0
                     ELSE (Bits24(g) \div (256 ^ (2 - (o % 3)))) % 256
  IN  [i \in 1..SaltSize |-> Salt(i - 1)]
hp_ct_eq(a, b) == \A i \in DOMAIN a : a[i] = b[i]
hpbi_hash_equals(a, b) == Len(a) = Len(b) /\ hp_ct_eq(a, b)
hpbi_password_verify(pw, hash) ==
  hpbi_hash_equals(hp_b64_encode(hp_pbkdf2_sha256(pw, DecodedSalt(hash[3]), hash[2])), hash[4])

hpbi_mysql_escape(s) ==
  LET Char(c) == CASE c \in {34, 39, 92} -> <<92, c>> [] c = 0 -> <<92, 48>> [] c = 10 -> <<92, 110>>
                   [] c = 13 -> <<92, 114>> [] c = 26 -> <<92, 90>> [] OTHER -> <<c>>
  IN  Flat([i \in DOMAIN s |-> Char(s[i])])
=============================================================================
