-------------------------------- MODULE Mysql ------------------------------
(***************************************************************************)
(* The MySQL client of hphp_std.c: one connection, its handshake and its   *)
(* queries, packet by packet.  A packet is its first byte, what the client *)
(* reads after it and the number of the query it answers.  The server is   *)
(* taken from the protocol the code speaks; it may be gone at any moment.  *)
(***************************************************************************)
EXTENDS Integers, SequencesExt

CONSTANTS
  Texts,        \* the values of a column that are not NULL
  MaxColumns,   \* bound on the columns of a row
  MaxCells,     \* bound on the columns of all rows of an answer
  MaxQueries    \* bound on the queries sent
\* The lengths are those that fit into one byte before a text and before the columns.
ASSUME MysqlAssumption ==
  /\ MaxQueries \in Nat /\ MaxCells \in Nat /\ MaxColumns \in 1..250
  /\ \A text \in Texts : text \in Seq(0..255) /\ Len(text) \in 0..250

VARIABLES
  stage,        \* what the client waits for
  inbox,        \* packets the server has sent and the client has not read
  lost,         \* the server has gone
  result,       \* the query being answered, or the last one
  asked,        \* how many queries were sent
  sent          \* query -> the rows the server has answered with
mysqlVars == <<stage, inbox, lost, result, asked, sent>>

(***************************************************************************)
(* Length-encoded integers and rows.                                       *)
(***************************************************************************)
LittleEndian(v, n) == [i \in 1..n |-> (v \div (256 ^ (i - 1))) % 256]
FromLittle(s) == FoldSeq(LAMBDA b, v : (256 * v) + b, 0, Reverse(s))

my_lenc_put(v) == IF v < 251 THEN <<v>>
                  ELSE IF v <= 65535 THEN <<252>> \o LittleEndian(v, 2) ELSE <<254>> \o LittleEndian(v, 8)
my_lenc_str(s) == my_lenc_put(Len(s)) \o s

\* The value and the bytes behind it; 251 (NULL) and 255 give 0.
my_lenc_int(s) ==
  LET b == Head(s)
      n == CASE b = 252 -> 2 [] b = 253 -> 3 [] b = 254 -> 8 [] OTHER -> 0
  IN  [value |-> IF b < 251 THEN b ELSE FromLittle(SubSeq(s, 2, 1 + n)), rest |-> SubSeq(s, 2 + n, Len(s))]

Null == <<-1>>                          \* no byte: the NULL of SQL
Values == {Null} \cup Texts
Cell(v) == IF v = Null THEN <<251>> ELSE my_lenc_str(v)
Encoded(row) ==
  LET tail[k \in 0..Len(row)] ==
        IF k = 0 THEN <<>> ELSE Cell(row[Len(row) + 1 - k]) \o tail[k - 1]
  IN  tail[Len(row)]

\* The next column is cut off the packet; NULL is looked for behind the length.
NextColumn(r) ==
  LET l == my_lenc_int(r.rest)
  IN  IF r.rest = <<>> THEN r
      ELSE IF l.value = 0 /\ l.rest # <<>> /\ Head(l.rest) = 251
      THEN [columns |-> Append(r.columns, Null), rest |-> Tail(l.rest)]
      ELSE [columns |-> Append(r.columns, SubSeq(l.rest, 1, l.value)),
            rest |-> SubSeq(l.rest, l.value + 1, Len(l.rest))]

\* The n columns of a row as the client takes them apart.
Columns(bytes, n) ==
  LET taken[k \in 0..n] ==
        IF k = 0 THEN [columns |-> <<>>, rest |-> bytes] ELSE NextColumn(taken[k - 1])
  IN  taken[n].columns

\* Every column has the name "", so a row's map holds its last column.
RowMap(columns) == IF columns = <<>> THEN <<>> ELSE <<Last(columns)>>

(***************************************************************************)
(* The server.                                                             *)
(***************************************************************************)
Ok == 0
Err == 255
Eof == 254
Packet(q, first, body) == [query |-> q, first |-> first, body |-> body]
Rows == UNION {UNION {[1..n -> [1..w -> Values]] : n \in 0..(MaxCells \div w)} : w \in 1..MaxColumns}
Width(rows) == IF rows = <<>> THEN 1 ELSE Len(rows[1])
ResultSet(q, rows) ==
  <<Packet(q, Width(rows), <<>>)>> \o [i \in 1..Width(rows) |-> Packet(q, 3, <<>>)] \o <<Packet(q, Eof, <<>>)>>
  \o [i \in DOMAIN rows |-> Packet(q, Head(Encoded(rows[i])), Encoded(rows[i]))] \o <<Packet(q, Eof, <<>>)>>

\* A query is answered with its rows, with a count or with an error.
Answers(q) == {[rows |-> rows, packets |-> ResultSet(q, rows)] : rows \in Rows}
              \cup {[rows |-> <<>>, packets |-> <<Packet(q, first, <<>>)>>] : first \in {Ok, Err}}

Gone == /\ ~ lost /\ stage # "none" /\ lost' = TRUE
        /\ \E n \in 0..Len(inbox) : inbox' = SubSeq(inbox, 1, n)
        /\ UNCHANGED <<stage, result, asked, sent>>

(***************************************************************************)
(* The client.                                                             *)
(***************************************************************************)
Fresh(q) == [query |-> q, kind |-> "false", rows |-> <<>>, from |-> {}, left |-> 0, width |-> 0]
MysqlInit == /\ stage = "none" /\ inbox = <<>> /\ lost = FALSE /\ result = Fresh(0) /\ asked = 0 /\ sent = <<>>

mysql_connect == /\ stage = "none" /\ ~ lost
                 /\ stage' = "greeting" /\ inbox' = <<Packet(0, 10, <<>>)>>
                 /\ UNCHANGED <<lost, result, asked, sent>>

\* Reading needs a packet; without one it waits, or fails when the server has gone.
Reads(wanted) == stage = wanted /\ inbox # <<>> /\ inbox' = Tail(inbox) /\ UNCHANGED <<lost, asked, sent>>
Packet1 == Head(inbox)

\* The response is answered with OK, an error or a request for another method, which is
\* refused; after a refusal the socket is never closed.
Greeting == /\ stage = "greeting" /\ inbox # <<>>
            /\ \E first \in {Ok, Err, Eof} : inbox' = <<Packet(0, first, <<>>)>>
            /\ stage' = "login" /\ UNCHANGED <<lost, result, asked, sent>>
Login == /\ Reads("login")
         /\ stage' = IF Packet1.first = Ok THEN "ready" ELSE "closed"
         /\ UNCHANGED result

mysql_query ==
  /\ stage = "ready" /\ asked < MaxQueries /\ asked' = asked + 1
  /\ IF lost THEN result' = Fresh(asked') /\ sent' = Append(sent, <<>>) /\ UNCHANGED <<stage, inbox>>
     ELSE \E a \in Answers(asked') :
            /\ inbox' = inbox \o a.packets /\ sent' = Append(sent, a.rows)
            /\ result' = Fresh(asked') /\ stage' = "first"
  /\ UNCHANGED lost

Took(r) == [r EXCEPT !.from = @ \cup {Packet1.query}]
Row1(r) == [r EXCEPT !.rows = Append(@, RowMap(Columns(Packet1.body, r.width)))]
Counted == IF Packet1.first < 251 THEN Packet1.first ELSE 0

First ==
  /\ Reads("first")
  /\ CASE Packet1.first = Err -> result' = Took(result) /\ stage' = "ready"
       [] Packet1.first \in {Ok, Eof} -> result' = [Took(result) EXCEPT !.kind = "count"] /\ stage' = "ready"
       [] OTHER -> /\ result' = [Took(result) EXCEPT !.left = Counted, !.width = Counted]
                   /\ stage' = IF Counted = 0 THEN "eof" ELSE "defs"

SlipDefs == /\ Reads("defs")
            /\ result' = [Took(result) EXCEPT !.left = @ - 1]
            /\ stage' = "eof"
Defs == /\ Reads("defs")
        /\ result' = [Took(result) EXCEPT !.left = @ - 1]
        /\ stage' = IF result.left = 1 THEN "eof" ELSE "defs"

\* Without an end-of-file packet the packet is the first row.
AfterDefs == /\ Reads("eof")
             /\ result' = IF Packet1.first = Eof THEN Took(result) ELSE Row1(Took(result))
             /\ stage' = "rows"

\* A packet that begins like OK ends the rows, an empty first column too.
NextRow == /\ Reads("rows")
           /\ IF Packet1.first \in {Ok, Eof}
              THEN result' = [Took(result) EXCEPT !.kind = "rows"] /\ stage' = "ready"
              ELSE result' = Row1(Took(result)) /\ stage' = "rows"

\* The rows read so far are the answer when the connection ends among them.
ReadFails == /\ lost /\ inbox = <<>> /\ stage \in {"greeting", "login", "first", "defs", "eof", "rows"}
             /\ stage' = IF stage \in {"greeting", "login"} THEN "closed" ELSE "ready"
             /\ result' = IF stage \in {"eof", "rows"} THEN [result EXCEPT !.kind = "rows"] ELSE result
             /\ UNCHANGED <<inbox, lost, asked, sent>>

mysql_close == stage = "ready" /\ stage' = "closed" /\ UNCHANGED <<inbox, lost, result, asked, sent>>

MysqlNext == mysql_connect \/ Greeting \/ Login \/ mysql_query \/ First \/ Defs \/ AfterDefs \/ NextRow
             \/ ReadFails \/ mysql_close \/ Gone
MysqlSpec == MysqlInit /\ [][MysqlNext]_mysqlVars

(***************************************************************************)
(* Properties.                                                             *)
(***************************************************************************)
Skewed == \E q \in DOMAIN sent : \E i \in DOMAIN sent[q] : Head(sent[q][i]) = <<>>
Answered == stage = "ready" /\ asked > 0 /\ result.kind # "false"

\* A query is answered from packets sent for it alone, as long as no row on the connection
\* began with an empty column (mysql_query_impl's end of the rows).
InStep == Answered /\ ~ Skewed => result.from = {result.query}

\* The rows a query gives are those the server sent, each by its last column, unless the
\* server went away or a column was empty or NULL (my_lenc_int, the loop over columns).
Plain(rows) == \A i \in DOMAIN rows : \A c \in DOMAIN rows[i] : rows[i][c] \notin {Null, <<>>}
RowsRead == Answered /\ result.kind = "rows" /\ ~ lost /\ (\A q \in DOMAIN sent : Plain(sent[q])) =>
              result.rows = [i \in DOMAIN sent[asked] |-> <<Last(sent[asked][i])>>]

\* Answers belong to their query and rows are those of the server (mysql_query_impl).
AnswersTrue == InStep /\ RowsRead
=============================================================================
