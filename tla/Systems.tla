------------------------------ MODULE Systems ------------------------------
(***************************************************************************)
(* What deals with files, other processes, peers and the C stack, checked  *)
(* in one run: packages, builds, imports, sockets, the MySQL client,       *)
(* exceptions, the WebSocket server and the index of a map.  They share no *)
(* state, so a behaviour is of one of them; the others rest.               *)
(***************************************************************************)
EXTENDS Packages, Build, Imports, Sockets, Mysql, Unwind, WebSocket, HashMap

VARIABLE part       \* the component the behaviour is of

sysVars == <<pkgVars, buildVars, impVars, sockVars, mysqlVars, unwindVars, wsVars, hashVars, part>>

\* Hashes of keys in two clusters, the second one wrapping around the end of the index.
MCHash == [k \in 0..MaxKey |-> IF k % 2 = 0 THEN 0 ELSE 7]

\* An empty text and two others.
MCTexts == {<<>>, <<120>>, <<121, 122>>}

SysInit ==
  /\ part \in {"packages", "build", "imports", "sockets", "mysql", "unwind", "websocket", "map"}
  /\ PkgInit /\ BuildInit /\ SockInit /\ MysqlInit /\ UnwindInit /\ WsInit /\ HashInit
  /\ IF part = "imports" THEN ImpInit ELSE project = (FileOf(Main) :> <<>>) /\ loaded = Nothing

SysNext ==
  /\ UNCHANGED part
  /\ \/ /\ part = "packages" /\ PkgNext
        /\ UNCHANGED <<buildVars, impVars, sockVars, mysqlVars, unwindVars, wsVars, hashVars>>
     \/ /\ part = "build" /\ BuildNext
        /\ UNCHANGED <<pkgVars, impVars, sockVars, mysqlVars, unwindVars, wsVars, hashVars>>
     \/ /\ part = "imports" /\ ImpNext
        /\ UNCHANGED <<pkgVars, buildVars, sockVars, mysqlVars, unwindVars, wsVars, hashVars>>
     \/ /\ part = "sockets" /\ SockNext
        /\ UNCHANGED <<pkgVars, buildVars, impVars, mysqlVars, unwindVars, wsVars, hashVars>>
     \/ /\ part = "mysql" /\ MysqlNext
        /\ UNCHANGED <<pkgVars, buildVars, impVars, sockVars, unwindVars, wsVars, hashVars>>
     \/ /\ part = "unwind" /\ UnwindNext
        /\ UNCHANGED <<pkgVars, buildVars, impVars, sockVars, mysqlVars, wsVars, hashVars>>
     \/ /\ part = "websocket" /\ WsNext
        /\ UNCHANGED <<pkgVars, buildVars, impVars, sockVars, mysqlVars, unwindVars, hashVars>>
     \/ /\ part = "map" /\ HashNext
        /\ UNCHANGED <<pkgVars, buildVars, impVars, sockVars, mysqlVars, unwindVars, wsVars>>

SysSpec == SysInit /\ [][SysNext]_sysVars
=============================================================================
