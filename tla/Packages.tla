------------------------------ MODULE Packages -----------------------------
(***************************************************************************)
(* The package manager's disk: pkg_install_file, pkg_install_registry,     *)
(* pkg_install_embedded and pkg_cmd_remove of main.c over pkgcore.c.  A    *)
(* directory is a function from file to content, the content of a file the *)
(* package and version it comes from.  Every file operation is a step of   *)
(* its own; a command may be killed between any two.                       *)
(***************************************************************************)
EXTENDS Integers, Sequences, FiniteSets

CONSTANTS
  PkgNames, PkgVersions,      \* packages and their versions, numbers from 1 on
  Commands,                   \* processes that run a command
  Overlap,                    \* whether two commands may run at the same time
  Images                      \* whether packages hold a file with a NUL byte
ASSUME PackagesAssumption == PkgVersions \subseteq Nat \ {0} /\ {Overlap, Images} \subseteq BOOLEAN

VARIABLES
  packages,     \* name -> its directory under packages/
  index,        \* registry.json: the rows, name and version; their order is layout
  staging,      \* cache/.tmp-install
  cmd,          \* process -> [at, ...]: the next file operation and what it needs
  torn          \* names whose last command did not finish
pkgVars == <<packages, index, staging, cmd, torn>>

Files == {"hphp.json", "entry", "image"}
Absent == <<>>
NoFiles == [f \in Files |-> Absent]
Idle == [at |-> "idle"]

(***************************************************************************)
(* Archives: the files in the order the directory gave them.               *)
(***************************************************************************)
Entry(f, n, v) == [file |-> f, from |-> <<n, v>>]

\* pkg_pack_dir of a project: whatever files it has; their order matters when a body is cut.
Orders(S) == {s \in [1..Cardinality(S) -> S] : \A i, j \in DOMAIN s : i # j => s[i] # s[j]}
pkg_pack_dir(n, v, files) ==
  {[i \in DOMAIN s |-> Entry(s[i], n, v)] : s \in IF Images THEN Orders(files) ELSE {CHOOSE s \in Orders(files) : TRUE}}

FileSets == {{"hphp.json"}, {"hphp.json", "entry"}}
            \cup IF Images THEN {{"hphp.json", "entry", "image"}} ELSE {}
Archives == [m \in PkgNames \X PkgVersions |-> UNION {pkg_pack_dir(m[1], m[2], files) : files \in FileSets}]

\* pkgnet_get and pkg_cmd_publish measure a body with strlen: it ends at the first NUL.
pkgnet_get(a) == LET cut == {i \in DOMAIN a : a[i].file = "image"}
                 IN  IF cut = {} THEN a ELSE SubSeq(a, 1, (CHOOSE i \in cut : TRUE) - 1)

Unpacked(a, f) == a[CHOOSE i \in DOMAIN a : a[i].file = f].from
Has(a, f) == \E i \in DOMAIN a : a[i].file = f

\* pkg_extract writes over what is there.
pkg_extract(a, dir) == [f \in Files |-> IF Has(a, f) THEN Unpacked(a, f) ELSE dir[f]]

(***************************************************************************)
(* registry.json.                                                          *)
(***************************************************************************)
Row(n, v) == <<n, v>>
Others(rows, n) == {r \in rows : r[1] # n}
SlipPkg_registry_add(rows, n, v) == (rows \ Others(rows, n)) \cup {Row(n, v)}
pkg_registry_add(rows, n, v) == Others(rows, n) \cup {Row(n, v)}
pkg_registry_remove(rows, n) == Others(rows, n)
pkg_is_installed(rows, n) == \E r \in rows : r[1] = n

(***************************************************************************)
(* Commands.                                                               *)
(***************************************************************************)
PkgInit ==
  /\ packages = [n \in PkgNames |-> NoFiles] /\ index = {} /\ staging = NoFiles
  /\ cmd = [p \in Commands |-> Idle] /\ torn = {}

Goes(p, step) == cmd' = [cmd EXCEPT ![p] = step]
At(p, place) == cmd[p].at = place
Runs(p) == ~ At(p, "idle")

Starts(p, step) == /\ ~ Runs(p)
                   /\ Overlap \/ \A q \in Commands : ~ Runs(q)
                   /\ Goes(p, step)
                   /\ UNCHANGED <<packages, index, staging, torn>>

\* The archive on disk, the package it is of; what the manifest says; the rows as read to
\* be changed, and as they were at first.
Installing(a, n) == [at |-> "stage", archive |-> a, of |-> n, name |-> n, version |-> 0,
                     rows |-> {}, seen |-> index]

\* hphp pkg install ./file.hpx, or a bundled library that is packed first.
InstallFile(p) == \E n \in PkgNames, v \in PkgVersions : \E a \in Archives[<<n, v>>] : Starts(p, Installing(a, n))

\* The registry's answer is written to the cache and installed from there.
InstallRegistry(p) ==
  \E n \in PkgNames, v \in PkgVersions : \E a \in Archives[<<n, v>>] : Starts(p, Installing(pkgnet_get(a), n))

pkg_cmd_remove(p) == \E n \in PkgNames :
  /\ pkg_is_installed(index, n)
  /\ Starts(p, [Installing(<<>>, n) EXCEPT !.at = "wipe"])
Removing(p) == cmd[p].version = 0

Stage(p) == /\ At(p, "stage")
            /\ staging' = pkg_extract(cmd[p].archive, staging)
            /\ Goes(p, [cmd[p] EXCEPT !.at = "peek"])
            /\ UNCHANGED <<packages, index, torn>>

\* The name and version to install are those of the manifest in the staging directory.
Peek(p) == /\ At(p, "peek")
           /\ LET m == staging["hphp.json"]
              IN  Goes(p, IF m = Absent THEN Idle
                          ELSE [cmd[p] EXCEPT !.at = "wipe", !.name = m[1], !.version = m[2]])
           /\ UNCHANGED <<packages, index, staging, torn>>

\* rm_rf and mkdir_p.
Wipe(p) == /\ At(p, "wipe")
           /\ packages' = [packages EXCEPT ![cmd[p].name] = NoFiles]
           /\ torn' = torn \cup {cmd[p].name}
           /\ Goes(p, [cmd[p] EXCEPT !.at = IF Removing(p) THEN "rows" ELSE "unpack"])
           /\ UNCHANGED <<index, staging>>

Unpack(p) == /\ At(p, "unpack")
             /\ packages' = [packages EXCEPT ![cmd[p].name] = pkg_extract(cmd[p].archive, @)]
             /\ Goes(p, IF cmd[p].archive = <<>> THEN Idle ELSE [cmd[p] EXCEPT !.at = "entry"])
             /\ UNCHANGED <<index, staging, torn>>

SlipCheckEntry(p) == /\ At(p, "entry")
                     /\ Goes(p, [cmd[p] EXCEPT !.at = "rows"])
                     /\ UNCHANGED <<packages, index, staging, torn>>
CheckEntry(p) == /\ At(p, "entry")
                 /\ Goes(p, IF packages[cmd[p].name]["entry"] = Absent THEN Idle ELSE [cmd[p] EXCEPT !.at = "rows"])
                 /\ UNCHANGED <<packages, index, staging, torn>>

ReadRows(p) == /\ At(p, "rows")
               /\ Goes(p, [cmd[p] EXCEPT !.at = "truncate", !.rows = index])
               /\ UNCHANGED <<packages, index, staging, torn>>

\* write_all: fopen empties the file, fclose leaves the rows in it.
Truncate(p) == /\ At(p, "truncate")
               /\ index' = {}
               /\ Goes(p, [cmd[p] EXCEPT !.at = "write"])
               /\ UNCHANGED <<packages, staging, torn>>

WriteRows(p) == /\ At(p, "write")
                /\ index' = IF Removing(p) THEN pkg_registry_remove(cmd[p].rows, cmd[p].name)
                            ELSE pkg_registry_add(cmd[p].rows, cmd[p].name, cmd[p].version)
                /\ torn' = torn \ {cmd[p].name}
                /\ Goes(p, Idle)
                /\ UNCHANGED <<packages, staging>>

\* The process dies, or the machine does.
Killed(p) == Runs(p) /\ Goes(p, Idle) /\ UNCHANGED <<packages, index, staging, torn>>

PkgNext == \E p \in Commands :
  \/ InstallFile(p) \/ InstallRegistry(p) \/ pkg_cmd_remove(p)
  \/ Stage(p) \/ Peek(p) \/ Wipe(p) \/ Unpack(p) \/ CheckEntry(p)
  \/ ReadRows(p) \/ Truncate(p) \/ WriteRows(p) \/ Killed(p)
PkgSpec == PkgInit /\ [][PkgNext]_pkgVars

(***************************************************************************)
(* Properties.                                                             *)
(***************************************************************************)
\* A package that is listed, and that no command has left half done, has its manifest in
\* the listed version and its entry, whatever was killed or refused before
\* (pkg_install_file's order of wipe, unpack, check and pkg_registry_add).
Works(r) == packages[r[1]]["hphp.json"] = r /\ packages[r[1]]["entry"] # Absent
ListedWorks == \A r \in index : r[1] \in torn \/ Works(r)

\* A command changes no other package's directory than the one it was asked about,
\* although it learns the name from a staging directory nobody empties (pkg_install_file).
OthersKept ==
  [][\A n \in PkgNames : packages'[n] # packages[n] => \E p \in Commands : Runs(p) /\ cmd[p].of = n]_pkgVars

Finishes(p) == At(p, "write") /\ index' # index

\* A command that ends leaves every other package's row as the command found it.
RowsKept ==
  [][\A p \in Commands : Finishes(p) => Others(index', cmd[p].name) = Others(cmd[p].seen, cmd[p].name)]_pkgVars

\* Installing and removing touch nothing else: neither the directory nor the row of another
\* package (pkg_install_file, pkg_registry_add, pkg_registry_remove).
OthersUntouched == OthersKept /\ RowsKept
=============================================================================
