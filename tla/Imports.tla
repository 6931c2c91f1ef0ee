------------------------------- MODULE Imports -----------------------------
(***************************************************************************)
(* The import loader of main.c: which file an import names and in which    *)
(* order the files of a program are loaded.  A path is the sequence of its *)
(* components as the code spells it, "/" first when it is absolute; a file *)
(* has as many spellings as the code builds.  File names are without their *)
(* extension, which load_import adds when an import leaves it out.         *)
(***************************************************************************)
EXTENDS Integers, Sequences, FiniteSets, TLC
LOCAL INSTANCE SequencesExt

CONSTANTS
  Relative,     \* whether projects use relative imports and files beside the importer
  MaxPath       \* the longest path the system opens, in components
ASSUME ImportsAssumption == Relative \in BOOLEAN /\ MaxPath \in Nat

VARIABLES
  project,      \* file -> its imports; a file is the absolute path without "."
  loaded        \* [visited, programs]: the spellings seen, and those loaded, in order
impVars == <<project, loaded>>

Cwd == <<"/", "p">>
Bundled == {<<"a", "a">>}                   \* libraries in the compiler
Installed == {"b"}                          \* packages, each with its entry
PackageDir(n) == <<"/", "home", "packages", n>>

(***************************************************************************)
(* Paths.                                                                  *)
(***************************************************************************)
path_dir_of(path) == IF Len(path) = 1 THEN <<".">> ELSE Front(path)
Absolute(path) == path[1] = "/"
abs_dir_of(dir) == IF Absolute(dir) THEN dir ELSE IF dir = <<".">> THEN Cwd ELSE Cwd \o dir
\* The file a spelling leads to.
FileOf(path) == SelectSeq(abs_dir_of(path), LAMBDA c : c # ".")
lib_rel_spec(spec) == IF Len(spec) > 1 THEN spec ELSE spec \o spec

IsThere(path) == Len(path) <= MaxPath /\ FileOf(path) \in DOMAIN project

\* The directories from dir upwards that upwards_lib looks into: never the root itself.
Upwards(dir) == [i \in 1..(Len(dir) - 1) |-> SubSeq(dir, 1, Len(dir) + 1 - i)]
upwards_lib(dir, spec) ==
  FlattenSeq([i \in DOMAIN Upwards(abs_dir_of(dir)) |->
    LET d == Upwards(abs_dir_of(dir))[i]
    IN  <<d \o <<"lib">> \o spec, d \o <<"lib">> \o lib_rel_spec(spec)>>])

\* "pkg/file" names a file of the package, "pkg" its entry.
pkg_import_candidate(spec) ==
  IF spec[1] \notin Installed THEN <<>>
  ELSE <<PackageDir(spec[1]) \o IF Len(spec) > 1 THEN Tail(spec) ELSE spec>>

Candidates(importer, spec) ==
  LET dir == path_dir_of(importer)
  IN  IF spec[1] = "." THEN <<dir \o spec>>
      ELSE <<<<"lib">> \o spec, <<"lib">> \o lib_rel_spec(spec)>>
           \o upwards_lib(dir, spec)
           \o <<<<"src", "hphpc", "std">> \o spec, dir \o spec>>
           \o pkg_import_candidate(spec)

\* The spelling an import is loaded under; a bundled library has a name of its own.
Resolved(importer, spec) ==
  LET found == SelectSeq(Candidates(importer, spec), IsThere)
  IN  CASE found # <<>> -> found[1]
        [] lib_rel_spec(spec) \in Bundled -> <<"/", "<hphp-lib>">> \o lib_rel_spec(spec)
        [] OTHER -> <<>>
ImportsOf(path) == IF IsThere(path) THEN project[FileOf(path)] ELSE <<>>

(***************************************************************************)
(* Loading: depth first, a file's imports before the file.                 *)
(***************************************************************************)
Nothing == [visited |-> <<>>, programs |-> <<>>, missing |-> FALSE]

RECURSIVE load_source_recursive(_, _)
\* An import that cannot be resolved is fatal.
load_import(ctx, importer, spec) ==
  LET path == Resolved(importer, spec)
  IN  IF path = <<>> THEN [ctx EXCEPT !.missing = TRUE] ELSE load_source_recursive(ctx, path)

RECURSIVE LoadImports(_, _, _)
LoadImports(ctx, path, specs) ==
  IF specs = <<>> \/ ctx.missing THEN ctx
  ELSE LoadImports(load_import(ctx, path, Head(specs)), path, Tail(specs))

Seen(ctx, path) == path \in ToSet(ctx.visited)
Enter(ctx, path) == [ctx EXCEPT !.visited = Append(@, path)]
SlipLeave(ctx, path) == [ctx EXCEPT !.programs = <<path>> \o @]
Leave(ctx, path) == [ctx EXCEPT !.programs = Append(@, path)]

load_source_recursive(ctx, path) ==
  IF Seen(ctx, path) THEN ctx ELSE Leave(LoadImports(Enter(ctx, path), path, ImportsOf(path)), path)

(***************************************************************************)
(* Projects: main.hphp, the library b of two files, a file beside main,    *)
(* and a package b that is also installed.                                 *)
(***************************************************************************)
Main == <<"main">>
LibB == <<"/", "p", "lib", "b", "b">>
LibPart == <<"/", "p", "lib", "b", "part">>
Beside == <<"/", "p", "x">>
PkgB == PackageDir("b") \o <<"b">>

Named == {<<"a">>, <<"b">>, <<"b", "part">>, <<"x">>}
Specs == IF Relative THEN Named \cup {<<".", "part">>, <<".", "x">>} ELSE Named \ {<<"x">>}
ImportLists == {<<>>} \cup {<<s>> : s \in Specs} \cup {<<s, t>> : s, t \in Specs}
Empties == {<<>>} \cup {<<s>> : s \in Specs}

ImpInit == /\ \E m \in ImportLists, b, part, x \in Empties, inLib \in BOOLEAN :
                project = (FileOf(Main) :> m) @@ (LibPart :> part)
                          @@ (IF inLib THEN LibB :> b ELSE PkgB :> b)
                          @@ (IF Relative THEN Beside :> x ELSE <<>>)
           /\ loaded = Nothing
\* load_file_recursive
Load == loaded = Nothing /\ loaded' = load_source_recursive(loaded, Main) /\ UNCHANGED project
ImpNext == Load
ImpSpec == ImpInit /\ [][ImpNext]_impVars

(***************************************************************************)
(* Properties.                                                             *)
(***************************************************************************)
Complete == loaded # Nothing /\ ~ loaded.missing
Programs == ToSet(loaded.programs)
Edges == UNION {{<<p, Resolved(p, spec)>> : spec \in ToSet(ImportsOf(p))} : p \in Programs}
RECURSIVE ReachedFrom(_)
ReachedFrom(S) == LET more == S \cup {e[2] : e \in {d \in Edges : d[1] \in S}}
                  IN  IF more = S THEN S ELSE ReachedFrom(more)

\* A program holds everything its files import, each spelling once; a file comes after what
\* it imports unless the two import each other, and the root file, whose statements are the
\* program's, comes last (load_source_recursive; main.c:1594 takes the last one).
LoadOrder == Complete =>
  /\ Programs = ReachedFrom({Main})
  /\ Len(loaded.programs) = Cardinality(Programs)
  /\ Last(loaded.programs) = Main
  /\ \A e \in Edges : e[1] \notin ReachedFrom({e[2]}) =>
       \E i, j \in DOMAIN loaded.programs : i < j /\ loaded.programs[i] = e[2] /\ loaded.programs[j] = e[1]

=============================================================================
