-------------------------------- MODULE Build ------------------------------
(***************************************************************************)
(* The build driver: main's way from a program to a running executable     *)
(* (extract_runtime, the cache keys, cc_build_in_dir, move_file).  Each    *)
(* process of hphp builds one program; all share the build directory's     *)
(* copy of the runtime and the object cache.  The runtime sources count as *)
(* one file, which is cut short between fopen and fclose; the cache is not *)
(* in the repository and is taken to store and fetch objects whole.        *)
(***************************************************************************)
EXTENDS Integers, Sequences, FiniteSets

CONSTANTS
  Builders,             \* processes; each builds a program of its own
  Sources,              \* contents of a program's sources, numbers
  EditsAnytime,         \* whether sources may change while a build runs
  MaxBuilds             \* bound on the builds started
ASSUME BuildAssumption ==
  Sources \in (SUBSET Nat) \ {{}} /\ EditsAnytime \in BOOLEAN /\ MaxBuilds \in Nat

VARIABLES
  source,       \* program -> what its files hold now
  rtFile,       \* <wd>/rt: "whole" or "cut"
  rtCache,      \* key -> the runtime objects of the slot
  progCache,    \* key -> the program's object
  exeCache,     \* key -> the linked image
  exe,          \* program -> the file at exepath
  job,          \* process -> [at, ...]
  builds        \* how many were started
buildVars == <<source, rtFile, rtCache, progCache, exeCache, exe, job, builds>>

Attempts == 3
Missing == <<>>

(***************************************************************************)
(* Keys and objects.  dev selects -O0; its objects are not for a release.  *)
(***************************************************************************)
Keys == [program : Builders, source : Sources, rt : {"whole", "cut"}, dev : BOOLEAN]
RtKeys == [rt : {"whole", "cut"}, dev : BOOLEAN]
ProgObject(p, s, dev) == <<p, s, dev>>
RtObject(content, dev) == <<content, dev>>
Image(o, r) == <<o, r>>

\* cache_key_for_files over the sources, the compiler and the runtime as they are on disk.
SlipCache_key(p, dev) == [program |-> p, source |-> source[p], rt |-> rtFile, dev |-> FALSE]
cache_key(p, dev) == [program |-> p, source |-> source[p], rt |-> rtFile, dev |-> dev]
rt_key(dev) == [rt |-> rtFile, dev |-> dev]

BuildInit ==
  /\ source = [p \in Builders |-> CHOOSE s \in Sources : TRUE]
  /\ rtFile = "cut"
  /\ rtCache = [k \in RtKeys |-> Missing] /\ progCache = [k \in Keys |-> Missing]
  /\ exeCache = [k \in Keys |-> Missing]
  /\ exe = [p \in Builders |-> Missing]
  /\ job = [p \in Builders |-> [at |-> "idle"]]
  /\ builds = 0

Is(p, place) == job[p].at = place
Now(p, j) == job' = [job EXCEPT ![p] = j]
Moves(p, place) == Now(p, [job[p] EXCEPT !.at = place])
Quiet == UNCHANGED <<source, rtFile, rtCache, progCache, exeCache, exe>>

\* The user saves a file.
Edit(p) == /\ EditsAnytime \/ Is(p, "idle")
           /\ \E s \in Sources : s # source[p] /\ source' = [source EXCEPT ![p] = s]
           /\ UNCHANGED <<rtFile, rtCache, progCache, exeCache, exe, job, builds>>

\* hphp run, hphp dev: load, check and generate from the sources as they are.
LoadProgram(p) == /\ Is(p, "idle")
           /\ \E dev \in BOOLEAN :
                Now(p, [at |-> "extract", source |-> source[p], dev |-> dev, key |-> <<>>, rtkey |-> <<>>,
                        prog |-> Missing, rt |-> Missing, kept |-> {}, attempt |-> 1, out |-> Missing])
           /\ builds < MaxBuilds /\ builds' = builds + 1
           /\ Quiet

\* extract_runtime overwrites unconditionally.
OpenRuntime(p) == /\ Is(p, "extract")
                  /\ rtFile' = "cut" /\ Moves(p, "write")
                  /\ UNCHANGED <<source, rtCache, progCache, exeCache, exe, builds>>
WriteRuntime(p) == /\ Is(p, "write")
                   /\ rtFile' = "whole" /\ Moves(p, "key")
                   /\ UNCHANGED <<source, rtCache, progCache, exeCache, exe, builds>>

HashKeys(p) == /\ Is(p, "key")
               /\ Now(p, [job[p] EXCEPT !.at = "fetch", !.key = cache_key(p, job[p].dev), !.rtkey = rt_key(job[p].dev)])
               /\ Quiet /\ UNCHANGED builds

\* have: the objects that came from the cache, which no later attempt compiles again.
Fetch(p) == /\ Is(p, "fetch")
            /\ LET o == progCache[job[p].key]
                   r == rtCache[job[p].rtkey]
               IN  Now(p, [job[p] EXCEPT !.at = "compile", !.prog = o, !.rt = r,
                             !.kept = (IF o = Missing THEN {} ELSE {"prog"}) \cup (IF r = Missing THEN {} ELSE {"rt"})])
            /\ Quiet /\ UNCHANGED builds

Retry(p) == Now(p, IF job[p].attempt = Attempts THEN [at |-> "idle"]
                   ELSE [job[p] EXCEPT !.at = "compile", !.attempt = @ + 1])

\* An empty or cut source may compile; what was compiled goes to the cache.
Compile(p) ==
  LET j == job[p]
      o == IF "prog" \in j.kept THEN j.prog ELSE ProgObject(p, j.source, j.dev)
      r == IF "rt" \in j.kept THEN j.rt ELSE RtObject(rtFile, j.dev)
  IN  /\ Is(p, "compile")
      /\ progCache' = [progCache EXCEPT ![j.key] = o]
      /\ rtCache' = [rtCache EXCEPT ![j.rtkey] = r]
      /\ Now(p, [j EXCEPT !.at = "link", !.prog = o, !.rt = r])
      /\ UNCHANGED <<source, rtFile, exeCache, exe, builds>>
\* gcc reports an error in the half file.
CompileFails(p) == /\ Is(p, "compile") /\ rtFile = "cut" /\ "rt" \notin job[p].kept
                   /\ Retry(p) /\ Quiet /\ UNCHANGED builds

\* The cached image if there is one, else the linker, which misses the symbols of a cut
\* runtime.
Link(p) ==
  LET j == job[p]
  IN  /\ Is(p, "link")
      /\ IF exeCache[j.key] # Missing
         THEN Now(p, [j EXCEPT !.at = "clear", !.out = exeCache[j.key]]) /\ UNCHANGED exeCache
         ELSE IF j.rt[1] = "cut" THEN Retry(p) /\ UNCHANGED exeCache
         ELSE /\ Now(p, [j EXCEPT !.at = "clear", !.out = Image(j.prog, j.rt)])
              /\ exeCache' = [exeCache EXCEPT ![j.key] = Image(j.prog, j.rt)]
      /\ UNCHANGED <<source, rtFile, rtCache, progCache, exe, builds>>

\* remove_quiet, move_file, spawn_wait, remove_quiet.
Clear(p) == /\ Is(p, "clear")
            /\ exe' = [exe EXCEPT ![p] = Missing] /\ Moves(p, "place")
            /\ UNCHANGED <<source, rtFile, rtCache, progCache, exeCache, builds>>
Place(p) == /\ Is(p, "place")
            /\ exe' = [exe EXCEPT ![p] = job[p].out] /\ Moves(p, "run")
            /\ UNCHANGED <<source, rtFile, rtCache, progCache, exeCache, builds>>
Finish(p) == /\ Is(p, "run")
             /\ exe' \in {[exe EXCEPT ![p] = Missing], exe}     \* run, build
             /\ Now(p, [at |-> "idle"])
             /\ UNCHANGED <<source, rtFile, rtCache, progCache, exeCache, builds>>

\* The process is killed; another run starts afresh.
Abort(p) == ~ Is(p, "idle") /\ Now(p, [at |-> "idle"]) /\ Quiet /\ UNCHANGED builds

BuildNext == \E p \in Builders :
  \/ Edit(p) \/ LoadProgram(p) \/ OpenRuntime(p) \/ WriteRuntime(p) \/ HashKeys(p) \/ Fetch(p)
  \/ Compile(p) \/ CompileFails(p) \/ Link(p) \/ Clear(p) \/ Place(p) \/ Finish(p) \/ Abort(p)
BuildSpec == BuildInit /\ [][BuildNext]_buildVars

(***************************************************************************)
(* Properties.                                                             *)
(***************************************************************************)
\* What is run, or left as the result of a build, is the program that was loaded, for the
\* mode asked for and with a whole runtime, although others rewrite the runtime sources
\* and fill the cache at the same time (main.c:558, main.c:1622).
RunsWhatWasLoaded ==
  \A p \in Builders : Is(p, "run") =>
    exe[p] = Image(ProgObject(p, job[p].source, job[p].dev), RtObject("whole", job[p].dev))
=============================================================================
