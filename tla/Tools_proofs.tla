---------------------------- MODULE Tools_proofs ----------------------------
(***************************************************************************)
(* Proofs about the two tools that keep files.  Build: for every set of    *)
(* processes and contents and every number of builds, as long as nobody    *)
(* saves a source while a build of it is under way (EditsAnytime = FALSE). *)
(* Packages: for every set of package names, versions and processes, as    *)
(* long as one command runs at a time (Overlap = FALSE) and no package holds *)
(* a file with a NUL byte (Images = FALSE).                                *)
(***************************************************************************)
EXTENDS Build, Packages, FiniteSetTheorems, TLAPS

(***************************************************************************)
(* The inductive invariant: what a cache holds under a key is what the key *)
(* says, except that objects of a cut runtime may be filed as whole ones;  *)
(* those never get past the linker.                                        *)
(***************************************************************************)
Fields == {"at", "source", "dev", "key", "rtkey", "prog", "rt", "kept", "attempt", "out"}

\* The variables are functions on the sets they are indexed by.
Shapes ==
  /\ source \in [Builders -> Sources] /\ rtFile \in {"cut", "whole"}
  /\ rtCache = [k \in RtKeys |-> rtCache[k]] /\ progCache = [k \in Keys |-> progCache[k]]
  /\ exeCache = [k \in Keys |-> exeCache[k]]
  /\ exe = [p \in Builders |-> exe[p]] /\ job = [p \in Builders |-> job[p]]

RtObjects(dev) == {RtObject(c, dev) : c \in {"cut", "whole"}}

Right(p, s, dev) == Image(ProgObject(p, s, dev), RtObject("whole", dev))

CachesHonest ==
  /\ \A k \in Keys : progCache[k] \in {Missing, ProgObject(k.program, k.source, k.dev)}
  /\ \A k \in Keys : exeCache[k] \in {Missing, Right(k.program, k.source, k.dev)}
  /\ \A k \in RtKeys : rtCache[k] \in {Missing} \cup RtObjects(k.dev)

KeysOf(p, j) ==
  /\ j.key \in Keys /\ j.key.program = p /\ j.key.source = j.source /\ j.key.dev = j.dev
  /\ j.rtkey \in RtKeys /\ j.rtkey.dev = j.dev

\* A build j of program p, whose sources hold s and whose executable is e.
Honest(p, j, s, e) ==
  \/ j.at = "idle"
  \/ /\ j = [f \in Fields |-> j[f]]
     /\ j.source = s /\ j.dev \in BOOLEAN
     /\ \/ j.at \in {"extract", "write", "key"}
        \/ j.at = "fetch" /\ KeysOf(p, j)
        \/ /\ j.at \in {"compile", "link"} /\ KeysOf(p, j)
           /\ "prog" \in j.kept => j.prog = ProgObject(p, s, j.dev)
           /\ "rt" \in j.kept => j.rt \in RtObjects(j.dev)
           /\ j.at = "link" => j.prog = ProgObject(p, s, j.dev) /\ j.rt \in RtObjects(j.dev)
        \/ /\ j.at \in {"clear", "place", "run"}
           /\ j.out = Right(p, s, j.dev)
           /\ j.at = "run" => e = j.out

JobsHonest == \A p \in Builders : Honest(p, job[p], source[p], exe[p])

BuildInv == Shapes /\ CachesHonest /\ JobsHonest

(***************************************************************************)
(* Records.                                                                *)
(***************************************************************************)
\* A record with a build's fields, one of which is assigned, is one again.
LEMMA AtMoved ==
  ASSUME NEW j, j = [f \in Fields |-> j[f]], NEW a
  PROVE  /\ [j EXCEPT !.at = a] = [f \in Fields |-> [j EXCEPT !.at = a][f]]
         /\ [j EXCEPT !.at = a].at = a
         /\ \A f \in Fields \ {"at"} : [j EXCEPT !.at = a][f] = j[f]
  BY DEF Fields

\* A step of process p leaves every build honest if it leaves that of p so: the others
\* keep their sources and their executables.
LEMMA OneJob ==
  ASSUME Shapes, JobsHonest, NEW p \in Builders, NEW j, Now(p, j), source' = source,
         \A q \in Builders \ {p} : exe'[q] = exe[q], Honest(p, j, source[p], exe'[p])
  PROVE  JobsHonest' /\ job' = [q \in Builders |-> job'[q]]
  <1>1. job = [q \in Builders |-> job[q]]
    BY DEF Shapes
  <1>2. job' = [q \in Builders |-> IF q = p THEN j ELSE job[q]]
    BY <1>1 DEF Now
  <1>3. ASSUME NEW q \in Builders
        PROVE  Honest(q, job'[q], source[q], exe'[q])
    <2>1. CASE q = p
      BY <2>1, <1>2
    <2>2. CASE q # p
      <3>1. job'[q] = job[q] /\ exe'[q] = exe[q]
        BY <2>2, <1>2
      <3> QED BY <3>1 DEF JobsHonest
    <2> QED BY <2>1, <2>2
  <1> QED BY <1>2, <1>3 DEF JobsHonest

\* When only the builds move, what is on disk stays as it was.
LEMMA OnlyJobs ==
  ASSUME BuildInv, NEW p \in Builders, NEW j, Now(p, j), Quiet, Honest(p, j, source[p], exe[p])
  PROVE  BuildInv'
  <1>1. JobsHonest' /\ job' = [q \in Builders |-> job'[q]]
    <2>1. source' = source /\ exe' = exe
      BY DEF Quiet
    <2> QED BY <2>1, OneJob DEF BuildInv
  <1>2. Shapes'
    BY <1>1 DEF Quiet, BuildInv, Shapes
  <1>3. CachesHonest'
    BY DEF Quiet, BuildInv, CachesHonest
  <1> QED BY <1>1, <1>2, <1>3 DEF BuildInv

(***************************************************************************)
(* The steps.                                                              *)
(***************************************************************************)
\* At the start the caches are empty and nothing is built.
LEMMA InitBuild == BuildInit => BuildInv
  <1> SUFFICES ASSUME BuildInit PROVE BuildInv
    OBVIOUS
  <1>1. Shapes
    <2>1. \E s \in Sources : TRUE
      BY BuildAssumption
    <2>2. (CHOOSE s \in Sources : TRUE) \in Sources
      BY <2>1
    <2> QED BY <2>2 DEF BuildInit, Shapes
  <1>2. CachesHonest
    BY DEF BuildInit, CachesHonest
  <1>3. JobsHonest
    BY DEF BuildInit, JobsHonest, Honest
  <1> QED BY <1>1, <1>2, <1>3 DEF BuildInv

\* The user saves a file of a program that is not being built.
LEMMA EditBuild ==
  ASSUME BuildInv, EditsAnytime = FALSE, NEW p \in Builders, Edit(p)
  PROVE  BuildInv'
  <1>1. PICK s \in Sources : source' = [source EXCEPT ![p] = s]
    BY DEF Edit
  <1>2. Is(p, "idle") /\ UNCHANGED <<rtFile, rtCache, progCache, exeCache, exe, job>>
    BY DEF Edit
  <1>3. Shapes'
    BY <1>1, <1>2 DEF BuildInv, Shapes
  <1>4. CachesHonest'
    BY <1>2 DEF BuildInv, CachesHonest
  <1>5. ASSUME NEW q \in Builders
        PROVE  Honest(q, job[q], source'[q], exe[q])
    <2>1. CASE q = p
      BY <2>1, <1>2 DEF Is, Honest
    <2>2. CASE q # p
      <3>1. source'[q] = source[q]
        BY <2>2, <1>1 DEF BuildInv, Shapes
      <3> QED BY <3>1 DEF BuildInv, JobsHonest
    <2> QED BY <2>1, <2>2
  <1> QED BY <1>2, <1>3, <1>4, <1>5 DEF BuildInv, JobsHonest

\* The sources are read and checked.
LEMMA LoadBuild ==
  ASSUME BuildInv, NEW p \in Builders, LoadProgram(p)
  PROVE  BuildInv'
  <1>1. PICK dev \in BOOLEAN :
          Now(p, [at |-> "extract", source |-> source[p], dev |-> dev, key |-> <<>>, rtkey |-> <<>>,
                  prog |-> Missing, rt |-> Missing, kept |-> {}, attempt |-> 1, out |-> Missing])
    BY DEF LoadProgram
  <1> DEFINE j == [at |-> "extract", source |-> source[p], dev |-> dev, key |-> <<>>, rtkey |-> <<>>,
                   prog |-> Missing, rt |-> Missing, kept |-> {}, attempt |-> 1, out |-> Missing]
  <1>2. j = [f \in Fields |-> j[f]] /\ j.at = "extract" /\ j.source = source[p] /\ j.dev = dev
    BY DEF Fields
  <1>3. Now(p, j)
    BY <1>1
  <1>4. Quiet
    BY DEF LoadProgram
  <1> HIDE DEF j
  <1>5. Honest(p, j, source[p], exe[p])
    BY <1>2 DEF Honest
  <1> QED BY <1>3, <1>4, <1>5, OnlyJobs

\* extract_runtime: the file that others read is cut, then whole.
LEMMA RuntimeBuild ==
  ASSUME BuildInv, NEW p \in Builders, OpenRuntime(p) \/ WriteRuntime(p)
  PROVE  BuildInv'
  <1> DEFINE a == IF Is(p, "extract") THEN "write" ELSE "key"
             j == [job[p] EXCEPT !.at = a]
  <1>1. /\ Now(p, j) /\ job[p].at \in {"extract", "write"} /\ rtFile' \in {"cut", "whole"}
        /\ UNCHANGED <<source, rtCache, progCache, exeCache, exe>>
    BY DEF OpenRuntime, WriteRuntime, Moves, Is
  <1>2. Honest(p, job[p], source[p], exe[p])
    BY DEF BuildInv, JobsHonest
  <1>3. job[p] = [f \in Fields |-> job[p][f]] /\ job[p].source = source[p] /\ job[p].dev \in BOOLEAN
    BY <1>1, <1>2 DEF Honest
  <1>4. j = [f \in Fields |-> j[f]] /\ j.at = a /\ j.source = source[p] /\ j.dev \in BOOLEAN
    BY <1>3, AtMoved DEF Fields
  <1>5. a \in {"write", "key"}
    OBVIOUS
  <1> HIDE DEF j, a
  <1>6. Honest(p, j, source[p], exe'[p])
    BY <1>4, <1>5 DEF Honest
  <1>7. JobsHonest' /\ job' = [q \in Builders |-> job'[q]]
    BY <1>1, <1>6, OneJob DEF BuildInv
  <1>8. Shapes'
    BY <1>1, <1>7 DEF BuildInv, Shapes
  <1>9. CachesHonest'
    BY <1>1 DEF BuildInv, CachesHonest
  <1> QED BY <1>7, <1>8, <1>9 DEF BuildInv

\* The keys are computed from the sources and the runtime as they are on disk.
LEMMA HashBuild ==
  ASSUME BuildInv, NEW p \in Builders, HashKeys(p)
  PROVE  BuildInv'
  <1> DEFINE k == cache_key(p, job[p].dev)
             rk == rt_key(job[p].dev)
             j == [job[p] EXCEPT !.at = "fetch", !.key = k, !.rtkey = rk]
  <1>1. Now(p, j) /\ job[p].at = "key" /\ Quiet
    BY DEF HashKeys, Is
  <1>2. Honest(p, job[p], source[p], exe[p])
    BY DEF BuildInv, JobsHonest
  <1>3. job[p] = [f \in Fields |-> job[p][f]] /\ job[p].source = source[p] /\ job[p].dev \in BOOLEAN
    BY <1>1, <1>2 DEF Honest
  <1>4. /\ j = [f \in Fields |-> j[f]] /\ j.at = "fetch" /\ j.source = source[p]
        /\ j.dev = job[p].dev /\ j.key = k /\ j.rtkey = rk
    BY <1>3 DEF Fields
  <1>5. k \in Keys /\ k.program = p /\ k.source = source[p] /\ k.dev = job[p].dev
    BY <1>3 DEF cache_key, Keys, BuildInv, Shapes
  <1>6. rk \in RtKeys /\ rk.dev = job[p].dev
    BY <1>3 DEF rt_key, RtKeys, BuildInv, Shapes
  <1> HIDE DEF j, k, rk
  <1>7. KeysOf(p, j)
    BY <1>4, <1>5, <1>6 DEF KeysOf
  <1>8. Honest(p, j, source[p], exe[p])
    BY <1>3, <1>4, <1>7 DEF Honest
  <1> QED BY <1>1, <1>8, OnlyJobs

\* Objects found in the cache are those the keys ask for.
LEMMA FetchBuild ==
  ASSUME BuildInv, NEW p \in Builders, Fetch(p)
  PROVE  BuildInv'
  <1> DEFINE o == progCache[job[p].key]
             r == rtCache[job[p].rtkey]
             kept == (IF o = Missing THEN {} ELSE {"prog"}) \cup (IF r = Missing THEN {} ELSE {"rt"})
             j == [job[p] EXCEPT !.at = "compile", !.prog = o, !.rt = r, !.kept = kept]
  <1>1. Now(p, j) /\ job[p].at = "fetch" /\ Quiet
    BY DEF Fetch, Is
  <1>2. Honest(p, job[p], source[p], exe[p])
    BY DEF BuildInv, JobsHonest
  <1>3. /\ job[p] = [f \in Fields |-> job[p][f]] /\ job[p].source = source[p] /\ job[p].dev \in BOOLEAN
        /\ KeysOf(p, job[p])
    BY <1>1, <1>2 DEF Honest
  <1>4. /\ j = [f \in Fields |-> j[f]] /\ j.at = "compile" /\ j.source = source[p] /\ j.dev = job[p].dev
        /\ j.key = job[p].key /\ j.rtkey = job[p].rtkey /\ j.prog = o /\ j.rt = r /\ j.kept = kept
    BY <1>3 DEF Fields
  <1>5. o \in {Missing, ProgObject(p, source[p], job[p].dev)}
    BY <1>3 DEF KeysOf, BuildInv, CachesHonest
  <1>6. r \in {Missing} \cup RtObjects(job[p].dev)
    BY <1>3 DEF KeysOf, BuildInv, CachesHonest
  <1>7. /\ "prog" \in kept => o # Missing
        /\ "rt" \in kept => r # Missing
    OBVIOUS
  <1> HIDE DEF j, o, r, kept
  <1>8. KeysOf(p, j)
    BY <1>3, <1>4 DEF KeysOf
  <1>9. /\ "prog" \in j.kept => j.prog = ProgObject(p, source[p], j.dev)
        /\ "rt" \in j.kept => j.rt \in RtObjects(j.dev)
    BY <1>4, <1>5, <1>6, <1>7
  <1>10. Honest(p, j, source[p], exe[p])
    BY <1>3, <1>4, <1>8, <1>9 DEF Honest
  <1> QED BY <1>1, <1>10, OnlyJobs

\* An attempt that failed keeps what came from the cache, or the build ends.
LEMMA RetryBuild ==
  ASSUME BuildInv, NEW p \in Builders, Retry(p), Quiet, job[p].at \in {"compile", "link"}
  PROVE  BuildInv'
  <1>1. CASE job[p].attempt = Attempts
    <2>1. Now(p, [at |-> "idle"])
      BY <1>1 DEF Retry
    <2>2. Honest(p, [at |-> "idle"], source[p], exe[p])
      BY DEF Honest
    <2> QED BY <2>1, <2>2, OnlyJobs
  <1>2. CASE job[p].attempt # Attempts
    <2> DEFINE n == job[p].attempt + 1
               j == [job[p] EXCEPT !.at = "compile", !.attempt = n]
    <2>1. Now(p, j)
      BY <1>2 DEF Retry
    <2>2. Honest(p, job[p], source[p], exe[p])
      BY DEF BuildInv, JobsHonest
    <2>3. /\ job[p] = [f \in Fields |-> job[p][f]] /\ job[p].source = source[p] /\ job[p].dev \in BOOLEAN
          /\ KeysOf(p, job[p])
          /\ "prog" \in job[p].kept => job[p].prog = ProgObject(p, source[p], job[p].dev)
          /\ "rt" \in job[p].kept => job[p].rt \in RtObjects(job[p].dev)
      BY <2>2 DEF Honest
    <2> HIDE DEF n
    <2>4. /\ j = [f \in Fields |-> j[f]] /\ j.at = "compile" /\ j.source = source[p] /\ j.dev = job[p].dev
          /\ j.key = job[p].key /\ j.rtkey = job[p].rtkey
          /\ j.prog = job[p].prog /\ j.rt = job[p].rt /\ j.kept = job[p].kept
      BY <2>3 DEF Fields
    <2> HIDE DEF j
    <2>5. KeysOf(p, j)
      BY <2>3, <2>4 DEF KeysOf
    <2>6. Honest(p, j, source[p], exe[p])
      BY <2>3, <2>4, <2>5 DEF Honest
    <2> QED BY <2>1, <2>6, OnlyJobs
  <1> QED BY <1>1, <1>2

\* What is compiled is filed under the keys; the runtime may be a cut one by then.
LEMMA CompileBuild ==
  ASSUME BuildInv, NEW p \in Builders, Compile(p)
  PROVE  BuildInv'
  <1> DEFINE o == IF "prog" \in job[p].kept THEN job[p].prog ELSE ProgObject(p, job[p].source, job[p].dev)
             r == IF "rt" \in job[p].kept THEN job[p].rt ELSE RtObject(rtFile, job[p].dev)
             j == [job[p] EXCEPT !.at = "link", !.prog = o, !.rt = r]
  <1>1. /\ Now(p, j) /\ job[p].at = "compile"
        /\ progCache' = [progCache EXCEPT ![job[p].key] = o]
        /\ rtCache' = [rtCache EXCEPT ![job[p].rtkey] = r]
        /\ UNCHANGED <<source, rtFile, exeCache, exe>>
    BY DEF Compile, Is
  <1>2. Honest(p, job[p], source[p], exe[p])
    BY DEF BuildInv, JobsHonest
  <1>3. /\ job[p] = [f \in Fields |-> job[p][f]] /\ job[p].source = source[p] /\ job[p].dev \in BOOLEAN
        /\ KeysOf(p, job[p])
        /\ "prog" \in job[p].kept => job[p].prog = ProgObject(p, source[p], job[p].dev)
        /\ "rt" \in job[p].kept => job[p].rt \in RtObjects(job[p].dev)
    BY <1>1, <1>2 DEF Honest
  <1>4. o = ProgObject(p, source[p], job[p].dev)
    BY <1>3
  <1>5. r \in RtObjects(job[p].dev)
    BY <1>3 DEF RtObjects, BuildInv, Shapes
  <1> HIDE DEF o, r
  <1>6. /\ j = [f \in Fields |-> j[f]] /\ j.at = "link" /\ j.source = source[p] /\ j.dev = job[p].dev
        /\ j.key = job[p].key /\ j.rtkey = job[p].rtkey /\ j.prog = o /\ j.rt = r /\ j.kept = job[p].kept
    BY <1>3 DEF Fields
  <1> HIDE DEF j
  <1>7. KeysOf(p, j)
    BY <1>3, <1>6 DEF KeysOf
  <1>8. Honest(p, j, source[p], exe'[p])
    BY <1>1, <1>3, <1>4, <1>5, <1>6, <1>7 DEF Honest
  <1>9. JobsHonest' /\ job' = [q \in Builders |-> job'[q]]
    BY <1>1, <1>8, OneJob DEF BuildInv
  <1>10. Shapes'
    BY <1>1, <1>9 DEF BuildInv, Shapes
  <1>11. CachesHonest'
    <2>1. ASSUME NEW k \in Keys
          PROVE  progCache'[k] \in {Missing, ProgObject(k.program, k.source, k.dev)}
      <3>1. CASE k = job[p].key
        BY <3>1, <1>1, <1>3, <1>4 DEF KeysOf, BuildInv, Shapes
      <3>2. CASE k # job[p].key
        BY <3>2, <1>1 DEF BuildInv, Shapes, CachesHonest
      <3> QED BY <3>1, <3>2
    <2>2. ASSUME NEW k \in RtKeys
          PROVE  rtCache'[k] \in {Missing} \cup RtObjects(k.dev)
      <3>1. CASE k = job[p].rtkey
        BY <3>1, <1>1, <1>3, <1>5 DEF KeysOf, BuildInv, Shapes
      <3>2. CASE k # job[p].rtkey
        BY <3>2, <1>1 DEF BuildInv, Shapes, CachesHonest
      <3> QED BY <3>1, <3>2
    <2> QED BY <2>1, <2>2, <1>1 DEF BuildInv, CachesHonest
  <1> QED BY <1>9, <1>10, <1>11 DEF BuildInv

\* The linker takes an image from the cache or links whole objects.
LEMMA LinkBuild ==
  ASSUME BuildInv, NEW p \in Builders, Link(p)
  PROVE  BuildInv'
  <1>1. /\ job[p].at = "link" /\ UNCHANGED <<source, rtFile, rtCache, progCache, exe>>
    BY DEF Link, Is
  <1>2. Honest(p, job[p], source[p], exe[p])
    BY DEF BuildInv, JobsHonest
  <1>3. /\ job[p] = [f \in Fields |-> job[p][f]] /\ job[p].source = source[p] /\ job[p].dev \in BOOLEAN
        /\ KeysOf(p, job[p])
        /\ job[p].prog = ProgObject(p, source[p], job[p].dev) /\ job[p].rt \in RtObjects(job[p].dev)
    BY <1>1, <1>2 DEF Honest
  <1> DEFINE good == Right(p, source[p], job[p].dev)
             j == [job[p] EXCEPT !.at = "clear", !.out = good]
  <1>4. ASSUME Now(p, j),
               exeCache' = exeCache \/ exeCache' = [exeCache EXCEPT ![job[p].key] = good]
        PROVE  BuildInv'
    <2> HIDE DEF good
    <2>1. /\ j = [f \in Fields |-> j[f]] /\ j.at = "clear" /\ j.source = source[p] /\ j.dev = job[p].dev
          /\ j.out = good
      BY <1>3 DEF Fields
    <2> HIDE DEF j
    <2>2. Honest(p, j, source[p], exe'[p])
      BY <1>1, <1>3, <2>1 DEF Honest, good
    <2>3. JobsHonest' /\ job' = [q \in Builders |-> job'[q]]
      BY <1>1, <1>4, <2>2, OneJob DEF BuildInv
    <2>4. Shapes'
      BY <1>1, <1>4, <2>3 DEF BuildInv, Shapes
    <2>5. ASSUME NEW k \in Keys
          PROVE  exeCache'[k] \in {Missing, Right(k.program, k.source, k.dev)}
      <3>1. CASE k = job[p].key
        <4>1. Right(k.program, k.source, k.dev) = good
          BY <3>1, <1>3 DEF KeysOf, good
        <4> QED BY <3>1, <4>1, <1>4 DEF BuildInv, Shapes, CachesHonest
      <3>2. CASE k # job[p].key
        BY <3>2, <1>4 DEF BuildInv, Shapes, CachesHonest
      <3> QED BY <3>1, <3>2
    <2>6. CachesHonest'
      BY <1>1, <2>5 DEF BuildInv, CachesHonest
    <2> QED BY <2>3, <2>4, <2>6 DEF BuildInv
  <1>5. CASE exeCache[job[p].key] # Missing
    <2>1. exeCache[job[p].key] = good
      BY <1>3, <1>5 DEF KeysOf, BuildInv, CachesHonest
    <2>2. Now(p, j) /\ exeCache' = exeCache
      BY <1>5, <2>1 DEF Link
    <2> QED BY <2>2, <1>4
  <1>6. CASE exeCache[job[p].key] = Missing /\ job[p].rt[1] = "cut"
    <2>1. Retry(p) /\ exeCache' = exeCache
      BY <1>6 DEF Link
    <2> QED BY <2>1, <1>1, RetryBuild DEF Quiet
  <1>7. CASE exeCache[job[p].key] = Missing /\ job[p].rt[1] # "cut"
    <2>1. job[p].rt = RtObject("whole", job[p].dev)
      BY <1>3, <1>7 DEF RtObjects, RtObject
    <2>2. Image(job[p].prog, job[p].rt) = good
      BY <1>3, <2>1 DEF Right
    <2>3. Now(p, j) /\ exeCache' = [exeCache EXCEPT ![job[p].key] = good]
      BY <1>7, <2>2 DEF Link
    <2> QED BY <2>3, <1>4
  <1> QED BY <1>5, <1>6, <1>7

\* The executable is removed, put in place, run and removed again.
LEMMA PlaceBuild ==
  ASSUME BuildInv, NEW p \in Builders, Clear(p) \/ Place(p) \/ Finish(p)
  PROVE  BuildInv'
  <1>1. /\ job[p].at \in {"clear", "place", "run"}
        /\ UNCHANGED <<source, rtFile, rtCache, progCache, exeCache>>
        /\ exe' = exe \/ \E e : exe' = [exe EXCEPT ![p] = e]
    BY DEF Clear, Place, Finish, Is
  <1>2. Honest(p, job[p], source[p], exe[p])
    BY DEF BuildInv, JobsHonest
  <1>3. /\ job[p] = [f \in Fields |-> job[p][f]] /\ job[p].source = source[p] /\ job[p].dev \in BOOLEAN
        /\ job[p].out = Right(p, source[p], job[p].dev)
    BY <1>1, <1>2 DEF Honest
  <1>4. ASSUME NEW j, Now(p, j), Honest(p, j, source[p], exe'[p])
        PROVE  BuildInv'
    <2>1. \A q \in Builders \ {p} : exe'[q] = exe[q]
      BY <1>1 DEF BuildInv, Shapes
    <2>2. JobsHonest' /\ job' = [q \in Builders |-> job'[q]]
      BY <1>1, <1>4, <2>1, OneJob DEF BuildInv
    <2>3. Shapes'
      BY <1>1, <2>2 DEF BuildInv, Shapes
    <2>4. CachesHonest'
      BY <1>1 DEF BuildInv, CachesHonest
    <2> QED BY <2>2, <2>3, <2>4 DEF BuildInv
  <1>5. CASE Clear(p) \/ Place(p)
    <2> DEFINE a == IF Is(p, "clear") THEN "place" ELSE "run"
               j == [job[p] EXCEPT !.at = a]
    <2>1. Now(p, j)
      BY <1>5 DEF Clear, Place, Moves, Is
    <2>2. /\ j = [f \in Fields |-> j[f]] /\ j.at = a /\ j.source = source[p] /\ j.dev = job[p].dev
          /\ j.out = job[p].out
      BY <1>3, AtMoved DEF Fields
    <2>3. a = "run" => exe'[p] = job[p].out
      BY <1>5 DEF Clear, Place, Is, BuildInv, Shapes
    <2>4. a \in {"place", "run"}
      OBVIOUS
    <2> HIDE DEF j, a
    <2>5. Honest(p, j, source[p], exe'[p])
      BY <1>3, <2>2, <2>3, <2>4 DEF Honest
    <2> QED BY <2>1, <2>5, <1>4
  <1>6. CASE Finish(p)
    <2>1. Now(p, [at |-> "idle"])
      BY <1>6 DEF Finish
    <2>2. Honest(p, [at |-> "idle"], source[p], exe'[p])
      BY DEF Honest
    <2> QED BY <2>1, <2>2, <1>4
  <1> QED BY <1>5, <1>6

(***************************************************************************)
(* The theorem.                                                            *)
(***************************************************************************)
\* Every step keeps the invariant.
LEMMA NextBuild ==
  ASSUME BuildInv, EditsAnytime = FALSE, BuildNext
  PROVE  BuildInv'
  <1>1. PICK p \in Builders :
          \/ Edit(p) \/ LoadProgram(p) \/ OpenRuntime(p) \/ WriteRuntime(p) \/ HashKeys(p) \/ Fetch(p)
          \/ Compile(p) \/ CompileFails(p) \/ Link(p) \/ Clear(p) \/ Place(p) \/ Finish(p) \/ Abort(p)
    BY DEF BuildNext
  <1>2. CASE Edit(p)
    BY <1>2, EditBuild
  <1>3. CASE LoadProgram(p)
    BY <1>3, LoadBuild
  <1>4. CASE OpenRuntime(p) \/ WriteRuntime(p)
    BY <1>4, RuntimeBuild
  <1>5. CASE HashKeys(p)
    BY <1>5, HashBuild
  <1>6. CASE Fetch(p)
    BY <1>6, FetchBuild
  <1>7. CASE Compile(p)
    BY <1>7, CompileBuild
  <1>8. CASE CompileFails(p)
    BY <1>8, RetryBuild DEF CompileFails, Is
  <1>9. CASE Link(p)
    BY <1>9, LinkBuild
  <1>10. CASE Clear(p) \/ Place(p) \/ Finish(p)
    BY <1>10, PlaceBuild
  <1>11. CASE Abort(p)
    <2>1. Honest(p, [at |-> "idle"], source[p], exe[p])
      BY DEF Honest
    <2> QED BY <1>11, <2>1, OnlyJobs DEF Abort
  <1> QED BY <1>1, <1>2, <1>3, <1>4, <1>5, <1>6, <1>7, <1>8, <1>9, <1>10, <1>11

\* Whatever other builds do to the runtime sources and the caches in the meantime, what a
\* build runs, or leaves as its result, is the program it loaded, for the mode asked for
\* and with a whole runtime (cc_build_in_dir, main.c:1591; extract_runtime, main.c:558).
\* The hypothesis is what the cache keys need: they are computed from the files after the
\* program was loaded from them, so an edit in between files one program as another.
THEOREM BuildsAsLoaded == BuildSpec /\ EditsAnytime = FALSE => []RunsWhatWasLoaded
  <1> SUFFICES ASSUME EditsAnytime = FALSE PROVE BuildSpec => []RunsWhatWasLoaded
    OBVIOUS
  <1>1. BuildInit => BuildInv
    BY InitBuild
  <1>2. BuildInv /\ [BuildNext]_buildVars => BuildInv'
    <2> SUFFICES ASSUME BuildInv, [BuildNext]_buildVars PROVE BuildInv'
      OBVIOUS
    <2>1. CASE BuildNext
      BY <2>1, NextBuild
    <2>2. CASE UNCHANGED buildVars
      BY <2>2 DEF buildVars, BuildInv, Shapes, CachesHonest, JobsHonest
    <2> QED BY <2>1, <2>2
  <1>3. BuildInv => RunsWhatWasLoaded
    <2> SUFFICES ASSUME BuildInv, NEW p \in Builders, job[p].at = "run"
                 PROVE  exe[p] = Image(ProgObject(p, job[p].source, job[p].dev), RtObject("whole", job[p].dev))
      BY DEF RunsWhatWasLoaded, Is
    <2>1. Honest(p, job[p], source[p], exe[p])
      BY DEF BuildInv, JobsHonest
    <2> QED BY <2>1 DEF Honest, Right
  <1> QED BY <1>1, <1>2, <1>3, PTL DEF BuildSpec

(***************************************************************************)
(* Packages.                                                               *)
(***************************************************************************)

(***************************************************************************)
(* The inductive invariant.                                                *)
(***************************************************************************)
CmdFields == {"at", "archive", "of", "name", "version", "rows", "seen"}
Rows == SUBSET (PkgNames \X PkgVersions)

IsDirectory(d) == d = [f \in Files |-> d[f]]

\* The variables are functions on the sets they are indexed by.
DiskShapes ==
  /\ packages = [n \in PkgNames |-> packages[n]]
  /\ \A n \in PkgNames : IsDirectory(packages[n])
  /\ IsDirectory(staging)
  /\ cmd = [p \in Commands |-> cmd[p]]
  /\ index \in Rows

\* The rows of a table lead to working packages, or to ones a command left half done.
RowsWork(rows) == \A r \in rows : r[1] \in torn \/ Works(r)

\* An installation of version v, as far as it has got.
InstallHonest(j, v) ==
  /\ j.archive \in Archives[<<j.of, v>>]
  /\ \/ j.at = "stage" /\ j.version = 0
     \/ j.at = "peek" /\ j.version = 0 /\ staging["hphp.json"] = <<j.of, v>>
     \/ j.at = "wipe" /\ j.version = v
     \/ j.at = "unpack" /\ j.version = v /\ j.of \in torn
     \/ /\ j.at \in {"entry", "rows", "truncate", "write"} /\ j.version = v /\ j.of \in torn
        /\ packages[j.of]["hphp.json"] = <<j.of, v>>
        /\ j.at # "entry" => packages[j.of]["entry"] # Absent

\* A removal, as far as it has got.
RemoveHonest(j) ==
  /\ j.version = 0 /\ j.at \in {"wipe", "rows", "truncate", "write"}
  /\ j.at # "wipe" => j.of \in torn

\* A command works on the package it was asked about, with the rows it has found.
HonestCmd(j) ==
  \/ j.at = "idle"
  \/ /\ j = [f \in CmdFields |-> j[f]]
     /\ j.of \in PkgNames /\ j.name = j.of /\ j.seen \in Rows
     /\ RemoveHonest(j) \/ \E v \in PkgVersions : InstallHonest(j, v)
     /\ j.at \in {"truncate", "write"} => j.rows = j.seen /\ RowsWork(j.rows)
     /\ j.at # "write" => index = j.seen

OneRuns == \A p, q \in Commands : Runs(p) /\ Runs(q) => p = q

PkgInv == DiskShapes /\ RowsWork(index) /\ OneRuns /\ \A p \in Commands : HonestCmd(cmd[p])

(***************************************************************************)
(* Archives.                                                               *)
(***************************************************************************)
\* An order of some files has each of them in some place.
LEMMA OrderHasAll ==
  ASSUME NEW S, IsFiniteSet(S), NEW s \in Orders(S), NEW x \in S
  PROVE  \E i \in DOMAIN s : s[i] = x
<1>1. Cardinality(S) \in Nat /\ 1 \in Int /\ Cardinality(S) \in Int
  BY FS_CardinalityType
<1>2. IsFiniteSet(1..Cardinality(S)) /\ Cardinality(1..Cardinality(S)) = Cardinality(S)
  <2>1. /\ IsFiniteSet(1..Cardinality(S))
        /\ Cardinality(1..Cardinality(S)) = IF 1 > Cardinality(S) THEN 0 ELSE Cardinality(S) - 1 + 1
    BY <1>1, FS_Interval
  <2> QED BY <1>1, <2>1
<1>3. s \in Injection(1..Cardinality(S), S)
  BY DEF Orders, Injection, IsInjective
<1>4. s \in Surjection(1..Cardinality(S), S)
  BY <1>2, <1>3, FS_Injection
<1> QED BY <1>4 DEF Surjection

\* Finitely many files can be put in order.
LEMMA OrderExists ==
  ASSUME NEW S, IsFiniteSet(S)
  PROVE  \E s \in Orders(S) : TRUE
<1>1. ExistsBijection(1..Cardinality(S), S)
  BY FS_CardinalityType
<1>2. PICK s \in Bijection(1..Cardinality(S), S) : TRUE
  BY <1>1 DEF ExistsBijection
<1>3. s \in Orders(S)
  BY <1>2 DEF Orders, Bijection, Injection, IsInjective
<1> QED BY <1>3

\* Without images every archive has the manifest, and its files are all of one version.
LEMMA ArchiveFacts ==
  ASSUME Images = FALSE, NEW m \in PkgNames, NEW v \in PkgVersions, NEW a \in Archives[<<m, v>>]
  PROVE  /\ Has(a, "hphp.json") /\ Unpacked(a, "hphp.json") = <<m, v>> /\ a # <<>>
         /\ \A i \in DOMAIN a : a[i].file # "image"
<1>1. PICK files \in FileSets : a \in pkg_pack_dir(m, v, files)
  BY DEF Archives
<1>2. "hphp.json" \in files /\ "image" \notin files /\ IsFiniteSet(files)
  <2>1. files = {"hphp.json"} \/ files = {"hphp.json"} \cup {"entry"}
    BY DEF FileSets
  <2>2. IsFiniteSet({"hphp.json"}) /\ IsFiniteSet({"hphp.json"} \cup {"entry"})
    BY FS_Singleton, FS_AddElement
  <2> QED BY <2>1, <2>2
<1> DEFINE s == CHOOSE o \in Orders(files) : TRUE
<1>3. s \in Orders(files)
  BY <1>2, OrderExists
<1>4. a = [i \in DOMAIN s |-> Entry(s[i], m, v)]
  BY <1>1 DEF pkg_pack_dir
<1> HIDE DEF s
<1>5. PICK k \in DOMAIN s : s[k] = "hphp.json"
  BY <1>2, <1>3, OrderHasAll
<1>6. \A i \in DOMAIN a : a[i].file = s[i] /\ a[i].from = <<m, v>>
  BY <1>4 DEF Entry
<1>7. k \in DOMAIN a /\ a[k].file = "hphp.json"
  BY <1>4, <1>5, <1>6
<1>8. Unpacked(a, "hphp.json") = <<m, v>>
  BY <1>6, <1>7 DEF Unpacked
<1>9. \A i \in DOMAIN s : s[i] \in files
  BY <1>3 DEF Orders
<1>10. a # <<>>
  BY <1>7
<1> QED BY <1>2, <1>4, <1>6, <1>7, <1>8, <1>9, <1>10 DEF Has

\* The registry's answer is the whole archive.
LEMMA AnswerWhole ==
  ASSUME Images = FALSE, NEW m \in PkgNames, NEW v \in PkgVersions, NEW a \in Archives[<<m, v>>]
  PROVE  pkgnet_get(a) = a
<1>1. {i \in DOMAIN a : a[i].file = "image"} = {}
  BY ArchiveFacts
<1> QED BY <1>1 DEF pkgnet_get

(***************************************************************************)
(* Commands.                                                               *)
(***************************************************************************)
\* While p runs, or if nobody runs, the others are idle.
LEMMA OthersIdle ==
  ASSUME PkgInv, NEW p \in Commands, Runs(p) \/ \A q \in Commands : ~ Runs(q)
  PROVE  \A q \in Commands \ {p} : cmd[q].at = "idle"
BY DEF PkgInv, OneRuns, Runs, At

\* A step of the only running process leaves all commands honest if it leaves that one so.
LEMMA OneCommand ==
  ASSUME PkgInv, NEW p \in Commands, Runs(p) \/ \A q \in Commands : ~ Runs(q),
         NEW j, Goes(p, j), HonestCmd(j)'
  PROVE  /\ OneRuns' /\ \A q \in Commands : HonestCmd(cmd[q])'
         /\ cmd' = [q \in Commands |-> cmd'[q]]
<1>1. cmd' = [q \in Commands |-> IF q = p THEN j ELSE cmd[q]]
  BY DEF Goes, PkgInv, DiskShapes
<1>2. \A q \in Commands \ {p} : cmd'[q].at = "idle"
  BY <1>1, OthersIdle
<1>3. cmd'[p] = j
  BY <1>1
<1>4. OneRuns'
  BY <1>2 DEF OneRuns, Runs, At
<1>5. \A q \in Commands : HonestCmd(cmd[q])'
  BY <1>2, <1>3 DEF HonestCmd
<1> QED BY <1>1, <1>4, <1>5

\* Rows go on working when only a directory changes that a command has under its hands.
LEMMA RowsStay ==
  ASSUME NEW rows \in Rows, RowsWork(rows), NEW m, m \in torn', torn \subseteq torn',
         \A n \in PkgNames \ {m} : packages'[n] = packages[n]
  PROVE  RowsWork(rows)'
<1> SUFFICES ASSUME NEW r \in rows PROVE r[1] \in torn' \/ Works(r)'
  BY DEF RowsWork
<1>1. r[1] \in PkgNames
  BY DEF Rows
<1>2. r[1] \in torn \/ Works(r)
  BY DEF RowsWork
<1>3. CASE r[1] = m
  BY <1>3
<1>4. CASE r[1] # m
  BY <1>1, <1>2, <1>4 DEF Works
<1> QED BY <1>3, <1>4

\* What HonestCmd says of the running command, as the steps use it.
LEMMA CommandFacts ==
  ASSUME PkgInv, NEW p \in Commands, Runs(p)
  PROVE  /\ cmd[p] = [f \in CmdFields |-> cmd[p][f]]
         /\ cmd[p].of \in PkgNames /\ cmd[p].name = cmd[p].of /\ cmd[p].seen \in Rows
         /\ RemoveHonest(cmd[p]) \/ \E v \in PkgVersions : InstallHonest(cmd[p], v)
         /\ cmd[p].at \in {"truncate", "write"} => cmd[p].rows = cmd[p].seen /\ RowsWork(cmd[p].rows)
         /\ cmd[p].at # "write" => index = cmd[p].seen
BY DEF PkgInv, HonestCmd, Runs, At

\* The command goes on and nothing on disk that the invariant is about changes.
LEMMA OnlyGoes ==
  ASSUME PkgInv, NEW p \in Commands, Runs(p) \/ \A q \in Commands : ~ Runs(q),
         NEW j, Goes(p, j), HonestCmd(j)', UNCHANGED <<packages, index, torn>>,
         IsDirectory(staging')
  PROVE  PkgInv'
<1>1. OneRuns' /\ (\A q \in Commands : HonestCmd(cmd[q])') /\ cmd' = [q \in Commands |-> cmd'[q]]
  BY OneCommand
<1>2. DiskShapes'
  BY <1>1 DEF PkgInv, DiskShapes
<1>3. RowsWork(index)'
  BY DEF PkgInv, RowsWork, Works
<1> QED BY <1>1, <1>2, <1>3 DEF PkgInv

(***************************************************************************)
(* The steps.                                                              *)
(***************************************************************************)
\* Nothing is installed.
LEMMA PkgInitInv == PkgInit => PkgInv
<1> SUFFICES ASSUME PkgInit PROVE PkgInv
  OBVIOUS
<1>1. DiskShapes
  BY DEF PkgInit, DiskShapes, IsDirectory, NoFiles, Rows
<1>2. RowsWork(index)
  BY DEF PkgInit, RowsWork
<1>3. \A p \in Commands : cmd[p].at = "idle"
  BY DEF PkgInit, Idle
<1> QED BY <1>1, <1>2, <1>3 DEF PkgInv, OneRuns, Runs, At, HonestCmd

\* An installation starts with the archive that was asked for.
LEMMA InstallKeeps ==
  ASSUME PkgInv, Overlap = FALSE, NEW p \in Commands, NEW m \in PkgNames, NEW v \in PkgVersions,
         NEW a \in Archives[<<m, v>>], Starts(p, Installing(a, m))
  PROVE  PkgInv'
<1>0. PICK j : j = Installing(a, m)
  OBVIOUS
<1>1. /\ \A q \in Commands : ~ Runs(q)
      /\ Goes(p, j) /\ UNCHANGED <<packages, index, staging, torn>>
  BY <1>0 DEF Starts
<1>2. /\ j = [f \in CmdFields |-> j[f]] /\ j.at = "stage" /\ j.archive = a /\ j.of = m /\ j.name = m
      /\ j.version = 0 /\ j.seen = index
  BY <1>0 DEF Installing, CmdFields
<1>3. InstallHonest(j, v)'
  BY <1>2 DEF InstallHonest
<1>4. HonestCmd(j)'
  BY <1>1, <1>2, <1>3 DEF HonestCmd, PkgInv, DiskShapes
<1>5. IsDirectory(staging')
  BY <1>1 DEF PkgInv, DiskShapes
<1> QED BY <1>1, <1>4, <1>5, OnlyGoes

\* A removal starts.
LEMMA RemoveKeeps ==
  ASSUME PkgInv, Overlap = FALSE, NEW p \in Commands, pkg_cmd_remove(p)
  PROVE  PkgInv'
<1>1. PICK m \in PkgNames : Starts(p, [Installing(<<>>, m) EXCEPT !.at = "wipe"])
  BY DEF pkg_cmd_remove
<1>0. PICK j : j = [Installing(<<>>, m) EXCEPT !.at = "wipe"]
  OBVIOUS
<1>2. /\ \A q \in Commands : ~ Runs(q)
      /\ Goes(p, j) /\ UNCHANGED <<packages, index, staging, torn>>
  BY <1>0, <1>1 DEF Starts
<1>3. /\ j = [f \in CmdFields |-> j[f]] /\ j.at = "wipe" /\ j.of = m /\ j.name = m
      /\ j.version = 0 /\ j.seen = index
  BY <1>0 DEF Installing, CmdFields
<1>4. RemoveHonest(j)'
  BY <1>3 DEF RemoveHonest
<1>5. HonestCmd(j)'
  BY <1>2, <1>3, <1>4 DEF HonestCmd, PkgInv, DiskShapes
<1>6. IsDirectory(staging')
  BY <1>2 DEF PkgInv, DiskShapes
<1> QED BY <1>2, <1>5, <1>6, OnlyGoes

\* Unpacking writes the archive's manifest over what was there.
LEMMA ExtractFacts ==
  ASSUME Images = FALSE, NEW m \in PkgNames, NEW v \in PkgVersions, NEW a \in Archives[<<m, v>>], NEW dir
  PROVE  /\ IsDirectory(pkg_extract(a, dir))
         /\ pkg_extract(a, dir)["hphp.json"] = <<m, v>>
<1>1. Has(a, "hphp.json") /\ Unpacked(a, "hphp.json") = <<m, v>>
  BY ArchiveFacts
<1> QED BY <1>1 DEF pkg_extract, Files, IsDirectory

\* The archive is unpacked into the staging directory.
LEMMA StageKeeps == ASSUME PkgInv, Images = FALSE, NEW p \in Commands, Stage(p) PROVE PkgInv'
<1>0. PICK j : j = [cmd[p] EXCEPT !.at = "peek"]
  OBVIOUS
<1>1. /\ cmd[p].at = "stage" /\ Goes(p, j) /\ staging' = pkg_extract(cmd[p].archive, staging)
      /\ UNCHANGED <<packages, index, torn>>
  BY <1>0 DEF Stage, At
<1>2. Runs(p)
  BY <1>1 DEF Runs, At
<1>3. PICK v \in PkgVersions : InstallHonest(cmd[p], v)
  BY <1>1, <1>2, CommandFacts DEF RemoveHonest
<1>4. cmd[p].archive \in Archives[<<cmd[p].of, v>>] /\ cmd[p].of \in PkgNames /\ cmd[p].version = 0
  BY <1>1, <1>2, <1>3, CommandFacts DEF InstallHonest
<1>5. IsDirectory(staging') /\ staging'["hphp.json"] = <<cmd[p].of, v>>
  BY <1>1, <1>4, ExtractFacts
<1>6. /\ j = [f \in CmdFields |-> j[f]] /\ j.at = "peek" /\ j.archive = cmd[p].archive /\ j.of = cmd[p].of
      /\ j.name = cmd[p].name /\ j.version = cmd[p].version /\ j.seen = cmd[p].seen
  BY <1>0, <1>2, CommandFacts DEF CmdFields
<1>7. InstallHonest(j, v)'
  BY <1>4, <1>5, <1>6 DEF InstallHonest
<1>8. HonestCmd(j)'
  BY <1>1, <1>2, <1>6, <1>7, CommandFacts DEF HonestCmd
<1> QED BY <1>1, <1>2, <1>5, <1>8, OnlyGoes

\* The name and version read from the staging directory are those of the archive.
LEMMA PeekKeeps == ASSUME PkgInv, NEW p \in Commands, Peek(p) PROVE PkgInv'
<1>1. cmd[p].at = "peek" /\ UNCHANGED <<packages, index, staging, torn>>
  BY DEF Peek, At
<1>2. Runs(p)
  BY <1>1 DEF Runs, At
<1>3. PICK v \in PkgVersions : InstallHonest(cmd[p], v)
  BY <1>1, <1>2, CommandFacts DEF RemoveHonest
<1>4. /\ staging["hphp.json"] = <<cmd[p].of, v>> /\ cmd[p].archive \in Archives[<<cmd[p].of, v>>]
      /\ cmd[p].of \in PkgNames
  BY <1>1, <1>2, <1>3, CommandFacts DEF InstallHonest
<1>0. PICK j : j = [cmd[p] EXCEPT !.at = "wipe", !.name = cmd[p].of, !.version = v]
  OBVIOUS
<1>5. Goes(p, j)
  BY <1>0, <1>4 DEF Peek, Absent
<1>6. /\ j = [f \in CmdFields |-> j[f]] /\ j.at = "wipe" /\ j.archive = cmd[p].archive /\ j.of = cmd[p].of
      /\ j.name = cmd[p].of /\ j.version = v /\ j.seen = cmd[p].seen
  BY <1>0, <1>2, CommandFacts DEF CmdFields
<1>7. InstallHonest(j, v)'
  BY <1>4, <1>6 DEF InstallHonest
<1>8. HonestCmd(j)'
  BY <1>1, <1>2, <1>6, <1>7, CommandFacts DEF HonestCmd
<1>9. IsDirectory(staging')
  BY <1>1 DEF PkgInv, DiskShapes
<1> QED BY <1>1, <1>2, <1>5, <1>8, <1>9, OnlyGoes

\* A step changes the directory of the package it is of, which counts as half done.
LEMMA DirectoryChanges ==
  ASSUME PkgInv, NEW p \in Commands, Runs(p), NEW j, Goes(p, j), HonestCmd(j)',
         NEW d, IsDirectory(d), packages' = [packages EXCEPT ![cmd[p].of] = d],
         cmd[p].of \in torn', torn \subseteq torn', UNCHANGED <<index, staging>>
  PROVE  PkgInv'
<1>1. OneRuns' /\ (\A q \in Commands : HonestCmd(cmd[q])') /\ cmd' = [q \in Commands |-> cmd'[q]]
  BY OneCommand
<1>2. cmd[p].of \in PkgNames
  BY CommandFacts
<1>3. /\ packages' = [n \in PkgNames |-> packages'[n]] /\ packages'[cmd[p].of] = d
      /\ \A n \in PkgNames \ {cmd[p].of} : packages'[n] = packages[n]
  BY <1>2 DEF PkgInv, DiskShapes
<1>4. \A n \in PkgNames : IsDirectory(packages'[n])
  BY <1>3 DEF PkgInv, DiskShapes
<1>5. DiskShapes'
  BY <1>1, <1>3, <1>4 DEF PkgInv, DiskShapes
<1>6. RowsWork(index)'
  BY <1>3, RowsStay DEF PkgInv, DiskShapes, RowsWork
<1> QED BY <1>1, <1>5, <1>6 DEF PkgInv

\* The directory is emptied.
LEMMA WipeKeeps == ASSUME PkgInv, NEW p \in Commands, Wipe(p) PROVE PkgInv'
<1>0. PICK at : at = IF Removing(p) THEN "rows" ELSE "unpack"
  OBVIOUS
<1>1. PICK j : j = [cmd[p] EXCEPT !.at = at]
  OBVIOUS
<1>2. cmd[p].at = "wipe" /\ Goes(p, j) /\ UNCHANGED <<index, staging>>
  BY <1>0, <1>1 DEF Wipe, At
<1>3. Runs(p)
  BY <1>2 DEF Runs, At
<1>4. cmd[p].of \in PkgNames /\ cmd[p].name = cmd[p].of
  BY <1>3, CommandFacts
<1>5. packages' = [packages EXCEPT ![cmd[p].of] = NoFiles] /\ torn' = torn \cup {cmd[p].of}
  BY <1>4 DEF Wipe
<1>6. /\ j = [f \in CmdFields |-> j[f]] /\ j.at = at /\ j.archive = cmd[p].archive /\ j.of = cmd[p].of
      /\ j.name = cmd[p].name /\ j.version = cmd[p].version /\ j.seen = cmd[p].seen
  BY <1>1, <1>3, CommandFacts DEF CmdFields
<1>7. at \in {"rows", "unpack"} /\ (at = "rows" <=> cmd[p].version = 0)
  BY <1>0 DEF Removing
<1>8. RemoveHonest(j)' \/ \E v \in PkgVersions : InstallHonest(j, v)'
  <2>1. CASE RemoveHonest(cmd[p])
    <3>1. RemoveHonest(j)'
      BY <1>5, <1>6, <1>7, <2>1 DEF RemoveHonest
    <3> QED BY <3>1
  <2>2. ASSUME NEW v \in PkgVersions, InstallHonest(cmd[p], v) PROVE InstallHonest(j, v)'
    <3>1. cmd[p].version = v /\ v # 0
      BY <1>2, <2>2, PackagesAssumption DEF InstallHonest
    <3> QED BY <1>5, <1>6, <1>7, <2>2, <3>1 DEF InstallHonest
  <2> QED BY <1>3, <2>1, <2>2, CommandFacts
<1>9. HonestCmd(j)'
  BY <1>2, <1>3, <1>6, <1>7, <1>8, CommandFacts DEF HonestCmd
<1>10. IsDirectory(NoFiles)
  BY DEF NoFiles, IsDirectory
<1> QED BY <1>2, <1>3, <1>5, <1>9, <1>10, DirectoryChanges

\* The archive is unpacked into the package's directory.
LEMMA UnpackKeeps == ASSUME PkgInv, Images = FALSE, NEW p \in Commands, Unpack(p) PROVE PkgInv'
<1>0. PICK j : j = [cmd[p] EXCEPT !.at = "entry"]
  OBVIOUS
<1>1. PICK d : d = pkg_extract(cmd[p].archive, packages[cmd[p].of])
  OBVIOUS
<1>2. cmd[p].at = "unpack" /\ UNCHANGED <<index, staging, torn>>
  BY DEF Unpack, At
<1>3. Runs(p)
  BY <1>2 DEF Runs, At
<1>4. PICK v \in PkgVersions : InstallHonest(cmd[p], v)
  BY <1>2, <1>3, CommandFacts DEF RemoveHonest
<1>5. /\ cmd[p].archive \in Archives[<<cmd[p].of, v>>] /\ cmd[p].version = v /\ cmd[p].of \in torn
      /\ cmd[p].of \in PkgNames /\ cmd[p].name = cmd[p].of
  BY <1>2, <1>3, <1>4, CommandFacts DEF InstallHonest
<1>6. cmd[p].archive # <<>>
  BY <1>5, ArchiveFacts
<1>7. Goes(p, j) /\ packages' = [packages EXCEPT ![cmd[p].of] = d]
  BY <1>0, <1>1, <1>5, <1>6 DEF Unpack, PkgInv, DiskShapes
<1>8. IsDirectory(d) /\ d["hphp.json"] = <<cmd[p].of, v>>
  BY <1>1, <1>5, ExtractFacts
<1>9. /\ j = [f \in CmdFields |-> j[f]] /\ j.at = "entry" /\ j.archive = cmd[p].archive /\ j.of = cmd[p].of
      /\ j.name = cmd[p].name /\ j.version = cmd[p].version /\ j.seen = cmd[p].seen
  BY <1>0, <1>3, CommandFacts DEF CmdFields
<1>10. packages'[cmd[p].of] = d
  BY <1>5, <1>7 DEF PkgInv, DiskShapes
<1>11. InstallHonest(j, v)'
  BY <1>2, <1>5, <1>8, <1>9, <1>10 DEF InstallHonest
<1>12. HonestCmd(j)'
  BY <1>2, <1>3, <1>9, <1>11, CommandFacts DEF HonestCmd
<1> QED BY <1>2, <1>3, <1>5, <1>7, <1>8, <1>12, DirectoryChanges

\* A package without its entry is not registered.
LEMMA CheckKeeps == ASSUME PkgInv, NEW p \in Commands, CheckEntry(p) PROVE PkgInv'
<1>1. cmd[p].at = "entry" /\ UNCHANGED <<packages, index, staging, torn>>
  BY DEF CheckEntry, At
<1>2. Runs(p)
  BY <1>1 DEF Runs, At
<1>3. PICK v \in PkgVersions : InstallHonest(cmd[p], v)
  BY <1>1, <1>2, CommandFacts DEF RemoveHonest
<1>4. cmd[p].of \in PkgNames /\ cmd[p].name = cmd[p].of /\ IsDirectory(staging')
  BY <1>1, <1>2, CommandFacts DEF PkgInv, DiskShapes
<1>5. CASE packages[cmd[p].of]["entry"] = Absent
  <2>1. Goes(p, Idle)
    BY <1>4, <1>5 DEF CheckEntry
  <2>2. HonestCmd(Idle)'
    BY DEF HonestCmd, Idle
  <2> QED BY <1>1, <1>2, <1>4, <2>1, <2>2, OnlyGoes
<1>6. CASE packages[cmd[p].of]["entry"] # Absent
  <2>0. PICK j : j = [cmd[p] EXCEPT !.at = "rows"]
    OBVIOUS
  <2>1. Goes(p, j)
    BY <2>0, <1>4, <1>6 DEF CheckEntry
  <2>2. /\ j = [f \in CmdFields |-> j[f]] /\ j.at = "rows" /\ j.archive = cmd[p].archive /\ j.of = cmd[p].of
        /\ j.name = cmd[p].name /\ j.version = cmd[p].version /\ j.seen = cmd[p].seen
    BY <2>0, <1>2, CommandFacts DEF CmdFields
  <2>3. InstallHonest(j, v)'
    BY <1>1, <1>3, <1>6, <2>2 DEF InstallHonest
  <2>4. HonestCmd(j)'
    BY <1>1, <1>2, <2>2, <2>3, CommandFacts DEF HonestCmd
  <2> QED BY <1>1, <1>2, <1>4, <2>1, <2>4, OnlyGoes
<1> QED BY <1>5, <1>6

\* The rows are read to be changed.
LEMMA ReadKeeps == ASSUME PkgInv, NEW p \in Commands, ReadRows(p) PROVE PkgInv'
<1>0. PICK j : j = [cmd[p] EXCEPT !.at = "truncate", !.rows = index]
  OBVIOUS
<1>1. cmd[p].at = "rows" /\ Goes(p, j) /\ UNCHANGED <<packages, index, staging, torn>>
  BY <1>0 DEF ReadRows, At
<1>2. Runs(p)
  BY <1>1 DEF Runs, At
<1>3. /\ j = [f \in CmdFields |-> j[f]] /\ j.at = "truncate" /\ j.archive = cmd[p].archive /\ j.of = cmd[p].of
      /\ j.name = cmd[p].name /\ j.version = cmd[p].version /\ j.seen = cmd[p].seen /\ j.rows = index
  BY <1>0, <1>2, CommandFacts DEF CmdFields
<1>4. RemoveHonest(j)' \/ \E v \in PkgVersions : InstallHonest(j, v)'
  <2>1. CASE RemoveHonest(cmd[p])
    BY <1>1, <1>3, <2>1 DEF RemoveHonest
  <2>2. ASSUME NEW v \in PkgVersions, InstallHonest(cmd[p], v) PROVE InstallHonest(j, v)'
    BY <1>1, <1>3, <2>2 DEF InstallHonest
  <2> QED BY <1>2, <2>1, <2>2, CommandFacts
<1>5. index = j.seen /\ RowsWork(j.rows)'
  <2>1. RowsWork(index)'
    BY <1>1 DEF PkgInv, RowsWork, Works
  <2>2. index' = j.rows /\ index = j.seen
    BY <1>1, <1>2, <1>3, CommandFacts
  <2> QED BY <2>1, <2>2 DEF RowsWork
<1>6. HonestCmd(j)'
  BY <1>1, <1>2, <1>3, <1>4, <1>5, CommandFacts DEF HonestCmd
<1>7. IsDirectory(staging')
  BY <1>1 DEF PkgInv, DiskShapes
<1> QED BY <1>1, <1>2, <1>6, <1>7, OnlyGoes

\* registry.json is rewritten; a step that touches neither directories nor staging.
LEMMA IndexChanges ==
  ASSUME PkgInv, NEW p \in Commands, Runs(p), NEW j, Goes(p, j), HonestCmd(j)',
         UNCHANGED <<packages, staging>>, index' \in Rows, RowsWork(index)'
  PROVE  PkgInv'
<1>1. OneRuns' /\ (\A q \in Commands : HonestCmd(cmd[q])') /\ cmd' = [q \in Commands |-> cmd'[q]]
  BY OneCommand
<1>2. DiskShapes'
  BY <1>1 DEF PkgInv, DiskShapes
<1> QED BY <1>1, <1>2 DEF PkgInv

\* fopen empties registry.json.
LEMMA TruncateKeeps == ASSUME PkgInv, NEW p \in Commands, Truncate(p) PROVE PkgInv'
<1>0. PICK j : j = [cmd[p] EXCEPT !.at = "write"]
  OBVIOUS
<1>1. cmd[p].at = "truncate" /\ Goes(p, j) /\ index' = {} /\ UNCHANGED <<packages, staging, torn>>
  BY <1>0 DEF Truncate, At
<1>2. Runs(p)
  BY <1>1 DEF Runs, At
<1>3. /\ j = [f \in CmdFields |-> j[f]] /\ j.at = "write" /\ j.archive = cmd[p].archive /\ j.of = cmd[p].of
      /\ j.name = cmd[p].name /\ j.version = cmd[p].version /\ j.seen = cmd[p].seen /\ j.rows = cmd[p].rows
  BY <1>0, <1>2, CommandFacts DEF CmdFields
<1>4. RemoveHonest(j)' \/ \E v \in PkgVersions : InstallHonest(j, v)'
  <2>1. CASE RemoveHonest(cmd[p])
    BY <1>1, <1>3, <2>1 DEF RemoveHonest
  <2>2. ASSUME NEW v \in PkgVersions, InstallHonest(cmd[p], v) PROVE InstallHonest(j, v)'
    BY <1>1, <1>3, <2>2 DEF InstallHonest
  <2> QED BY <1>2, <2>1, <2>2, CommandFacts
<1>5. j.rows = j.seen /\ RowsWork(j.rows)'
  <2>1. RowsWork(cmd[p].rows) /\ cmd[p].rows = cmd[p].seen
    BY <1>1, <1>2, CommandFacts
  <2> QED BY <1>1, <1>3, <2>1 DEF RowsWork, Works
<1>6. HonestCmd(j)'
  BY <1>1, <1>2, <1>3, <1>4, <1>5, CommandFacts DEF HonestCmd
<1>7. index' \in Rows /\ RowsWork(index)'
  BY <1>1 DEF Rows, RowsWork
<1> QED BY <1>1, <1>2, <1>6, <1>7, IndexChanges

\* The changed rows are written: the one that was added works.
LEMMA WriteKeeps == ASSUME PkgInv, NEW p \in Commands, WriteRows(p) PROVE PkgInv'
<1>1. /\ cmd[p].at = "write" /\ Goes(p, Idle) /\ UNCHANGED <<packages, staging>>
      /\ torn' = torn \ {cmd[p].name}
  BY DEF WriteRows, At
<1>2. Runs(p)
  BY <1>1 DEF Runs, At
<1>3. /\ cmd[p].name = cmd[p].of /\ cmd[p].of \in PkgNames /\ cmd[p].rows \in Rows /\ RowsWork(cmd[p].rows)
  BY <1>1, <1>2, CommandFacts
<1>4. HonestCmd(Idle)'
  BY DEF HonestCmd, Idle
<1>5. \A r \in Others(cmd[p].rows, cmd[p].of) : r \in PkgNames \X PkgVersions /\ (r[1] \in torn' \/ Works(r)')
  <2> SUFFICES ASSUME NEW r \in Others(cmd[p].rows, cmd[p].of)
               PROVE  r \in PkgNames \X PkgVersions /\ (r[1] \in torn' \/ Works(r)')
    OBVIOUS
  <2>1. r \in cmd[p].rows /\ r[1] # cmd[p].of
    BY DEF Others
  <2> QED BY <1>1, <1>3, <2>1 DEF Rows, RowsWork, Works
<1>6. CASE cmd[p].version = 0
  <2>1. index' = Others(cmd[p].rows, cmd[p].of)
    BY <1>3, <1>6 DEF WriteRows, Removing, pkg_registry_remove
  <2>2. index' \in Rows /\ RowsWork(index)'
    BY <1>5, <2>1 DEF Rows, RowsWork
  <2> QED BY <1>1, <1>2, <1>4, <2>2, IndexChanges
<1>7. CASE cmd[p].version # 0
  <2>1. PICK v \in PkgVersions : InstallHonest(cmd[p], v)
    BY <1>2, <1>7, CommandFacts DEF RemoveHonest
  <2>2. /\ cmd[p].version = v /\ packages[cmd[p].of]["hphp.json"] = <<cmd[p].of, v>>
        /\ packages[cmd[p].of]["entry"] # Absent
    BY <1>1, <2>1 DEF InstallHonest
  <2>0. PICK row : row = <<cmd[p].of, v>>
    OBVIOUS
  <2>3. index' = Others(cmd[p].rows, cmd[p].of) \cup {row}
    <3>1. ~ Removing(p)
      BY <1>7 DEF Removing
    <3>2. index' = pkg_registry_add(cmd[p].rows, cmd[p].of, v)
      BY <1>3, <2>2, <3>1 DEF WriteRows
    <3> QED BY <2>0, <3>2 DEF pkg_registry_add, Row
  <2>4. row[1] = cmd[p].of /\ row \in PkgNames \X PkgVersions
    BY <1>3, <2>0
  <2>5. Works(row)'
    <3>1. packages'[row[1]] = packages[cmd[p].of]
      BY <1>1, <2>4
    <3> QED BY <2>0, <2>2, <3>1 DEF Works
  <2>6. index' \in Rows /\ RowsWork(index)'
    BY <1>5, <2>3, <2>4, <2>5 DEF Rows, RowsWork
  <2> QED BY <1>1, <1>2, <1>4, <2>6, IndexChanges
<1> QED BY <1>6, <1>7

\* Killed between two file operations: what the command had under its hands stays torn.
LEMMA KilledKeeps == ASSUME PkgInv, NEW p \in Commands, Killed(p) PROVE PkgInv'
<1>1. Runs(p) /\ Goes(p, Idle) /\ UNCHANGED <<packages, index, staging, torn>>
  BY DEF Killed
<1>2. HonestCmd(Idle)' /\ IsDirectory(staging')
  BY <1>1 DEF HonestCmd, Idle, PkgInv, DiskShapes
<1> QED BY <1>1, <1>2, OnlyGoes

\* Every step keeps the invariant.
LEMMA PkgStep ==
  ASSUME PkgInv, Overlap = FALSE, Images = FALSE, PkgNext
  PROVE  PkgInv'
<1>1. PICK p \in Commands :
        \/ InstallFile(p) \/ InstallRegistry(p) \/ pkg_cmd_remove(p)
        \/ Stage(p) \/ Peek(p) \/ Wipe(p) \/ Unpack(p) \/ CheckEntry(p)
        \/ ReadRows(p) \/ Truncate(p) \/ WriteRows(p) \/ Killed(p)
  BY DEF PkgNext
<1>2. CASE InstallFile(p)
  BY <1>2, InstallKeeps DEF InstallFile
<1>3. CASE InstallRegistry(p)
  BY <1>3, AnswerWhole, InstallKeeps DEF InstallRegistry
<1>4. CASE pkg_cmd_remove(p)
  BY <1>4, RemoveKeeps
<1>5. CASE Stage(p) \/ Peek(p) \/ Wipe(p)
  BY <1>5, StageKeeps, PeekKeeps, WipeKeeps
<1>6. CASE Unpack(p) \/ CheckEntry(p)
  BY <1>6, UnpackKeeps, CheckKeeps
<1>7. CASE ReadRows(p) \/ Truncate(p) \/ WriteRows(p) \/ Killed(p)
  BY <1>7, ReadKeeps, TruncateKeeps, WriteKeeps, KilledKeeps
<1> QED BY <1>1, <1>2, <1>3, <1>4, <1>5, <1>6, <1>7

\* The invariant without the hypotheses on the constants.
LEMMA PkgAlways ==
  ASSUME Overlap = FALSE, Images = FALSE
  PROVE  PkgSpec => []PkgInv
<1>1. PkgInit => PkgInv
  BY PkgInitInv
<1>2. PkgInv /\ [PkgNext]_pkgVars => PkgInv'
  <2>1. ASSUME PkgInv, UNCHANGED pkgVars PROVE PkgInv'
    <3>1. UNCHANGED <<packages, index, staging, cmd, torn>>
      BY <2>1 DEF pkgVars
    <3>2. DiskShapes'
      BY <2>1, <3>1 DEF PkgInv, DiskShapes
    <3>3. \A rows : RowsWork(rows) => RowsWork(rows)'
      BY <3>1 DEF RowsWork, Works
    <3>4. OneRuns'
      BY <2>1, <3>1 DEF PkgInv, OneRuns, Runs, At
    <3>5. \A p \in Commands : HonestCmd(cmd[p])'
      <4>1. \A j, v : InstallHonest(j, v) => InstallHonest(j, v)'
        BY <3>1 DEF InstallHonest
      <4>2. \A j : RemoveHonest(j) => RemoveHonest(j)'
        BY <3>1 DEF RemoveHonest
      <4>3. \A j : HonestCmd(j) => HonestCmd(j)'
        BY <3>1, <3>3, <4>1, <4>2 DEF HonestCmd
      <4> QED BY <2>1, <3>1, <4>3 DEF PkgInv
    <3>6. RowsWork(index)'
      BY <2>1, <3>1, <3>3 DEF PkgInv
    <3> QED BY <3>2, <3>4, <3>5, <3>6 DEF PkgInv
  <2> QED BY <2>1, PkgStep
<1> QED BY <1>1, <1>2, PTL DEF PkgSpec

(***************************************************************************)
(* The theorems.                                                           *)
(***************************************************************************)
\* Whatever command is refused or killed between two file operations, a package that is
\* listed and not left half done has its manifest in the listed version and its entry: the
\* row is written last (pkg_install_file, pkg_registry_add).  Two commands at once lose rows
\* of each other, and an archive cut at a NUL byte can lack its manifest; both are outside
\* the hypotheses.
THEOREM ListedPackagesWork ==
  PkgSpec /\ Overlap = FALSE /\ Images = FALSE => []ListedWorks
<1> SUFFICES ASSUME Overlap = FALSE, Images = FALSE PROVE PkgSpec => []ListedWorks
  OBVIOUS
<1>1. PkgInv => ListedWorks
  BY DEF PkgInv, RowsWork, ListedWorks
<1> QED BY <1>1, PkgAlways, PTL

\* A directory only changes under the command that was asked about it.
LEMMA OthersKeptStep ==
  ASSUME PkgInv, PkgNext, NEW n \in PkgNames, packages'[n] # packages[n]
  PROVE  \E p \in Commands : Runs(p) /\ cmd[p].of = n
<1>1. PICK p \in Commands : Wipe(p) \/ Unpack(p)
  <2> USE DEF InstallFile, InstallRegistry, pkg_cmd_remove, Starts, Stage, Peek, CheckEntry, ReadRows, Truncate,
              WriteRows, Killed
  <2> QED BY DEF PkgNext
<1>2. Runs(p)
  BY <1>1 DEF Wipe, Unpack, Runs, At
<1>3. \E d : packages' = [packages EXCEPT ![cmd[p].of] = d]
  BY <1>1, <1>2, CommandFacts DEF Wipe, Unpack
<1>4. cmd[p].of = n
  BY <1>2, <1>3, CommandFacts DEF PkgInv, DiskShapes
<1> QED BY <1>2, <1>4

\* The rows that a command leaves are the ones it found, but for its own.
LEMMA RowsKeptStep ==
  ASSUME PkgInv, PkgNext, NEW p \in Commands, Finishes(p)
  PROVE  Others(index', cmd[p].name) = Others(cmd[p].seen, cmd[p].name)
<1>1. cmd[p].at = "write" /\ index' # index /\ Runs(p)
  BY DEF Finishes, At, Runs
<1>2. PICK q \in Commands : Truncate(q) \/ WriteRows(q)
  <2> USE DEF InstallFile, InstallRegistry, pkg_cmd_remove, Starts, Stage, Peek, Wipe, Unpack, CheckEntry, ReadRows,
              Killed
  <2> QED BY <1>1 DEF PkgNext
<1>3. Runs(q)
  BY <1>2 DEF Truncate, WriteRows, Runs, At
<1>4. q = p
  BY <1>1, <1>3 DEF PkgInv, OneRuns
<1>5. WriteRows(p)
  BY <1>1, <1>2, <1>4 DEF Truncate, At
<1>6. cmd[p].rows = cmd[p].seen
  BY <1>1, CommandFacts
<1>7. \/ index' = Others(cmd[p].rows, cmd[p].name)
      \/ \E v : index' = Others(cmd[p].rows, cmd[p].name) \cup {<<cmd[p].name, v>>}
  BY <1>5 DEF WriteRows, pkg_registry_add, pkg_registry_remove, Row
<1> QED BY <1>6, <1>7 DEF Others

\* Installing and removing touch neither the directory nor the row of another package,
\* although the name of what is installed is read from a staging directory nobody empties
\* (pkg_install_file, pkg_registry_add, pkg_registry_remove).
THEOREM CommandsStayApart ==
  PkgSpec /\ Overlap = FALSE /\ Images = FALSE => OthersUntouched
<1> SUFFICES ASSUME Overlap = FALSE, Images = FALSE PROVE PkgSpec => OthersUntouched
  OBVIOUS
<1>1. PkgInv /\ [PkgNext]_pkgVars
        => [\A n \in PkgNames : packages'[n] # packages[n] => \E p \in Commands : Runs(p) /\ cmd[p].of = n]_pkgVars
  BY OthersKeptStep
<1>2. PkgInv /\ [PkgNext]_pkgVars
        => [\A p \in Commands : Finishes(p) => Others(index', cmd[p].name) = Others(cmd[p].seen, cmd[p].name)]_pkgVars
  BY RowsKeptStep
<1> QED BY <1>1, <1>2, PkgAlways, PTL DEF PkgSpec, OthersUntouched, OthersKept, RowsKept
=============================================================================
