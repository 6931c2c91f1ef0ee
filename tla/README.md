# HolyPHP in TLA+

HolyPHP is a compiler (`src/src/hphpc`) that turns a typed PHP dialect into C,
a C runtime the result links with (`src/src/hphpc/runtime`), libraries written
in the language (`src/lib`), a package manager inside the compiler, and a
package registry server (`src/registry`).  This directory models them in four
groups, each of which is checked in one run: what several threads share (and
the event loop), what deals with files, peers and the C stack, what runs in one
thread on its own data (the front end, the builtins, strings and arrays), and
the compiler from the syntax tree to C.

All file names below are relative to `src/`; `THR` is
`src/hphpc/runtime/hphp_thr.c`, `RT` is `src/hphpc/runtime/hphp_rt.c`, `STD` is
`src/hphpc/runtime/hphp_std.c`.

## 1. Inventory

| Component | State | Operations | Talks to | What makes it correct |
|---|---|---|---|---|
| Channels, `THR` 233-486 | `g_chan`: records with a ring buffer, `closed`, two queues of `ChanWaiter`s; each waiter has its own mutex, condition and `done` flag | `chan_new`, `chan_send`, `chan_try_send`, `chan_recv`, `chan_try_recv`, `chan_close` | used by Pool, `thr_parallel_map`, user code | no lost wake-up, FIFO, back pressure, close releases receivers, each value delivered once |
| Threads, `THR` 79-231 | `g_thr`, `g_thr_len`, next id | `thr_spawn`, `thr_join`, `thr_current` | trampoline runs a closure | join waits for the end |
| Mutexes, `THR` 488-561 | `g_mu`, a growable table behind `g_mu_reg` | `mutex_new/_lock/_trylock/_unlock/_free` | user code | mutual exclusion, whatever other mutexes are created and freed |
| Barriers, `THR` 563-627 | `g_bar`: need, seen, round | `barrier_new`, `barrier_wait` | user code | nobody leaves early, all leave, rounds do not mix |
| Atomics, sleep, cpu count | one table and one lock | `atomic_*` | user code | each call is one critical section |
| `thr_parallel_map`, `THR` 705-787 | handles, result channel, slots | one call: launch, inline fallback, join, collect | channels, threads | results in item order, no send blocks, returns |
| Pool, `lib/thread/thread.hphp` 146-238 | `taskCh`, `resultCh`, `jobseq`, `running` | `start`, `submit`, `collect`, `waitOne`, `shutdown`, the worker loop | two channels | no job lost or done twice, bounded work in flight, workers exit |
| Arrays and maps, `RT` 480-900 | keys and values in insertion order, `next_index`, open addressing index with tombstones and a budget | set, get, unset, push, pop, shift, unshift, clone, sort, slice | all generated code | a key held is found, no key twice, probes end, a removed key is gone |
| Strings, `RT` 90-480 | length, capacity, bytes | concatenation in place and by copy, slices, case, search, trim, number conversions | all generated code | value semantics; a search, a split and a join agree |
| Exceptions and closures, `RT` 1190-1280 | handler chain `hp_cur_try`, `hp_cur_env` | `hp_try_run`, `hp_throw`, `hp_closure_call_arr` | generated code, threads | the chain names exactly the frames that are still on the stack |
| Streams and sockets, `STD` 1800-2100 | `g_sock`, a sticky end-of-file flag per handle | open, accept, recv, send, ready, close | event loop, servers | end of file is said of the connection that is over or that a send failed on |
| Text, formats, JSON, regex, dates, `STD` | none, but for the regex context | some 300 builtins | generated code | decoders undo encoders, sorts and comparisons agree, a pattern matches what it denotes |
| MySQL client, `STD` 4050-4340 | one connection, packet buffer, last result | connect, query, close | a server | an answer belongs to its query |
| Event loop, `lib/async` | timers, watchers, HTTP requests | `tick`, `run`, `setTimeout`, `httpGet` | streams | a flagged timer is silent, a request settles, watchers name live sockets |
| WebSocket server, `lib/websocket` | client slots, handshake, fragments | `poll`, `send`, `drop`, callbacks | streams | open, whole messages in order, close once and last |
| Registry server, `registry/server.hphp` | archive files, `latest`, metadata | publish, list, download | streams, files | metadata and archive agree, also after a crash |
| Package manager, `pkgcore.c`, `pkgnet.c`, `main.c` | installed trees, registry file, staging directory | pack, install, remove, publish | registry server | a listed package works, others are untouched |
| Build driver, `main.c` | runtime sources in the build directory, object and program caches | extract, compile, link, run | compiler passes, gcc | what runs is what was loaded |
| Import loader, `main.c` | list of loaded files | `load_import`, `load_source_recursive` | parser | each file once, after what it imports |
| Lexer, parser, `lexer.c`, `parser.c` | position, `loop_depth` | one pass | | the tree the author meant |
| Type and borrow checker, `sema.c` | scopes, symbols, loans, captures | one pass | code generator reads its annotations | what it accepts compiles; no use after a move |
| Code generator, `codegen.c` | closures, try helpers, labels | one pass | gcc, runtime | the C code does what the source says |
| UI toolkit, WebView2, browser demo, embedded runtime, editor extension, packaging | platform state | | | left out |

Hard behaviours: blocking calls whose wake-up is sent by another thread
(channels, barriers), pointers into tables that other threads move, memory given
back by one thread and looked at by another, mutual waiting of clients and
workers (Pool), some of several thread creations failing (`thr_parallel_map`),
rebuilding an index in the middle of an insertion (maps), strings that grow in
place under other holders, callbacks that change the table being walked (event
loop, WebSocket), descriptors given out again (sockets), commands killed between
two writes and two compilers over one cache (packages, builds), `longjmp` over
`try` statements that became C functions of their own, and two passes that each
compute the type of every expression (`sema.c`, `codegen.c`).  `PROJECT.json`
lists them under "hazards", each at its line, with the properties that would
catch it.

## 2. Modules and the code

Every critical section of a lock is one action; a blocking call is split where
it goes to sleep.  Operators named `Slip*` stand in front of the definition they
resemble: each is a plausible mistake in it, no specification uses them, and
each, put in its place, breaks a property, which shows that the property
depends on that code.

**`ChannelSpec`** is what a channel promises: a sequence of accepted values, of
which a prefix has been taken, and a closed flag after which nothing more is
accepted.

**`Channel`** is one `ChanRec` and the threads on it.  `ch` is the record (`cap`,
`buf`, `head`, `tail`, `len`, `closed`, `sendq`, `recvq`), `wt[t]` the call thread
`t` is blocked in with its `ChanWaiter`, `hist` a history variable: the values
accepted, taken for a receiver, and returned by a receive.  `SendHandoff`,
`SendBuffer`, `SendQueue` and `SendRefused` are the branches of
`chan_send_impl`; `RecvBuffer` (which also moves a queued sender into the freed
slot), `RecvSender`, `RecvClosed`, `RecvQueue` those of the loop in
`chan_recv_impl`; `SendWake`, `RecvWake`, `RecvWakeNull` are the wake-ups, the last
going around the loop again with `ch->mu` held; `Close` is `chan_close`.  The
capacity is chosen by `Init` from the set `Capacity`, so one run covers the
rendezvous and buffered code together.  A waiter's fields stay as they
are until its own thread is done with them (see 5.1).

**`MutexTable`** has the table with its block address and capacity; lock, trylock
and unlock are two steps each, the lookup under `g_mu_reg` and the use of the
pointer found.  The constant `MoveUnderUse` says whether a record may move while
some call is between its halves.

**`Barrier`** is one barrier over several rounds; `Arrive` is `barrier_wait` up to its
sleep (or its end for the last arrival), `Leave` the way out of the sleep, `Move` the
growth of `g_bar` by another `barrier_new`.  `MoveUnderWaiters` says whether it
may happen while threads sleep in the old block.

**`ThreadTable`** is `thr_spawn` (reserve, create or fail, return), the end of the
thread, `thr_join` and `thr_current`, by concurrent callers.

**`ParallelMap`** is one call of `thr_parallel_map`.  It uses its channel only through
`ChannelSpec`; that no send on it could have blocked is an invariant
(`SendsFindRoom`), which is what justifies that.  A worker's failing allocations
are `skipped` items.

**`Pool`** composes two instances of `Channel` (`Task`, `Result`) with the fields
of the class and the loop of each worker: a pool step is the channel step of the
thread that makes it together with the rest of that thread's state.
`DocScript` restricts the client to the script in `docs/lib-thread.html`.

**`HashMap`** is an `harr` with `is_map`: slots (those behind `len` keep what was
written last), `next_index`, and the index `ix` with its entries, size and budget.
`Rebuild`, `IndexAdd`, `IndexDel`, `KeyIndex` are `hp_arr_index_rebuild`, `_add`, `_del`
and `hp_key_index`; `Set`, `Unset`, `Push`, `Unshift`, `Pop`, `Shift`, `Clone` the
operations.  The lengths 12 and 32 of the code are `MinIndex` and `FirstICap`, the
hash of a key is a constant function.  With `Careful` the program keeps away
from what the index does not follow: it pushes, pops, shifts and unshifts only
maps without an index, removes only keys it holds, and has maps without an
index only as long as the first index has room for.

**`StoreSpec`** says what variables promise: each holds a value of its own, and a
statement gives one variable a new value.  **`Store`** is the heap under it:
variables hold addresses, an assignment shares a string and clones an array, a
concatenation appends in place if the left string has room (`hp_str_concat2`), a
closure shares what it captures.  `Rough*` are the statements that let another
variable see the change; with `Smooth` they are left out, and the rest is shown
to implement `StoreSpec`.

**`Strings`**, **`Formats`**, **`Json`**, **`Regex`**, **`Values`**, **`Arrays`** are the
pure functions of `RT` and `STD`, as operators over byte sequences, values
and arrays, one operator per C function and with its name.  Floats are exact
rationals, integers wrap at `IntBits`; what the code leaves uninitialised is the
value `junk`.  **`Exchange`** does the same for texts that one run writes and another
reads: manifests, `registry.json`, archives, the registry's address, HTTP requests and
answers (`pkgcore.c`, `pkgnet.c`, the package commands of `main.c`, the HTTP client of
`STD`), files, password hashes (the digest is opaque, the key of
the HMAC is filled up with zeros as in the code) and SQL literals.  **`Library`**
lets the arguments of one topic (words, paths, values, packages, archives, projects,
addresses, files, ...) grow byte by byte, calls the functions of that topic and states
laws over the results, against references such as `Edits`, `Denotes` or a calendar.

**`Mysql`** is the client over one connection, packet by packet, with a server that
may vanish; rows are written and taken apart byte by byte.  **`Unwind`** has the C stack as a sequence of frames, `longjmp` as cutting
it, and the chain of handlers.  **`Sockets`** is the table of handles over a kernel
that gives out the lowest free descriptor.  **`Loop`** is `lib/async` over such
descriptors. `$this->timers` is filled with 0, 1, 2, ..., so it is a list and stays one
(`RT` 823): an id is a place in it (`RT` 679), and `unset` moves the last timer into the
gap (`RT` 763-780), under another id. The model has the list, and gives each timer the
`id` that `after` returned so that properties can follow it; `cancelTimer`, the places
`tick` collects (`pass.due`) and `UnsetTimer` go by place, as in the code. A pass of
`tick` takes the places in order: it runs the timer that is there by now (`RunTimer`),
passes over a flagged one (`SkipTimer`), or, when the list has become shorter, calls
null, which throws out of `run()` (`CallNull`; the program may catch it and run the loop
again, `RunAgain`). The ready watchers follow. A callback may start a request, cancel a
timer by its id or stop watching; two timers are there at first, more come with requests.
**`WebSocket`** is
`lib/websocket`: a read takes any part of what the peer sent, the frames in it are
worked off one by one, and each callback may close a client.

**`Packages`** is the disk of the package manager, every file operation a step, a kill
between any two; the rows of `registry.json` are a set, their order is layout.
**`Build`** is `main` from loading to running, with the two caches and the runtime
sources that are opened, cut short, written and closed.  **`Imports`** is
the resolution of an import over all spellings the code tries, and the order of the
files loaded.

**`Lexer`** and **`Parser`** are `lexer.c` and `parser.c`; **`FrontEnd`** is an author who
writes expressions, statements, literals and templates from the documented
precedence table and knows what is meant.  **`Sema`** and **`Codegen`** are the checker
and the generator over trees: `check_expr` returns the annotated tree, `codegen_emit` C
code of which each expression keeps its C type, whether C accepts it, and the
calls in it in order.  `Builtin` is the whole table of `builtins.c`, `Arity` the functions
`hphp_rt.h` declares, and `BuiltinsLackingC` says where the two differ.  **`CCode`** runs such code (jumps, labels, `hp_try_run`) and,
beside it, the statements of the source, both against the same oracle.
**`CompilerPrograms`** builds the programs, **`Compiler`** is what `main` makes of them: `sema_run`,
and if it accepts, `codegen_emit` and the C compiler.

`Concurrency`, `Systems` and `Sequential` put components into one run. The components in
each share no state, so a behaviour is of one `part` and the others rest; this is a way
to check them together, not a composition (the compositions are `Pool` over two
`Channel`s, `ParallelMap` over `ChannelSpec`, `Compiler` over `Sema`, `Codegen` and
`CCode`, `FrontEnd` over `Lexer` and `Parser`).

The theorems are in modules of their own, each over the modules it is about:
`Channel_proofs` and `ChannelFifo_proofs` (`Channel`, `ChannelSpec`), `Sync_proofs`
(`MutexTable`, `Barrier`, `Pool`, and the three in `Concurrency`), `ParallelMap_proofs`,
`HashMap_proofs`, `Lib_proofs` (`Loop`, `WebSocket`), `Runtime_proofs` (`Unwind`,
`Sockets`, `Mysql`) and `Tools_proofs` (`Build`, `Packages`).
`MCHashMap` gives the hash function of `hash_map_ghosts`.

The operators of the compiler and the library are translations of functions, so they
were also compared with the functions: all programs of `Compiler`'s families "typed" and
"once" (about 20,000), three levels of "nested" (11,000) and all of "moves" and
"classes" are rejected, miscompiled or compiled by the model exactly as by the compiler
with a C compiler that takes incompatible pointers, integer conversions and undeclared
functions for errors (gcc 14 and later); 578 compiled programs ran against 32 oracles
each with the trace the source means; and the functions of `Strings`, `Formats`, `Json`,
`Regex`, `Values` and `Arrays` were evaluated beside the compiled runtime on all short
arguments over small alphabets, the remaining differences being those of the
abstraction: rationals for floats, `junk` for uninitialised memory.

## 3. Runs

| Run | Instance | Shows |
|---|---|---|
| `channel` | one sender, one receiver, one thread that does both; capacities 0, 1, 2; two values and null; 4 sends | `NoIdleWaiter`, `NoLostWakeup`, `Backpressure`, `ReturnedOnce`, the refinement `Implements`, and under fairness `Progress`: close releases receivers, senders get through |
| `concurrency` | three threads, three mutexes in a table of two that grows; four threads, need 3, three rounds; two workers, four jobs; up to five items, any worker count, four handles, failing creations and allocations; one request, two timers the program may cancel at any time, two descriptors | `Exclusive`, `RoundsApart`, `JobsKept`, `ResultsInPlace`, `WatchersLive`, `CancelledSilent`, and under fairness `EveryoneReleased`, `WorkersExit`, `Terminates`, `GetEnds` |
| `systems` | two packages in two versions, one command at a time, killed anywhere; two builders, two sources, two builds; imports of every shape over a small project; three descriptors, two chunks; two queries, rows of two columns in all, each NULL, empty, one byte or two; four frames of stack, two exceptions, two closures; two clients; four colliding keys | `ListedWorks`, `OthersUntouched`, `RunsWhatWasLoaded`, `LoadOrder`, `EofRight`, `AnswersTrue`, `ChainMatches`, `ClientStory`, `IndexRight` |
| `sequential` | expressions and statements of up to two growth steps, literals of up to six characters, arguments up to the lengths in `Ways` of `Library`, two variables over three strings | `ReadAsMeant`, `NewlinesHarmless`, `ScannerRight`, `TextLaws`, `RegexRight`, `RoundTrips`, `Arithmetic`, `OrderAndArrays`, `KeepsPromise` |
| `compiler` | every expression form, a builtin of each kind among them, over pairs of seven types in seven contexts; two nested statements around six innermost ones; three moves; three classes | `AcceptedCompiles`, `SameControl`, `NoUseAfterMove`, `EvaluatedOnce` |
| `channel_null` | two threads, rendezvous | a null handed to a sleeping receiver is swallowed |
| `threads_join` | two callers, three spawns | a join returns while the thread runs |
| `pool_script` | the documented script, three jobs, two workers | it never gets to its first collect |
| `hash_map_ghosts` | the map of `systems`, any program | a removed key is found again |
| `store_append` | two variables, three strings | a concatenation changes another variable |
| `loop_timers` | two requests, two descriptors, a program that cancels nothing | one request's response silences the timeout of the other, which never reports |
| `compiler_dispatch` | three classes, each order and shape | an inherited override is not called |

The laws of the front end, the builtins and the compiler are about what a function
returns for what an author or a caller built up step by step. They are action
properties of the step that hands it over (`[][HandIn => ...]_frontVars`,
`[][Invoke => ...]_libVars`, `[][Compile => ...]_vars`), and that step is possible in every
state, so each text, each pair of arguments and each program within the bounds is
handed over, as it stands at first and after every growth.

The bounds. Channel: three threads are enough for two waiters of a kind at once with a
third party to wake them, capacity 2 is the first at which the ring wraps with something
in it, and 4 sends wrap it; the proofs below remove the bounds for the invariants
proved. Mutex: three mutexes fill and grow a table of two and leave a last record to
move. Barrier: one thread more than needed, so that the next round begins behind
sleepers of the last one. Pool: more jobs than the workers hold between them.
ParallelMap: more items than handles, more than workers, fewer than workers. HashMap:
the scaled constants keep the code's relations (the index starts at most half full,
grows by doubling, its budget is half of it), with collisions, tombstones, a rebuild at
the same size and a growth. Loop, Sockets and WebSocket: a descriptor can be closed and
given out again while something still remembers it. Packages: a package replaced by its
other version, and another one beside it. Build: the two builds overlap in every way,
or the second finds what the first one cached. Store: two variables share, three
strings make room to grow in place and to copy.
Library: the alphabet of a topic holds the bytes its functions tell apart, at
least one of each class, and `Ways` bounds the lengths. FrontEnd: two operators meet in
each way two levels of the table can. Compiler: the loan table is cut from 64 to 2 so
that it overflows; two levels of nesting give each pair of statements, and a run with
three (`MaxNesting = 3`, the mode "nested" alone) finds nothing else.

Deadlock is not checked in `channel`, `concurrency` and `systems`: every thread blocked on a
channel nobody will serve, all jobs done, all bounds used up are proper ends. What must
go on is said by the leads-to properties.

Fairness. `Channel`: weak fairness of a woken thread, whose `done` flag is set under its
waiter's lock and which never sleeps holding `ch->mu`, so it only needs the scheduler;
`LiveSpec` adds that the thread that only receives goes on receiving (the "range over a
channel" loop of `lib/thread`), which `Progress` is about. `Concurrency`
(`ConFairness`), each in the behaviours of its part: weak fairness of `Leave`, after
`pthread_cond_broadcast`; of the pool's wake-ups and of the workers' own steps, where
the client's calls are not fair except that, in the end, it goes on collecting: without
this a worker stays blocked on a result nobody takes, which is how a rendezvous channel
works; of the worker threads and of the caller of `thr_parallel_map`; of the steps of
`tick`, which `run()` calls in a loop, and of the passing of time, so that timers become
due. Nothing is assumed of a peer: `GetEnds` holds although it may never answer. Nor is it
assumed that the program runs the loop again after `tick` has thrown: `GetEnds` excepts
behaviours that stay there, and requests whose timer got the flag of another's
`cancelTimer`. `loop_timers` checks `LoopSpec`, which has the same fairness of `tick` and
time, without the second exception.

## 4. Inputs that are left out

Several modules have a constant that says whether the program, or the world, does
something the code does not cope with. The passing runs have the value on the left; with
the other one TLC finds what is on the right.

| Constant | Off | On |
|---|---|---|
| `MoveUnderUse` (MutexTable) | no record moves while a call has its pointer | two holders of one mutex (`Exclusive`) |
| `MoveUnderWaiters` (Barrier) | the table of barriers does not grow under sleepers | a sleeper looks at the freed block for ever (`EveryoneReleased`) |
| `SelfClosing` (Loop) | a callback does not close its own socket and open another | `tick` closes the new connection (`WatchersLive`) |
| `StaleHandles` (Sockets) | no use of a handle after its close | its end of file is reported for the next connection (`EofRight`) |
| `ClosesTwice` (WebSocket) | no close of a client that is closed | `onClose` twice (`ClientStory`) |
| `Overlap` (Packages) | one command at a time | a row of the registry file is lost (`OthersUntouched`) |
| `Images` (Packages) | no file with a NUL byte | the archive ends there, another package's files stay behind (`OthersUntouched`) |
| `EditsAnytime` (Build) | sources rest while a build runs | a new text under the key of the old one (`RunsWhatWasLoaded`) |

`Smooth` (Store) leaves out concatenations whose left string is shared and has room,
elements that turn a list into a map, the unset of an inner element of a list and
closures over arrays. `Careful` leaves out, in HashMap, pushes, pops, shifts and
unshifts on an indexed map, removing keys it does not hold, and clones that are too long
for the first index; in FrontEnd, first branches of a ternary that look like a
declaration (5.2); in Compiler, what `RoughPairs`, `RoughThere`, `CarefulNested` and `InOrder`
list: pairs of types which `sema.c` accepts for an operator and C does not, or not in a
try body or with a parameter by reference; a closure inside `switch` or `do`; a try
inside `switch`; `break` out of a loop between two try statements; `continue` in a
`switch`; a class before its base; moves in a loop; compound assignment to an element,
which evaluates its operands twice. For single statements that list is exact: what is on
it does not compile (`AcceptedCompiles` says so). `Relative` (Imports) is on; off,
projects have only libraries and packages.

## 5. Where code and words disagree

### 5.1 Runs

1. `channel_null`: `chan_recv_impl` (`THR` 428) takes a null in the waiter for "woken by
   close" and goes around the loop, although "value may legitimately be null".
2. `threads_join`: `thr_spawn` never increments `g_thr_len`; `thr_join` returns false at
   once.
3. `pool_script`: submit-all-then-collect blocks with unbuffered channels.
4. `hash_map_ghosts`: the insertion that creates or rebuilds the index enters the new
   key twice, so one removal leaves an entry behind (`RT` 727-737).
5. `store_append`: nothing ever raises a string's `rc`, so `hp_str_concat2` appends in
   place although other variables, keys or closures hold the string.
6. `loop_timers`: ids of timers go stale (`async.hphp` 187). With timers 1, 2 and one-shot
   1 run, `unset` leaves timer 2 in place 1. Requests `g` and `h` then get the ids 3 and 4
   and the places 2 and 3. `g`'s response cancels "3", which is `h`'s timer; `h`'s peer
   stays silent, and neither `$onDone` nor `$onError` is ever called, although the comment
   at `async.hphp` 113 says "completion is reported by callback" and the documentation has
   `cancelTimer` "cancel a pending timer". The same step leaves `g`'s own timer pending, so
   that `run()` goes on until it is due.
7. `compiler_dispatch`: a dispatch shim (`codegen.c` 3464) knows the classes that define
   a method, not those that inherit the override.

`channel`, `concurrency` hold under assumptions the code does not secure by itself: that
the memory of a sender's waiter, which the receiver frees (`THR` 395) and the sender
reads and frees again, is not reused before the sender has looked, and that mutexes and
barriers are not created or freed while others use theirs.

### 5.2 Met while modelling

Each of these is in the model as the code has it.

Threads. `barrier_wait` is described as returning the index of the last arrival (`THR`
17); each caller gets its own. An item `thr_parallel_map` skips makes the caller wait
for ever. Globals of the runtime (`hp_sort_mode`, the row of `levenshtein`, `hpv_tmp`)
are shared by all threads.

Arrays and values. A clone drops the index, and a cloned map of 16 to 31 keys that then
grows fills the new 32-entry index. A list that becomes a map leaves its old keys
uninitialised. pop and shift do not lower `next_index`. unset moves the last element
into the hole. In-place sorts leave the index of a map stale. `rsort` does not reverse
lists; `array_splice` removes nothing; `array_filter` and `asort` renumber. Some
functions read the keys of a list, which has none. `"0" == true` and `"0" < true` hold
together; `$o == $o` does not. `round(-2.5)` is -3 and `round(-2.5, 0)` is -2.

Text. `strncmp` is zero when either text is a prefix of the other; `similar_text` is not
symmetric; HTML decoding undoes more than one encoding; functions that go through C
strings stop at NUL; `sprintf` ignores the width of `%s`. JSON keys are not escaped and
whole floats come back as integers. `preg_replace` and `preg_split` drop the byte after
an empty match, and at the end of the text take a length of -1.

Packages, builds, imports. The staging directory is never emptied, so an archive without
a manifest is installed under the previous package's name; the old package is removed
before the new one is known to be complete (`main.c` 1179). A runtime source cut short
by one process may enter the object cache of another. One file may be loaded twice under
two spellings (`main.c` 993, against the comment at 987); two files that import each
other by "./" are loaded until the path is too long.

Texts between runs. The manifest reader takes the first place where a key stands in
quotes, whatever it is there: a package named "name" cuts `registry.json` short when it
is read, one named "version" loses its version, and `hphp pkg init` in a directory
called "version" writes a manifest that `hphp` rejects. A row appended to the registry
file is followed by a comma. A file name with a blank breaks an archive, and a
downloaded archive ends at its first NUL, since `pkgnet_get` measures it with `strlen`.
`Content-Length:` without a blank after it loses its first digit; a body shorter than
announced is not noticed. A URL without a path keeps `:port` in its host; a content type
keeps its leading blank; an empty header line given by the program ends the head of its
request; `fgets` strips every trailing carriage return and newline.

Event loop. Two one-shot timers due in one pass, with none behind them, make `tick` call
null after the first `unset`, which throws out of `run()`; a timer may run before its
time, in the place of one that was due; `cancelTimer` of a timer that has moved reaches
another or none. Flagged timers stay in the list.

Passwords. The password is the key of the HMAC, which fills a short key up with zeros
(`STD` 3651): passwords of up to 64 bytes that differ only in NULs at the end have the same
hash, and `password_verify` takes one for the other. The law in `Library` says exactly that.
The model's block has `BlockSize` = 2 places for the 64 octets, so that keys shorter than,
as long as and longer than a block (which are hashed first) all occur.

Sockets, MySQL, WebSocket. `stream_send` sets the end of file although unread data
remains, and also when a live peer has not taken the data for 2000 waits (`STD` 2031), so
that a slow connection looks like one that is over: `EofRight` says that the flag is the
connection's own, by its peer's close or by a failed send. An empty first column ends the rows as if it were an OK packet, and what
follows answers the next query; rows read before the server went are returned as
success; all columns carry the same name.

Exceptions and front end. `$c ? $x : NAME` and `$c ? $x : [1]` are read as a declaration of
`$x`, although the comment in `parser.c` at 927 says that the test tells the two apart;
with `Careful` FALSE the first step of `FrontEnd` violates `ReadAsMeant`. A `;` between the
statements of a `case` is an error, in a block it is passed over. `throw null` is swallowed. `**=`, `?:`, `&mut` and `const X =
1` do not parse; a newline after `<<=`, `>>=` or `??=` is not dropped; `loop_depth` is
not reset in closures; mixed array literals lose their order.

Checker and generator. A 65th loan is dropped; moves in loops are not followed; a cyclic
`extends` does not end; enum cases cannot be used; `??=` on a field becomes `+=`; all
matching catch clauses run; a string `switch` has no fallthrough (against the comment at
`codegen.c` 2558); `break` in a try in a loop in a try leaves the outer try (against the
comment at 2800). The table of builtins has names for which `hphp_rt.h` declares no
function (`array`, `M_PI`, `lcg_value`, `sys_getloadavg`, `php_logo_guid`, `php_sapi` and
those only allowed in unsafe blocks), and `atan2` with one argument, which the C function
does not have: the checker accepts them, the C compiler does not.

## 6. Proofs

The runs check small instances; the theorems hold for every value of the constants that
satisfies the module's assumption. The last column names the hypothesis on the inputs,
if the theorem has one: it is the value "off" of section 4, under which the run checks
the same property.

| Theorem | States | For every | If |
|---|---|---|---|
| `Structure` (`Channel_proofs`) | `[]Inv`, the inductive invariant | set of threads and payloads, capacities, bound on sends | |
| `TypeCorrect` | `[]TypeOK`, with the ring buffer well formed | " | |
| `NobodyWaitsIdly` | `[]NoIdleWaiter` | " | |
| `NoWakeupIsLost` | `[]NoLostWakeup` | " | |
| `StaysClosed` | `ClosedForGood`, an action property | " | |
| `DeliversInOrder` (`ChannelFifo_proofs`) | `[]Fifo` | " | |
| `ImplementsFifoChannel` | `Implements`: `Channel` refines `ChannelSpec` | " | |
| `PressesBack` | `[]Backpressure` | " | |
| `ReturnsEachOnce` | `[]ReturnedOnce` | " | |
| `MutexExclusion` (`Sync_proofs`) | `[]Exclusive` | number of threads, of mutexes, first size of the table | `MoveUnderUse = FALSE` |
| `BarrierHolds` | `[]RoundsApart` | number of threads, count, rounds | `MoveUnderWaiters = FALSE` |
| `JobsAreKept` | `[]JobsKept` of `Pool` | number of workers, of jobs; any client, or the documented script | |
| `TypesAreKept` | `[]TypesOK`, with `Exclusive`, `RoundsApart` and `JobsKept`, of the specification of the run `concurrency` | all of these | both hypotheses above |
| `MapKeepsOrder` (`ParallelMap_proofs`) | `[]ResultsInPlace` | number of items, workers, handles; any failure of a creation or an allocation | |
| `IndexStaysRight` (`HashMap_proofs`) | `[]IndexRight` | set of keys, length, hash, sizes of the index | `Careful = TRUE` |
| `WatchersStayLive` (`Lib_proofs`) | `[]WatchersLive` | set of descriptors, of requests, number of connections | `SelfClosing = FALSE` |
| `CancelledTimersSilent` | `CancelledSilent`, an action property | " | `SelfClosing = FALSE` |
| `ClientStoryHolds` | `[]ClientStory` of `WebSocket` | number of clients | `ClosesTwice = FALSE` |
| `TryChainMatches` (`Runtime_proofs`) | `[]ChainMatches` | set of exceptions, of closures, depth of the stack | |
| `EndOfFileIsTrue` | `[]EofRight` | number of descriptors, amount of data | `StaleHandles = FALSE` |
| `AnswersAreTrue` | `[]AnswersTrue` of `Mysql` | set of texts (below 251 bytes), number of queries, of rows, of columns (below 251) | |
| `BuildsAsLoaded` (`Tools_proofs`) | `[]RunsWhatWasLoaded` | set of processes, of contents, number of builds | `EditsAnytime = FALSE` |
| `ListedPackagesWork` | `[]ListedWorks` | set of packages, versions, processes; any crash | `Overlap = FALSE`, `Images = FALSE` |
| `CommandsStayApart` | `OthersUntouched`, an action property | " | " |

The hypotheses are needed: without them TLC finds the counterexamples of section 4.

### 6.1 The invariants

**Channel.** None of `TypeOK`, `NoIdleWaiter`, `NoLostWakeup` is inductive by itself, their
conjunction `Inv` is. That a receive with a queued sender finds head and tail at the
same slot needs `NoIdleWaiter` (a queued sender means a full buffer); that a popped
waiter is the only entry of a thread that is really blocked needs `NoLostWakeup`;
`NoIdleWaiter` needs the counters of `TypeOK`. `Facts` restates `Inv` over `In` and
`Distinct`, for which `PushQueue`, `PopQueue` and `EmptyQueue` say what the queue
operations do; `RingSteps` is the modular arithmetic of head, tail and len. There is one
lemma per action (`SendHandoffInv`, ..., `CloseInv`), two for `RecvBuffer`, with one
step per conjunct.

`Fifo` is inductive relative to `Inv`. `Line` states it apart from the variables, and
`HandoffLine`, `BufferLine`, `QueueLine`, `TakeLine`, `RefillLine`, `SenderLine` say
what each kind of step does to such a line; `RingDistinct` is why writing at the tail
overwrites nothing. One lemma per action applies them and shows at the same time that
the step is a step of `ChannelSpec` or leaves its variables alone: that a taken value is
the next one accepted is `Fifo` itself. `Backpressure` then follows, without an
induction of its own, from `Fifo` and from the queue of senders being an injection into
the blocked threads (`QueuedAreBlocked`). `ReturnInv` adds to `Inv` that the values taken
are those returned and those still carried by a woken receiver, counted value by value;
it needs `NoLostWakeup` for the receiver that a sender hands a value to.

**Mutexes and barriers.** `MutexInv`: no two records have one id and all ids are below the
next one (`IdsDistinct`), the pointer a call carries between its halves is to the record
of the id it was made with (`PointersFresh`), and only a holder is unlocking
(`HeldIds`). `Exclusive` needs the second, since a lock bit that is clear says nothing of
an id unless the pointer leads to that id's record; a move breaks it, so it is where
`MoveUnderUse` enters. `BarrierInv`: those who arrived in the current round are asleep
in it and as many as `seen` says, with distinct indices below it; nobody has left that
round or been in a later one, and each earlier one was full (`SleepersSound`,
`RoundsSound`).

**Pool.** `PoolInv` is the invariant of `Channel` for the queue of tasks and for that of
results, what each thread may be doing on either (`PoolRoles`), and the ledger of jobs
(`JobLedger`). The steps keep the first two because a pool step is a step of either
channel or leaves it alone: they are instances (`TaskProof`, `ResultProof`) of the
lemmas about `Channel`, nothing is proved twice. `Holds` says which job a thread answers
for: the client the one it sleeps on in `submit`, a worker the one in the waiter of its
receive, in its hands, or in the waiter of a send nobody has taken yet. The `Ledger`
says that what was accepted is what was taken for the client and what is held, each by
one; it is stated apart from the variables, and there is one lemma for each way a job
moves (accepted, passed on, drawn, returned). That a job is in at most one place
(`OnePlace`) and that ids are not used again are conjuncts of it; that no more jobs are
on their way than there are workers, and one in the client's hands, follows by counting
(`Backlog`): the jobs accepted and not taken are mapped one to one to those who hold
them. `TypesAreKept` puts the three together for the specification the run checks, in
which a step of one is a stutter of the others.

**thr_parallel_map.** `MapInv`: results sent and items being worked on are together no more
than the items launched (`SentOnce`), a busy item has a handle (`HandlesSound`), a slot is
empty or holds its own item. That no send blocks is the count: no more results than
items are sent, and the channel was made for all of them; that no thread is left is that
each has a handle the caller joins.

**HashMap.** `HashInv`: the keys in use are distinct and below the next one to be pushed
(`KeysOK`); there is no index and the map is small enough for the first one, or there is
one with at least as many empty entries as its budget allows insertions, and one more
(`Roomy`), in which the probe of each key held comes to the entry of its slot before it
meets an empty entry or one that leads to the same key elsewhere (`Reaches`). `FindsLive`
alone is not inductive, since it does not say which other entries a probe passes
through. `Around` shows that probing by steps of one modulo the
size comes past every entry, `Probe` that it therefore stops. A rebuild enters the keys
one after another by a recursive function; that it exists and keeps the invariant at
each of its steps (`PutAllExists`, `RebuildIs`) is proved by least counterexample
(`LeastElement`), since the library's induction rules take an operator.

The insertion that rebuilds the index enters its key twice (5.1, 4), so the invariant has
to hold with two entries for one key, and with entries that lead behind the end of the
map to a key that is gone: `HashInv` says of each key held that its probe finds it, and
nowhere that there are no other entries.

**Event loop.** `LoopInv`: no two watchers have one handle; each is of the connection its
handle has now; one that belongs to a request is of a running one, on the handle of that
request; each running request has one. Neither half of `WatchersLive` is inductive
without the third part: it is what tells `tick`, which closes a handle after the callback,
that no request waits for that handle (`Unrequested`), also when the callback has started
another one. `CallbackKeeps` says that of everything a callback may do, `ResponseKeeps`
and `TimeoutKeeps` of the two ends of a request. `Later` is the relation between a loop
and what any number of method calls make of it: the timers stay in their places, a flagged
one as it is; it is transitive. `Kept` is what a step does: a flagged timer is still
there, in some place (`UnsetFields`: the place that is unset is that of the timer that
ran, which had no flag before its callback).

**WebSocket.** `WsInv`: a client that is connected is at a stage (`Stages`) of its
conversation. The frames that are buffered, on the wire and not yet written are, in this
order, those the stage has left, and the callbacks it has had are those up to that stage
(`Talks`); one that is gone had been at some stage when it went, and then one `onClose`
(`HasGone`). `ClientStory` looks only at the calls; without the frames nothing says which
call comes next. The server works off a handshake only with something in the buffer
(`ServerOK`). Since callbacks may close clients, the one at hand included, each step is
first shown to leave every other client where it was or gone (`Goes1`). A stage has at
most five frames, so what a read, a frame or a close does to it is a finite case
distinction; the number of clients is arbitrary.

**Exceptions.** `UnwindInv`: the chain is the increasing list of exactly the places of the
stack that guard. That it increases is what `ChainMatches` says of the order of the two,
and what makes cutting the stack at a place cut the chain at the same frame.

**Sockets.** `SockInv`: the program's handles, the descriptors the kernel has open and the
records of the table are the same set, with one record each, and only connections that
are over, or that a send of their own failed on, have their flag set. With `StaleHandles` a record would outlive its descriptor
and serve the next connection of that number.

**MySQL.** `MysqlInv`: as long as no row began with an empty column, what the client has
not read is what is left of the answer to its last query behind the packets that its
stage, `left` and the rows read so far account for, or the beginning of that when the
server has gone (`Remains`); outside of an answer nothing is unread. `AnswersTrue` looks
only at finished answers, so it says nothing of the packet that comes next. Once a row
has begun with an empty column the client takes it for the end and stays behind by some
packets for good (5.2): the invariant claims nothing more of that connection. `ResultSetIs`
lists the packets of an answer by position. `RowComesBack` is the codec: `Columns` of
`Encoded` is the row, if no column is empty or NULL. Both are recursive functions over
the columns, which exist and agree by least counterexample as in `HashMap`. Texts and
rows whose length takes more than one byte are outside of the theorem's assumption.

**Build.** `BuildInv`: what a cache holds under a key is what the key was computed from,
with one exception: objects of a runtime that was cut short may be filed under the key
of the whole one, but then the link fails, so an executable is always of a whole one
(`CachesHonest`); and a build, at each of its steps, has what that step needs of its own
program (`JobsHonest`).

**Packages.** `PkgInv`: at most one command is under way (`OneRuns`, where `Overlap`
enters), the rows it has read are those of the disk until it writes them, it has done
the file operations before the one it is at (`HonestCmd`), and each row leads to a
package that works or is torn (`RowsWork`).

TLC checked each of these invariants on a small instance before it was proved.

### 6.2 Only model-checked

`LoadOrder` (`Imports`), `KeepsPromise` (`Store`) and the laws of
`sequential` and `compiler` are checked, not proved. Out of the prover's reach are
everything under fairness (`Progress`, `EveryoneReleased`, `WorkersExit`, `Terminates`,
`GetEnds`) and what is defined by recursion over its data: the descent of `Parser`,
`Sema`, `Codegen`, `Json` and `Regex`, most of `Library`'s references, and
`Imports` and `Arrays` (which `Store` uses), which declare such operators. The other
invariants of the runs are proved, and of the action properties all but those laws.

## 7. Plan

Done: everything above.  What is left, in this order:

1. The refinement `KeepsPromise` of `Store`, with `Smooth`, for any number of variables;
   its strings and arrays have to be stated without recursive operators first.
2. The registry server: publish as its three writes, readers between them, crash and
   restart.
3. Generics and interfaces in `Sema`, templates in `Parser`.

## 8. Not modelled, and why

The UI toolkit (`hphp_ui.c`), the WebView2 binding (`hphp_wv2.c`) and the browser demo
keep their state in the window system. `runtime_embed.h` is generated from the runtime.
The registry server has one thread and files as its only state; its order of writes and
its blocking read are hazards without a property. Of the package manager, publishing is
left out; of the HTTP clients and of files, what the operating system does (`Exchange`
has the texts); of the builtins, digests, processes, locale and multibyte functions,
which are plain I/O or arithmetic on words.
Of the checker, generics, interface checks and error texts; of the generator, the
prelude's text, argument lists of the builtins and the UI glue. Each atomic operation is
one critical section under one lock, so a model would only repeat it. The editor
extension, scripts, packaging and the documentation generators are tooling. Values other
than their identity, message texts, formatting and logging are abstracted wherever no
property is about them; out-of-memory is modelled only in `thr_parallel_map`, which
handles it. `setjmp` may leave locals that are not volatile with old values; what gcc
does then is not modelled.
