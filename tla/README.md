# A TLA+ development of SWORD

SWORD finds data races in OpenMP programs in two stages. A compiler pass and a
runtime library collect, for every thread, a trace of its memory accesses and
mutex operations; offline tools read the traces, compare the accesses that
threads made between the same two barriers, and print the races. This directory
models the parts on which that comparison rests, checks them with TLC on small
instances, and proves the central properties with TLAPS for all instances.

## Inventory

| Part | Source | State | Operations | Hard behaviour |
|---|---|---|---|---|
| Trace buffer and dump | `rtl/sword_rtl.cc`, `sword_interface.inl`, `sword_common.h` | buffer of `TraceItem`s, index, filter set, future, data file, meta file, byte offsets | `SAVE_ACCESS`, mutex callbacks, `DUMP_TO_FILE`, `DUMPNOCHECK_TO_FILE`, `dump_to_file`, `thread_begin`, `thread_end` | the dump runs beside the thread that refills the buffer; offsets are written by one and read by the other |
| OMPT control plane | `rtl/sword_rtl.cc`, `sword_rtl.h` | per thread: tid, nesting counter, barrier counter, offset-span label; per region and implicit task a `ParallelData` | `parallel_begin/end`, `implicit_task`, `sync_region`, `thread_begin` | calls on several threads in the order OpenMP chooses; task ends that come after the region's end; nesting; taskwaits |
| Filter hash set | `rtl/sword_hashset.h` | bucket states and keys, count, longest probe | `check_insert`, `insert`, `insert_unique`, `erase`, `clear`, `contains`, `reserve`, iterators, copies | probe chains through erased buckets; unbounded loops in a table that never grows; loops that erase |
| Block codecs | `rtl/lzo`, `rtl/lz4`, `rtl/snappy` | input and output positions, match table | compress and decompress a block | lengths and distances at the limits of their bit fields; copies wider than what they advance |
| Flags and trace folder | `rtl/sword_flags.h`, `ompt_initialize`, `ompt_finalize` in `rtl/sword_rtl.cc` | trace folder and its `.old` | option parsing, rotation of the folder | killed between two file system calls; renames that fail |
| Race analyzer | `tools/sword-race-analysis.cc` | chosen record per thread, one interval tree per thread, list of races | scan of the meta files, `load_and_convert_file`, the pairing rounds, `analyze_trees`, `ReportRace`, `SaveReport` | block framing, concurrent comparisons, report files |
| Interval tree | `tools/interval_tree*.{h,cc}` | intervals with stride and count | `insert_data`, `overlap`, `merge`, `solve_mip` | strides, nodes changed in place, erasing while iterating, one search path |
| Red-black tree | `tools/rbtree*.{c,h}` | balanced tree | insert, erase, replace, iteration, search | rotations, colours, cached subtree values, unbounded loops |
| Driver and printer | `tools/sword-offline-analysis.py.in`, `tools/sword-print-report.cc` | report folder | one analyzer call per region and barrier id; print all files | files overwritten or left from an earlier run |
| Instrumentation pass | `lib/Transforms/Instrumentation/InstrumentParallel.cpp`, `rtl/sword_interface.inl` | functions of a module, the `__sword_*__` globals | clones, choice of the loads and stores to instrument, callbacks inserted | an access dropped because a later one in the block covers it; atomics replaced; erasing while iterating |

Interaction: the instrumented program calls `__sword_*`; the OpenMP runtime
calls the OMPT callbacks; both change thread-local state only, except for the
tid counter and the `ParallelData` objects, which OpenMP hands from one callback
to another and from the master of a team to its workers. The runtime and the
tools share nothing but `datafile_<tid>` and `metafile_<tid>`: a line of the meta
file names a region, a barrier interval and a byte range of the data file.

What makes each part correct:

* trace buffer: the bytes between the offsets of a record are the items the
  thread stored in that interval, and every access of the interval is among them;
* control plane: two items get the same region and barrier id on two threads
  exactly when the threads stored them between the same barriers; objects are
  freed once, after their last use;
* hash set: it is a set, and so are its copies;
* codecs: a block decodes to what was compressed, inside the buffers;
* trace folder: it holds one run, and the newest one is never lost;
* instrumentation: what a function accesses in a parallel region is recorded, and the function still does
  what it did;
* trees: the red-black tree is a sorted list; an interval tree stands for the accesses put into it;
* analyzer: every pair of threads is compared once, every block of the byte range
  is read, every race found is reported, and what is printed is the last analysis that was saved.

The hazards are listed in `PROJECT.json` at the lines where they bite.

## Modules

* `IntervalLog` - what one thread's trace promises: items, cut into consecutive
  intervals.
* `TraceBuffer` - the trace of one thread. It implements `IntervalLog`.
* `MCTraceBuffer` - instances of it for TLC. `TraceBufferProofs` - its theorems.
* `KeySet` - a set of keys with results. `HashSet` - the open-addressing table that
  implements it; `HashSetCopies` extends it by iterators, sweeps, copies and rehashing. `MCHashSet`,
  `HashSetProofs`.
* `SwordRuntime` - the OMPT callbacks on several threads, using the interval log
  in place of buffers and files, and the analyzer's scan of the meta files. `MCSwordRuntime` gives the programs.
  `SwordRuntimeProofs` - its theorems.
* `CodecBlock` - what the block codecs share; `Lzo`, `Lz4`, `Lz4DestSize`, `SnappyWriters` and
  `Snappy` - the codecs; `BlockCodecs` - the codecs as `dump_to_file` and the analyzer call them. `MCBlockCodecs`.
* `Tournament` - the analyzer's rounds of comparisons over the trees of a barrier
  interval. Its theorems are in `RaceTreesProofs`.
* `BlockReader` - the analyzer reading one record's bytes of a data file.
  `BlockReaderProofs` - its theorems.
* `RbHeap` - the red-black tree as operators on a heap. `RbTree` - the tree under arbitrary use; `RbTreeOrder` states that it
  implements `OrderedIntervals`, a sorted list. `IntervalTree` - loading, comparing and merging of interval trees on the same heap.
  `MCRbTree`, `MCIntervalTree`. `RaceTreesProofs` - the theorems of `RbTree` and of `Tournament`, which compares such trees.
* `InstrumentPass` - the compiler pass over a module and the compiled functions at work. `MCInstrumentPass` - the modules
  for TLC. `InstrumentPassProofs` - its theorems.
* `ReportPipeline` - driver, analyzers and printer around the report files.
  `MCReportPipeline` - an instance for TLC. `ReportPipelineProofs` - its theorems.
* `Session` - trace and report folders over several runs of the program and of the tools. `MCSession`,
  `SessionProofs`.

How they fit together: `TraceBuffer` uses the filter as the set that `HashSet` is shown to be, and in turn bounds it;
`SwordRuntime` uses the interval log that `TraceBuffer` is shown to be; `BlockReader` reads files of the form
`TraceBuffer` writes, in blocks that `BlockCodecs` shows to survive compression; `Tournament` decides which trees
`IntervalTree` compares, and shows that one comparison at a time is enough there; `ReportPipeline` starts from the
races that were found, `Session` from the files that were left.

### TraceBuffer

Everything the component owns is `thread_local`, so one thread and the dumps it
started are the whole of it. A handler that calls `fut.wait()` is split at the
call: `pc` says where it is parked (`full` in `DUMP_TO_FILE`, `flush` in
`DUMPNOCHECK_TO_FILE`, `record` at the handler's own wait). A dump is a member of
`running` that compresses the buffer (`DumpCompress`), appends the block
(`DumpWrite`) and advances the end offset (`DumpFinish`). `std::async` without a
policy may also run the dump inside `wait()`; that is one of the interleavings.

Items are numbered as they are stored, `log` maps the number to the item, and a
slot holds a number. A block of the data file is a header and one byte per item:
the length that compression gives a block is abstracted away, and the
properties never depend on it (`BlockCodecs` is about it). What the thread stores while
the compressor runs is not. LZO reads a byte several times and writes references to
earlier positions, and the stores are not atomic, so a slot of a block is the set of items whose bytes
it may hold (`MayHold`): the one it was given as long as no slot up to it was stored into,
and after that any item that one of these slots held since the dump was launched. `held` and `performed` are history variables. Writing
to a stream after `thread_end` has closed it is undefined; the model lets the
block be written or lost.

### HashSet

The state is the table. Each operation is one action; a loop that ends at an
offset is described by that offset being the first that satisfies the exit
condition. `check_expand_need` is commented out in every insert, so the table has
the size `reserve(SET_SIZE)` gave it, and the caller has to keep it from filling up:
the guard on `Capacity`, which `FilterBounded` of `TraceBuffer` justifies (the filter
holds at most `NUM_OF_ACCESSES` keys, fewer than the buckets).

`HashSetCopies` adds a second set, `copy`, with a table of its own size, which is copy-constructed from the
first, assigned to and from, grown by `reserve`, changed and destroyed. A loop over a table takes one element per
step and keeps the other operations of the thread out, as it would in the code.

### SwordRuntime

`regions`, `frames`, `arrived`, `taskwaits` and `late` describe what the OpenMP
runtime does, which is external: a team waits at its barriers, the master ends the
region when all have arrived at the closing barrier, and a worker reports the end
of its implicit task any time after that, at the latest before its next task. The other
variables are the runtime's own. A `ParallelData` pointer is the object's name, so a
freed object can be told from a live one. `program` is chosen in `Init` and bounds what the OpenMP program does. A flush with its record is one step,
which `TraceBufferProofs!Refinement` justifies; `ThreadLogs` checks that each
thread's file is again an interval log of that thread alone.

`Picked` is the loop of `main` over a meta file: of all records with the wanted
region and barrier id the last one stays in `traces[tid]`. `Compared` says that some
call of the analyzer loads both items.

### Tournament

`main` walks over the list of trees (`StartRound`, `StartPair`, `EndPairing`), joins the
round's threads (`Join`) and goes on until one tree is left (`Finish`). A record in
`lm_thread` is one thread in `analyze_trees`: it takes the second tree's nodes one
thread's worth at a time and compares them with the first tree (`Overlap`), then
moves them over one at a time (`Merge`) unless this is the last comparison. A tree is the set
of threads whose accesses it holds; a thread that made no access has an empty tree.
`compared` collects the pairs of threads that went through `interval_tree_overlap`; what that
function finds for two nodes is a question for the interval tree.
The uninitialised `rb_parent` of `interval_tree_merge` may hold null, which is right,
or anything else: `Merge` and `MergeIntoEmpty` are the two outcomes.

### BlockReader

A behaviour has two halves. First the traced thread writes a file (`StoreItem`,
`WriteBlock`), in the form `TraceBuffer` gives it, with compressed lengths from that of a
length field to that of the worst case (LZO's end marker alone, with one item, takes more than 8 bytes); the program ends with any prefix of it on disk (`Open`). Then
`load_and_convert_file` runs: the first length field, and one pass of the loop for each
block, which reads the block together with the length field behind it. Byte counts are
`uint64_t` and wrap. Bytes that are not on disk, or are no length field, read as any
member of `Garbage`; decompressing what is no block is an error, as in the code. Blocks hold the items stored: the
damage that `DamageBounded` bounds is not carried over. A node of
the interval tree is an access with its mutex set; merging of nodes is left to the
interval tree.

### ReportPipeline

The driver calls the analyzer for each region and barrier id of the meta files (`Call`). A
call is a member of `running`: it goes through the races it found (`ReportRace`) and saves them, if any, in two
steps, since `SaveReport` empties the file when it opens it (`OpenReport`) and writes afterwards (`WriteReport`). The save may
fail unnoticed (`SaveFails`: the file cannot be opened, or the write is cut short), and an analyzer may be killed at any point
(`AnalyzerFails`). Without a cluster
the driver waits for each call; on a cluster they run side by side, and without `--bid`.
The printer reads the folder in any order and prints the list. A race is its two program
counters in the order found; what an interval's comparison finds is chosen in `Init`. A file is modelled as what the printer
reads from it: the races that its count announces, with 0 for a program counter that was not written, or nothing
if it is empty. Writes are cut between fields. `spoiled` is a history variable, the regions whose last save was not completed.

### BlockCodecs

A job is a block, a codec and an output limit. The compressor takes one iteration of its loop per step and writes the
bytes of the format; the decoder takes one instruction per step. The formats' thresholds (shortest match, run lengths
in a token, distances of short and long matches, bytes copied at once) are constants with the relations the bit fields
need as assumptions, so that blocks of some 28 bytes meet every form of instruction. The hash tables are the only
abstraction: a lookup may find any position entered before whose bytes agree, position 0, or nothing. `high` is the
highest byte a compressor touched, wide copies included. `LZ4_compress_fast` is run with the limit the runtime gives it
and with smaller ones, also on blocks of 49 bytes whose matches count more bytes than are checked for; a block is decoded into a buffer
of the smallest of the `Capacities` that holds it; Snappy's decoder with its four writers; the two decoders that check their input also with
streams no compressor wrote.

### RbTree and IntervalTree

A tree is a heap: children, parents, colours and the fields of the interval as functions of the node, NULL as 0. The code
is written once per side; the model takes the side as a parameter. `RbTree` steps through the rebalancing loops an
iteration at a time, so that the invariants the loops' comments state can be checked in the middle. `IntervalTree` uses the same
operators as one step, since a tree belongs to one thread. Its three phases are those of the analyzer for three
threads: `interval_tree_insert_data` per access, `OverlapNode` per node of the second tree, `MergeNode` per node
merged, then the third tree. `solve_mip` is the integer program itself, by enumeration; GLPK is external and refuses a
column with equal bounds, which is what an access of one byte gives. The
uninitialised `rb_parent` of a merge into an empty tree gives two outcomes, as in `Tournament`.

### InstrumentPass

The pass goes over the functions of a module (`SkipFunction`, `DeclareInMain`, `InstrumentOutlined`, `CloneFunction`), then
the program is linked if the runtime defines every callback that was inserted (`Link`), and a thread runs one function
at some nesting level, along any path (`Access`, `Call`, `Jump`). `EraseBookkeeping` is the loop that erases from
the vector it iterates over, by the names of all operands: an instruction's `value` is the address a store stores. The pass's questions to LLVM about an address are constants; `MCInstrumentPass` has one address
for each answer. `mem` and `asWritten` compare memory with what the source would have left there.

### Session

`fs` gives for each trace folder the runs whose traces lie in it and in its `.old`. Each call of `ompt_initialize` to the file
system is a step, and `End` may come between any two. The tools' argument loops are operators (`ParseAnalyzer`, `ParsePrinter`)
applied to the command that the driver builds or the user types. An analyzer that has races opens the report file, which
empties it, and writes it in a second step (`Analyze` with `OpenReport`, `WriteReport`); it may be killed in between or fail
to write (`WriteFails`, `EndDriver`), or to open the file. `analyzed` and `unsaved`, the regions whose last save was not completed, are history variables.

## Runs

| Run | Instance | What it shows |
|---|---|---|
| `trace_buffer` | 2 slots, 2 accesses, 1 lock, 5 items, 3 records | dumps never overlap; records delimit exactly the items of their interval; the buffer that is never swapped spoils only full blocks and never mixes intervals; the filter never hides an access of a new interval; handlers return; the files implement `IntervalLog` |
| `hash_set` | 4 buckets, 4 keys that collide, 3 at a time, and a copy of up to 8 buckets | lookups are exact in the set and its copy, loops end, walks see each element once; the table implements `KeySet` |
| `runtime` | 2 threads, 2 regions, up to 2 barriers each, 2 items per thread; and 3 threads, 3 regions, depth 2, a taskwait | the analyzer loads two items together exactly if they were stored in the same phase of a region; no use after free, no leak; the nesting counter is the depth; tids are never shared |
| `tournament` | 0 to 7 trees, any of them empty | concurrent comparisons share no tree, the iterator stays inside the list, every two threads are compared exactly once, the rounds end |
| `block_reader` | up to 4 items in up to 3 blocks, 1 lock, 5-bit words, every range of blocks, every truncation | a complete file gives no error, a reader that ends normally has exactly the accesses of its interval, no access gets a mutex that was not held, and one in a block that began without mutexes gets all that were |
| `report_pipeline` | 2 regions, 3 intervals, up to 2 races of 3 in the first interval and 1 in the others, with and without a cluster | the printer prints what it reads from the files and each pair once, a racy region is shown free of its races only if its last save was not completed, every interval is analyzed (on a cluster: interval 0 of each region), all ends although analyzers fail |
| `rb_tree` | 9 nodes, equal intervals and equal starts among them | red-black between operations and inside the loops, sorted, iterators and search exact, loops end; the tree implements `OrderedIntervals` |
| `interval_tree` | 3 threads with up to 3, 2 and 1 accesses out of 6, of 1, 2 and 4 bytes, strides below 4 | summaries add nothing and merging loses nothing; a reported pair is a conflict between two threads; of the conflicts of single accesses only those between different start addresses are missed |
| `instrument` | functions of up to 4 instructions out of 12, and a module with every kind of function, nesting up to 2 | every access is recorded or covered; records are true, unique and only of parallel code; the globals are defined |
| `block_codecs` | blocks of up to 28 bytes with runs and repetitions, for LZ4 also of 49, 7 output limits, streams of up to 5 bytes | round trips are exact; nothing leaves its buffer, but for a limited LZ4 that gives up |
| `session` | 3 runs, 3 folders (one with a trailing separator, one that cannot be created), 3 calls of the tools | runs do not mix, the newest trace survives, the printer shows the last analysis that was saved completely |
| `instrument_atomics` | as `instrument` | **violated**: atomics are recorded and not performed |

Bounds. Two slots with five items give two full buffers and a remainder, so a full
dump, a partial dump and a refill during a dump all happen; three records give
three intervals. In the hash set four buckets and four keys make chains wrap
around, pass through holes and collide, and a copy has a table of the same or of twice the size. In the runtime the properties are about pairs of
threads; two regions let a thread skip the first, which is what a stale barrier
counter needs to show; three regions of depth two let a worker of an inner team
be reused at the outer level. Up to seven trees give three rounds, and with five an odd tree
is left over in each of the first two. Three blocks let a range begin after the start of the
file, end before its end, and hold one, two or three blocks; the garbage lengths include those
that wrap around. Two intervals in one region are what an overwritten file needs, and a second region
what the printer needs to meet the same race in two files. Nine nodes give red-black trees of height four, in which
both rebalancing loops run more than once and every case of the removal occurs. Three accesses of one instruction give
a strided node and one that meets it; three trees give a comparison with a merged tree. Four instructions are what a
read, a call or a branch, a write and a neighbour need. The blocks of the codecs are as long as two parts of LZO and more than
one fragment of Snappy, with the thresholds scaled down accordingly; 49 bytes hold a match whose count, a byte for `EXT` of it, outgrows the
check, a byte for `EXT + 1`, by as much as the words it is written in overshoot. Two runs that leave traces and a third that rotates them
are what a lost trace needs.

Fairness is stated for `trace_buffer`, the tournament and the report pipeline. In the first, a dump that was started runs on, on its
own thread or inside `wait()`, and a thread whose future is ready goes on; in the second, `main` and the threads it started
are run by the operating system until they wait or end; in the third, driver, analyzers and printer are processes that run
until they end, and the batch system starts what was submitted. The instrumented
program owes nothing: it may stop making accesses at any point. For the same reason
deadlock is not checked in the runs of `TraceBuffer`, `SwordRuntime`, `InstrumentPass` and `Session`: the program
ends, or reaches a bound; nor in those of `BlockCodecs` and `IntervalTree`, whose jobs end with their result. The hash set and the
red-black tree can always be used on and the analyzer runs to its end, and deadlock is checked there. That the loops of
the hash set and of the red-black tree end is stated without fairness: `LoopsEnd` says that a free bucket is always in
reach, `LoopsClimb` that every iteration works nearer to the root.

Some of what is modelled and checked is code that no shipped configuration or tool executes, taken in because it is built and would be used
by an obvious change: Snappy and LZ4 (the default build has `COMPRESSION=LZO`), `LZ4_compress_destSize`, the red-black tree's search by interval
(`_iter_first`, `_iter_next`) and `rb_replace_node`, and in the hash set `erase`, the iterators, copies and a `reserve` on a
table that is not empty. The properties of these parts say nothing about a run of SWORD as shipped.

## Findings

`instrument_atomics` is violated. `instrumentAtomic` replaces atomic stores, read-modify-writes and compare-and-swaps by
calls of `__sword_atomic*`, which record the access and return; nothing performs the operation. A program that counts
with `#pragma omp atomic` in a parallel region, as `test/ompt/synchronization/barrier/explicit.c:13` does, counts nothing
once it is instrumented.

## Observations

Properties above that hold only with a restriction say something about the code by that restriction. `README.md` of the
repository promises "soundness and completeness of the data race detection process"; the following are the places where the
models show the limits of it.

* `SWAP_BUFFER` (`rtl/sword_rtl.cc:111`) compares where it means to assign, so the thread stores into the vector that
  `lzo1x_1_compress` reads, a data race that leaves torn items and items decoded from the wrong position. `DamageBounded` says how far that
  reaches: a block written by a cut is exact, a slot of a full buffer's block mixes at most its own item, items of the slots before it and
  items the thread stored into these slots one buffer later, and nothing of another interval gets into the bytes of a record.
* The filter's hash leaves out the mutexes held (`:142`): an unprotected access can be dropped in favour of a protected one.
  `AccessLoggedInInterval` therefore speaks of the interval and not of the mutexes.
* A taskwait advances the barrier counter of one thread (`:273`), and an inner region does not cut its master's trace (`:240`).
  `ComparedIffConcurrent` is stated for programs without either.
* With SNAPPY or LZ4 (`:86`, `:91`) the vector object is passed in place of its data, and the end offset is not advanced. The
  codecs are checked on the bytes they are given.
* A limited `LZ4_compress_fast` checks `matchCode>>8` bytes for a match's count (`rtl/lz4/lz4.c:593`) and then writes `matchCode/255` in words of
  four (`:598`): with long matches it touches bytes beyond its limit before it gives up with 0. `StaysInside` says how many; the
  runtime always gives `LZ4_compressBound` bytes (`rtl/sword_rtl.cc:93`), for which the unlimited compressor is chosen.
* The reader starts every block with an empty mutex set (`tools/sword-race-analysis.cc:165`), so an access may lose a mutex and a race be
  reported that is none; `MutexesAttached` says that no race is hidden.
* A merge into an empty tree links the node to an uninitialised pointer (`tools/interval_tree_generic.h:357`) and may
  crash the analysis of the interval before its reports. `EachPairOnce` holds for an analysis that gets that far.
* `insert_data` drops an access 64 bytes or more above the node of its instruction, or below it (`:149`), and one between the strides
  of a node (`:123`); the integer program reaches one stride too far (`:504`); a strided node copied by a merge loses its stride
  (`:354`). `SummariesExact` and `ReportsAreConflicts` say what remains.
* A node is compared with the nodes on one path of the other tree (`:285`). Of nodes that start together, a rotation may
  leave one off that path: `PointConflictsReported` excludes them.
* `last` of a single access is the address where it starts (`tools/sword-race-analysis.cc:169`), and the comparison asks for
  `start <= last` of both nodes (`tools/interval_tree_generic.h:265`). Two single accesses that share bytes but start at different
  addresses, an 8-byte write at `a` and a 4-byte read at `a + 4`, are never reported: `PointConflictsReported` takes the conflicts from the
  bytes and exempts these. Strided nodes of accesses of one byte are not reported either: the integer program gives the column of the
  bytes equal bounds (`:512`, `:515`), which `glp_exact` refuses.
* The barrier intervals of a region share one report file and each replaces it (`tools/sword-race-analysis.cc:405`);
  `RacyRegionsShow` says that a region with races still shows some. It and `PrintsCurrent` exempt regions whose last save was not completed:
  `SaveReport` empties the file first (`:39`) and does not look whether the races were written (`:42`), so that a kill or a full
  disk can make the races of an earlier interval disappear, and the printer passes over an empty file (`tools/sword-print-report.cc:13`)
  or prints races at program counter 0 from one that was cut. With `--cluster-run` the analyzer is
  called without `--bid`, so only interval 0 of each region is analyzed.
* Memory intrinsics are collected by the pass and then left alone (`InstrumentParallel.cpp:720`), although the comment at `:797`
  describes their replacement; accesses of unusual sizes and atomic minima and maxima are left out too. `AccessesCovered` exempts them. The
  loop that drops the accesses to bookkeeping variables looks at the names of all operands (`:464`): a store of the address of such a
  variable is dropped too, wherever it stores it, and a read left out because of that store with it; both are exempted. The
  atomic callbacks other than load, store, add, subtract and compare-and-swap, the fences and the unaligned accesses have no definition in the runtime: such
  programs do not link.
* `SWORD_OPTIONS` cut short makes `sscanf` return `EOF`, and the trace path is read from an uninitialised buffer
  (`rtl/sword_flags.h:14`); `TracesOfOneRun` exempts such a run. A path with a trailing separator cannot be moved and ends the program
  at its second start.
* `--print` of the driver makes every call of an analyzer without `PRINT` fail.

## Proofs

`TraceBufferProofs` assumes `ConstantsAssumption` only (a buffer and a header are not
empty, every access has a hash). None of the properties is inductive alone. The
invariant `IInv` adds to the types: where the running dump's items stand relative to the
log (`first + n` is the length of the log minus the index, or the dump belongs to the
blocks already on file); the data file is contiguous, and its end is the end offset
unless a dump has written its block and not advanced the offset yet; every slot below the
index holds the item that was stored there last, every other slot of the running
dump's buffer holds the item the dump was given there or the one stored a full buffer later, so that what
compression may leave in a slot fits its place (`MayHoldFits`); every record lies
on block boundaries. From it follow `OneDumpAtATime`, `RecordsDelimitIntervals`,
`OverwriteIsBounded` and `IntervalsDoNotMix` (together `DamageIsBounded`) and `Refinement`. The filter has an invariant of
its own: its keys are the hashes of accesses in the current buffer, which are items
of the current interval; from it follow `FilterNeverOverflows` and
`NoAccessFilteredAcrossIntervals`.

`HashSetProofs` assumes `CapacityAssumption` and `CopiesAssumption` (the types of the bounds). Its invariant says that a filled bucket lies on
the chain of its key within the longest probe, that no bucket before it on that chain
is untouched, and that no key is stored twice. `LookupsAreExact`,
`KeysAreUnique`, `ProbeLengthComment` and `Refinement` follow. `ProbeLoopsEnd` needs two more facts: the
filled buckets are counted by `num_filled`, which stays below the capacity, so a bucket is left over; and the probe
sequence of a key visits every bucket, which is arithmetic modulo the capacity (`RemainderUnique` and the lemmas after it).
For iterators, copies and `reserve` the same is said of any table, the copy's included, as `Sound(t)`. That `reserve` leaves a sound table
with the same keys is an induction over the buckets of the old one (`MoveLoop`); that it doubles often enough is one over the
doublings (`BucketsEnough`). `CopiesInv` adds what a running loop has done: the elements before the iterator are in the
copy, or were swept, and those from it on are not (`CopyingInv`, `AssigningInv`, `SweepingInv`). `CopiesAreExact`, `WalksAreExact`, `CopiesRefineKeySet` and
`CopiesKeepLookups` follow.

`RaceTreesProofs` is about two modules. For `Tournament` it assumes that `N` is a natural number. The invariant has four parts. The list
holds every tree once, its first `it - 1` trees are those already paired in this round, and
`lst_size` counts the ones after them (`ListInv`). A comparison's first tree is among the paired
ones and its second is off the list, and two comparisons have no tree in common
(`ThreadInv`), which is what makes the merges harmless to each other. The accesses of a thread
are in one tree, on the list or second in a comparison (`NodesInv`, `Located`). And what shares
a tree was compared, as was what a running comparison has behind it (`Done`), while threads
in different trees were compared only by the comparison that holds both trees (`NotDone`),
until the list is used up (`Final`). `NoPairMissed` follows from `Final`, `NoPairTwice` from `NotDone`, both together are `PairsComparedOnce`; `PairingIsSafe`
follows from the first two parts.

For `RbTree` it assumes `NodesAssumption` and `IntervalAssumption` (nodes are positive numbers, intervals have natural bounds), so the theorems hold for trees of
any size and for every sequence of insertions and removals, in the middle of a loop too. `RulesAlwaysHold` is `RedBlack`: between
operations the links form a red-black tree, and within a loop they do but for the one place the loop is at. `LoopsAlwaysClimb` is
`LoopsClimb`. The invariant `TreeRules` says that some set of nodes, the members, satisfies `RulesOf`:

* `Tree`: parent and child links between members are inverse to each other, the root is the only member without a parent,
  and (`Clean`) other nodes have no links;
* `Ranked`: there is a rank that falls along every child link, so that links have no cycles. A rotation reverses the order of two nodes, and
  the lemmas about it give the new ranks;
* `Reds`: no red member is the root or has a red parent, save the node the insertion loop is at;
* `Blacks`: there is a black height of every node that both children agree on, save at the link of the erase loop,
  where one side is short by one black node (`Extra`).

There is one lemma for every way the code rewrites links or colours (rotation, recolouring, splicing out, replacing by the successor), which are combined
by step: `InsertStepKeeps`, `EraseStepKeeps`, `PlaceKeeps`, `EraseNodeKeeps`, `ReplaceNodeKeeps`. `RedBlack` itself is
about recursive functions that walk the heap. That they are defined at all follows from the ranks (`RecursionExists`), and
induction over the ranks ties them to the invariant: `MembersAre` says that the walk from the root meets the members,
`UniformHolds` that it counts equal black heights, `UpwardUnfolds` that the way up from a node ends.

`BlockReaderProofs` assumes `ConstantsAssumption`: a worst-case block with two length fields does not
wrap a word. Its invariant has three parts. Blocks follow each other without gaps in
the order of their items, and every position fits a word (`FileInv`), so that the wrapping sums that decide
whether another block follows decide it right for the lengths on file. A mutex acquired and not
released since is held (`HeldInv`). And the reader stands behind the length field of block `k + 1`
of the range, knows its length and whether another follows, and has inserted the accesses of the
blocks before, or it has read everything, or the first length field is missing and nothing more
can be read (`ReadInv`). `IntervalIsRead`,
`CompleteFilesAreRead`, `NoOverrun` and `NoForeignMutex` follow. For `MutexesAreAttached` the converse of `HeldInv` is
added: a mutex is held only from an acquisition on that no release follows (`OriginInv`), and the mutexes of a node are those
the loop had collected at its access in its own block (`NodesInv`).

`SwordRuntimeProofs` assumes `ThreadsAssumption`: finitely many threads, of which thread 0 is one, and bounds of the programs
that are natural numbers. The proofs are layered, each invariant using those before it.

* `CoreInv` is about the callbacks. `FrameOK` says of every frame of a thread which pointer it holds, how many barriers its
  place implies, and that only the innermost frame can be anywhere but in the program's code; `NestOK` that all frames but the first are of
  regions the thread met itself. `LateOK` says that a worker which owes the end of a task has not begun another: without it
  the late decrement of `__sword_status__` could hit the counter of the next region. `StatusOK` extends the claim about the
  counter to places where no code of the program runs. `HeapInv` gives for each object the region's data it must hold.
  `NoLeak` alone is not inductive: a master that has reported the end of its task still has the pointer in its frame, and
  `FreedInv` says that the object is gone, so that leaving the frame leaves nothing behind. `CounterIsDepth`, `ObjectsAreExact` and `DerefsAreExact` follow.
* `FileInv` adds that tids are given out in order to one thread each and that the file of a tid not given out is empty
  (`TidInv`), and that a thread past the begin of its task has one (`BegunInv`). `FilesAreLogs`, the refinement of one
  `IntervalLog` per thread, is proved action by action from it.
* `RangeInv` bounds levels and counters by the nesting of the program; `TypeCorrect` follows.
* `AnalysisInv` is about programs without inner regions and taskwaits. `RecordsOK` says of a file that the record of a
  barrier spans items of its own region and phase only, that the cut at the begin of a task spans items from outside of regions,
  that every item up to the last record is in a record, and that barrier ids grow within a region. `OpenOK` says what the
  items behind the last record are, and that there are none at a barrier. `PidsOK` ties the barrier counter to the barriers the thread has arrived at,
  and says that a region with an arrival has a record of its barrier 0, which is why the cut, which has the same
  barrier id, never is the last match in `traces[tid]`. `ComparisonsAreExact` follows: both directions of `ComparedIffConcurrent`.

`SessionProofs` assumes `SessionAssumption` (the default path is an ordinary one, and the words that stand for bad settings
are no paths). `InitializeInv` says at each point of `ompt_initialize` what the calls before it have achieved, so that a
run can be killed there; `KeptInv` is `LastTraceKept` with the place: in the folder itself, or in `.old` while the folder
is missing, which is what makes the removal of `.old` harmless. For `PrinterIsCurrent` a second invariant, `ToolInv`, ties the report
file of each region to its last analysis, or the region is in `unsaved`, and a file that is open to the analysis that opened it.

`ReportPipelineProofs` assumes `ConstantsAssumption` (the types of the constants). Its invariant follows a race from
the trace to the printed list. No call gets lost (`CallsInv`); an analyzer keeps the pair of every race it was
given although `ReportRace` drops repetitions (`FoundInv`); a region with an analyzed interval that had races has one of its races on file, or is
`spoiled`, or a save is under way (`FilesInv`, which holds although opening empties the file, because only an analyzer with races opens
it); and the printer's list and what it has printed together hold what the files
read so far held, each pair once (`PrinterInv`).

`InstrumentPassProofs` assumes `InstrumentAssumption` only (the types of the constants), and so is about every module, every
body and every acyclic path. The loops of the pass are recursive functions; what they compute is proved by induction, in the form that a set
of numbers without a least element is empty (`Induction`, `LoopInduction`, from `WFMin` of the library), after a lemma that
the function defined by the recursion exists (`RecursionExists`). `Erases` says of the loop that erases while it iterates that it
never loses an access which is not bookkeeping and never repeats one, although it may skip one that it should erase;
`Chooses` adds the selection. The invariant of the traversal (`CollectInv`) keeps apart
the current run, whose positions grow and which no call or end of a block interrupts, and what was flushed: each flushed load or
store is in `all`, or left out by its operands, or is a load with a store to its address later in the same run. `Plans` turns this into what
the callbacks of each instruction are. Over the steps of the system, `PassInv` says which functions have
such a plan and that a branch to a clone leads to one, `RunInv` that the records are of instructions already performed, and
`CoverInv` that an access which is not exempt is covered or `Pending`: a recorded store that covers it is still ahead, with nothing in between
that ends the interval. `AccessesAreCovered` follows, since at the return nothing is ahead; `RecordsAreExact` and
`GlobalsAreDefined` follow from the first two.

Only model-checked: `HandlersReturn`, `Terminates` and `Ends` (liveness); `TraversalsExact` and `ImplementsOrder` of the red-black
tree; and all of `IntervalTree` and `BlockCodecs`. `TraversalsExact` is about sequences of nodes (the order of a walk) and about `__subtree_last`, which is
repaired by folds along paths: a proof has to carry both through every rotation, beyond the shape and the
colours that `TreeRules` carries. `ImplementsOrder` and the properties of `IntervalTree` rest on it. Behind
`BlockCodecs` is `Lzo`, which uses `Bitwise`, in whose presence the prover has no SMT backend.
`AtomicsPerformed` is violated, so there is nothing to prove. `ComparisonsAreExact` says nothing about nested regions and
taskwaits, and nothing could: with them the claim is false, as the property's comment says.

## Not modelled

* LZ4's streaming and dictionary functions and LZO's checksums, which nothing in the repository calls; `lzodefs.h`, `lzoconf.h` and the stubs
  of Snappy, which configure compilers and platforms and hold no state.
* The hash functions of the codecs and of the race list: any lookup that the code would verify is allowed, collisions of race hashes are not.
* How LLVM instructions are built, exception handling, and cycles in the control flow of an instrumented function: a read and the write
  that covers it lie in one basic block, which a cycle enters at its start.
* The printing of symbolised source lines, `PRINT` output, dry runs and the throttling of the batch queue.
* Registration of the pass and the compiler wrappers, which have no state.
* `tools/sword_intervaltree.h`, which nothing includes.
* Explicit tasks beyond `taskwait`: their callbacks are not registered.

## Open

What could be proved beyond this: that the walk of a red-black tree from left to right is sorted and that `__subtree_last` is the maximum
of its subtree, on top of `TreeRules` (`TraversalsExact`, and from it `ImplementsOrder`); then `ReportsAreConflicts` of
`IntervalTree`, which uses that maximum to leave subtrees out.
