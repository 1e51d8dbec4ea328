----------------------------- MODULE TraceBuffer -----------------------------
(***************************************************************************)
(* The trace one OpenMP thread collects (src/rtl/sword_rtl.cc): its buffer *)
(* of trace items, the set that filters repeated accesses, the dump that   *)
(* std::async runs beside the thread, the data file the dump appends to    *)
(* and the meta file whose records say which bytes of the data file belong *)
(* to which barrier interval.  Everything here is thread_local in the      *)
(* code, so one thread and its dumps are the whole component.              *)
(*                                                                         *)
(* A handler that calls fut.wait() is split there: the thread is parked at *)
(* a value of pc until the dump has finished.  Items are numbered in the   *)
(* order in which the thread stores them and a buffer slot holds a number; *)
(* log maps the number to the item.  A block of the data file is a header  *)
(* of HEADER bytes and one byte per item: what compression does to the     *)
(* length of a block is left out.  What it does when the thread stores     *)
(* into the buffer under it is not: see DumpCompress.                      *)
(*                                                                         *)
(* Only regions of level 1 are modelled here; the runtime writes no trace  *)
(* record when an inner region begins.                                     *)
(***************************************************************************)
EXTENDS Integers, Sequences, FiniteSets

CONSTANTS
  NUM_OF_ACCESSES,  \* slots of a buffer
  HEADER,           \* bytes of a block's length field
  Accesses,         \* (size, type, address, pc) of the accesses the program makes
  hash_value,       \* their hashes, the keys of the filter
  Locks,            \* wait ids of the program's mutexes
  MaxLog,           \* bound: items stored
  MaxRecords        \* bound: records in the meta file

ASSUME ConstantsAssumption ==
  /\ NUM_OF_ACCESSES \in Nat \ {0}
  /\ HEADER \in Nat \ {0}
  /\ DOMAIN hash_value = Accesses
  /\ MaxLog \in Nat
  /\ MaxRecords \in Nat

VARIABLES
  pc,           \* where the thread is: in user code or parked in a handler
  op,           \* the handler that is cutting the trace
  status,       \* __sword_status__
  idx,          \* __sword_idx__
  cur,          \* __sword_accesses__: which of the two buffers
  bufs,         \* *__sword_accesses1__ and *__sword_accesses2__
  set,          \* the filter of repeated accesses
  fut,          \* number of the dump the future stands for, 0 is dummy()
  running,      \* the dumps that have not finished
  datafile,     \* blocks of the data file
  offset_begin, \* __sword_file_offset_begin__
  offset_end,   \* __sword_file_offset_end__
  metafile,     \* records of the meta file
  bid,          \* __sword_bid__
  log,          \* history: the items in the order they were stored
  held,         \* history: the mutexes the thread holds
  performed     \* history: accesses performed since the last record

threadVars == <<status, idx, cur, bufs, set, bid>>
fileVars == <<datafile, offset_begin, offset_end, metafile>>
history == <<log, held, performed>>
vars == <<pc, op, threadVars, fut, running, fileVars, history>>

Slots == 0 .. NUM_OF_ACCESSES - 1

Items ==
  [kind : {"data_access"}, what : Accesses, held : SUBSET Locks]
    \cup [kind : {"mutex_acquired", "mutex_released"}, what : Locks,
          held : SUBSET Locks]

-----------------------------------------------------------------------------
(* Positions in the data file.                                             *)

BlockSize(n) == HEADER + n

(* The byte offset just after the first k blocks, and the number of items  *)
(* in them.                                                                *)
PosOf(k) == IF k = 0 THEN 0 ELSE datafile[k].pos + BlockSize(datafile[k].n)
ItemOf(k) == IF k = 0 THEN 0 ELSE datafile[k].first + datafile[k].n

(* Items stored before the last record was written.                        *)
Mark == IF metafile = << >> THEN 0 ELSE metafile[Len(metafile)].hi

-----------------------------------------------------------------------------
(* on_ompt_callback_thread_begin: empty buffers, offsets 0, a future that  *)
(* is ready.                                                               *)
Init ==
  /\ pc = "user" /\ op = "none" /\ status = 0
  /\ idx = 0 /\ cur = 1
  /\ bufs = [b \in {1, 2} |-> [s \in Slots |-> 0]]
  /\ set = {}
  /\ fut = 0 /\ running = {}
  /\ datafile = << >> /\ metafile = << >>
  /\ offset_begin = 0 /\ offset_end = 0
  /\ bid = 0
  /\ log = << >> /\ held = {} /\ performed = {}

-----------------------------------------------------------------------------
(* dump_to_file, which runs beside the thread: it compresses the buffer,   *)
(* appends one block, then advances the end offset and is finished.        *)

(* The thread has stored into slot s of the buffer since the dump was      *)
(* handed it.                                                              *)
Overwritten(j, s) == bufs[j.b][s - 1] # j.given[s]

(* The items whose bytes may stand in slot k of the block.                 *)
(* lzo1x_1_compress works on the vector the thread stores into, and        *)
(* neither side is atomic.  It reads a byte more than once, to look for a  *)
(* match, to count its length and to copy a literal, and the match it      *)
(* writes names an earlier position: once a slot up to k has been stored   *)
(* into, any byte of slot k may come from any of them, as it was or as it  *)
(* is, and one slot may mix the bytes of several items.  Before that the   *)
(* block is what the buffer was.                                           *)
MayHold(j, k) ==
  IF \E s \in 1 .. k : Overwritten(j, s)
  THEN UNION {{j.given[s], bufs[j.b][s - 1]} : s \in 1 .. k}
  ELSE {j.given[k]}

(* lzo1x_1_compress returns.  A store the thread has begun counts: it may  *)
(* have been seen.                                                         *)
DumpCompress(j) ==
  /\ j.stage = "compress"
  /\ running' = (running \ {j})
       \cup {[j EXCEPT !.data = [k \in 1 .. j.n |-> MayHold(j, k)],
                      !.stage = "compressed"]}
  /\ UNCHANGED <<pc, op, threadVars, fut, fileVars, history>>

(* The block a dump appends: a header with the length, then the items.     *)
BlockOf(j) ==
  [pos |-> PosOf(Len(datafile)), first |-> j.first, n |-> j.n, data |-> j.data]

(* fwrite on the stream.  Once thread_end has closed it the write is       *)
(* undefined: the block may be lost.                                       *)
DumpWrite(j) ==
  /\ j.stage = "compressed"
  /\ \/ datafile' = Append(datafile, BlockOf(j))
     \/ pc = "ended" /\ UNCHANGED datafile
  /\ running' = (running \ {j}) \cup {[j EXCEPT !.stage = "written"]}
  /\ UNCHANGED <<pc, op, threadVars, fut, offset_begin, offset_end, metafile,
                 history>>

DumpFinish(j) ==
  /\ j.stage = "written"
  /\ offset_end' = offset_end + BlockSize(j.n)
  /\ running' = running \ {j}
  /\ UNCHANGED <<pc, op, threadVars, fut, datafile, offset_begin, metafile,
                 history>>

Dump == \E j \in running : DumpCompress(j) \/ DumpWrite(j) \/ DumpFinish(j)

(* Mutant: thread_begin does not give the future a task to start from.     *)
FutureReadyWithoutDummy == fut # 0 /\ \A j \in running : j.id # fut

(* fut.wait() returns.                                                     *)
FutureReady == \A j \in running : j.id # fut

(* SWAP_BUFFER.  Both of its branches compare where they mean to assign,   *)
(* so the thread keeps the buffer it had.                                  *)
SWAP_BUFFER == cur' = cur

(* What the first n slots of the buffer hold when a dump is given them.    *)
BufferedItems(n) == [s \in 1 .. n |-> bufs[cur][s - 1]]

(* Mutant: the filter survives the dump.                                   *)
StartDumpKeepingFilter(n) ==
  /\ fut' = fut + 1
  /\ running' = running \cup
       {[id |-> fut + 1, b |-> cur, first |-> Len(log) - n, n |-> n,
         given |-> BufferedItems(n), data |-> << >>, stage |-> "compress"]}
  /\ idx' = 0
  /\ UNCHANGED set
  /\ SWAP_BUFFER

(* The common tail of DUMP_TO_FILE and DUMPNOCHECK_TO_FILE: start a dump   *)
(* of the first n slots, then reuse the buffer and forget the filter.      *)
StartDump(n) ==
  /\ fut' = fut + 1
  /\ running' = running \cup
       {[id |-> fut + 1, b |-> cur, first |-> Len(log) - n, n |-> n,
         given |-> BufferedItems(n), data |-> << >>, stage |-> "compress"]}
  /\ idx' = 0
  /\ set' = {}
  /\ SWAP_BUFFER

-----------------------------------------------------------------------------
(* Storing items.                                                          *)

(* The item goes to slot __sword_idx__ of the current buffer; then         *)
(* DUMP_TO_FILE up to its fut.wait().                                      *)
StoreItem(item) ==
  /\ log' = Append(log, item)
  /\ bufs' = [bufs EXCEPT ![cur][idx] = Len(log) + 1]
  /\ idx' = idx + 1
  /\ pc' = IF idx + 1 = NUM_OF_ACCESSES THEN "full" ELSE "user"

(* SAVE_ACCESS, the body of every __sword_read, __sword_write and          *)
(* __sword_atomic entry point.                                             *)
SaveAccess(a) ==
  /\ pc = "user" /\ status = 1 /\ Len(log) < MaxLog
  /\ performed' = performed \cup {[what |-> a, held |-> held]}
  /\ \/ /\ hash_value[a] \notin set
        /\ set' = set \cup {hash_value[a]}
        /\ StoreItem([kind |-> "data_access", what |-> a, held |-> held])
     \/ /\ hash_value[a] \in set
        /\ UNCHANGED <<pc, idx, bufs, set, log>>
  /\ UNCHANGED <<op, status, cur, fut, running, fileVars, bid, held>>

(* on_ompt_callback_mutex_acquired, in or out of a parallel region.        *)
MutexAcquired(l) ==
  /\ pc = "user" /\ l \notin held /\ Len(log) < MaxLog
  /\ held' = held \cup {l}
  /\ StoreItem([kind |-> "mutex_acquired", what |-> l, held |-> held])
  /\ UNCHANGED <<op, status, cur, set, fut, running, fileVars, bid, performed>>

(* on_ompt_callback_mutex_released.                                        *)
MutexReleased(l) ==
  /\ pc = "user" /\ l \in held /\ Len(log) < MaxLog
  /\ held' = held \ {l}
  /\ StoreItem([kind |-> "mutex_released", what |-> l, held |-> held])
  /\ UNCHANGED <<op, status, cur, set, fut, running, fileVars, bid, performed>>

(* Mutant: DUMP_TO_FILE does not wait for the previous dump.               *)
DumpFullWithoutWait ==
  /\ pc = "full"
  /\ StartDump(NUM_OF_ACCESSES)
  /\ pc' = "user"
  /\ UNCHANGED <<op, status, bufs, fileVars, bid, history>>

(* The rest of DUMP_TO_FILE, once the previous dump has finished.          *)
DumpFull ==
  /\ pc = "full" /\ FutureReady
  /\ StartDump(NUM_OF_ACCESSES)
  /\ pc' = "user"
  /\ UNCHANGED <<op, status, bufs, fileVars, bid, history>>

-----------------------------------------------------------------------------
(* Cutting the trace: the handlers that write a record.                    *)

(* Where DUMPNOCHECK_TO_FILE leaves the thread: it has a dump to start, or *)
(* it is already at the handler's own fut.wait().                          *)
EnterCut(handler) ==
  /\ op' = handler
  /\ pc' = IF idx > 0 THEN "flush" ELSE "record"

(* on_ompt_callback_implicit_task, ompt_scope_begin, level 1.              *)
ImplicitTaskBegin ==
  /\ pc = "user" /\ status = 0 /\ Len(metafile) < MaxRecords
  /\ status' = 1
  /\ bid' = 0
  /\ EnterCut("implicit_task")
  /\ UNCHANGED <<idx, cur, bufs, set, fut, running, fileVars, history>>

(* on_ompt_callback_sync_region, ompt_scope_begin.                         *)
SyncRegionBegin ==
  /\ pc = "user" /\ status = 1 /\ Len(metafile) < MaxRecords
  /\ EnterCut("sync_region")
  /\ UNCHANGED <<threadVars, fut, running, fileVars, history>>

(* The rest of DUMPNOCHECK_TO_FILE.                                        *)
DumpNoCheck ==
  /\ pc = "flush" /\ FutureReady
  /\ StartDump(idx)
  /\ pc' = "record"
  /\ UNCHANGED <<op, status, bufs, fileVars, bid, history>>

(* Mutant: the record is written without waiting for the dump.             *)
WriteRecordWithoutWait ==
  /\ pc = "record"
  /\ metafile' = Append(metafile,
       [bid |-> bid, obegin |-> offset_begin, oend |-> offset_end,
        lo |-> Mark, hi |-> Len(log)])
  /\ offset_begin' = offset_end
  /\ bid' = IF op = "sync_region" THEN bid + 1 ELSE bid
  /\ pc' = "user" /\ op' = "none"
  /\ performed' = {}
  /\ UNCHANGED <<status, idx, cur, bufs, set, fut, running, datafile,
                 offset_end, log, held>>

(* Mutant: the next interval does not begin where this one ended.          *)
WriteRecordKeepingBegin ==
  /\ pc = "record" /\ FutureReady
  /\ metafile' = Append(metafile,
       [bid |-> bid, obegin |-> offset_begin, oend |-> offset_end,
        lo |-> Mark, hi |-> Len(log)])
  /\ bid' = IF op = "sync_region" THEN bid + 1 ELSE bid
  /\ pc' = "user" /\ op' = "none"
  /\ performed' = {}
  /\ UNCHANGED <<status, idx, cur, bufs, set, fut, running, datafile,
                 offset_begin, offset_end, log, held>>

(* fut.wait(), the record, and the next interval begins where this ended.  *)
WriteRecord ==
  /\ pc = "record" /\ FutureReady
  /\ metafile' = Append(metafile,
       [bid |-> bid, obegin |-> offset_begin, oend |-> offset_end,
        lo |-> Mark, hi |-> Len(log)])
  /\ offset_begin' = offset_end
  /\ bid' = IF op = "sync_region" THEN bid + 1 ELSE bid
  /\ pc' = "user" /\ op' = "none"
  /\ performed' = {}
  /\ UNCHANGED <<status, idx, cur, bufs, set, fut, running, datafile,
                 offset_end, log, held>>

(* on_ompt_callback_implicit_task, ompt_scope_end: OpenMP puts it after    *)
(* the region's closing barrier, where nothing is stored.                  *)
ImplicitTaskEnd ==
  /\ pc = "user" /\ status = 1 /\ Len(log) = Mark
  /\ status' = 0
  /\ UNCHANGED <<pc, op, idx, cur, bufs, set, fut, running, fileVars, bid,
                 history>>

(* on_ompt_callback_thread_end: the files are closed, whatever the dump is *)
(* doing and whatever is left in the buffer.                               *)
ThreadEnd ==
  /\ pc = "user" /\ status = 0
  /\ pc' = "ended"
  /\ UNCHANGED <<op, threadVars, fut, running, fileVars, history>>

-----------------------------------------------------------------------------
Handler ==
  \/ \E a \in Accesses : SaveAccess(a)
  \/ \E l \in Locks : MutexAcquired(l) \/ MutexReleased(l)
  \/ ImplicitTaskBegin \/ SyncRegionBegin \/ ImplicitTaskEnd \/ ThreadEnd

(* The thread goes on after a wait.                                        *)
Resume == DumpFull \/ DumpNoCheck \/ WriteRecord

Next == Handler \/ Resume \/ Dump

Spec == Init /\ [][Next]_vars

(* A dump that was started runs to its end, on its own thread or inside    *)
(* wait(), and a thread whose future is ready goes on.  The program itself *)
(* owes no progress.                                                       *)
FairSpec == Spec /\ WF_vars(Dump) /\ WF_vars(Resume)

-----------------------------------------------------------------------------
(* Properties.                                                             *)

Blocks == [pos : Nat, first : Nat, n : Nat, data : Seq(SUBSET Nat)]
Records == [bid : Nat, obegin : Nat, oend : Nat, lo : Nat, hi : Nat]
Jobs == [id : Nat, b : {1, 2}, first : Nat, n : 1 .. NUM_OF_ACCESSES,
         given : Seq(Nat), data : Seq(SUBSET Nat),
         stage : {"compress", "compressed", "written"}]

(* Every variable has its type; a buffer index never passes the end of the *)
(* buffer, and it is at the end only while DUMP_TO_FILE waits.             *)
TypeOK ==
  /\ pc \in {"user", "full", "flush", "record", "ended"}
  /\ op \in {"none", "implicit_task", "sync_region"}
  /\ status \in {0, 1}
  /\ idx \in 0 .. NUM_OF_ACCESSES
  /\ pc # "full" => idx < NUM_OF_ACCESSES
  /\ cur \in {1, 2}
  /\ bufs \in [{1, 2} -> [Slots -> Nat]]
  /\ set \subseteq {hash_value[a] : a \in Accesses}
  /\ fut \in Nat
  /\ running \subseteq Jobs
  /\ datafile \in Seq(Blocks)
  /\ offset_begin \in Nat /\ offset_end \in Nat
  /\ metafile \in Seq(Records)
  /\ bid \in Nat
  /\ log \in Seq(Items)
  /\ held \subseteq Locks
  /\ performed \subseteq [what : Accesses, held : SUBSET Locks]

(* At most one dump of the thread is running: two would compress into the  *)
(* same out buffer and append to the same stream at once.                  *)
DumpsExclusive == \A j, k \in running : j = k

(* The filter never holds more keys than the buffer holds items: every     *)
(* path that empties the buffer also clears the filter.  The hash set of   *)
(* the filter never grows, so this is what keeps it from filling up.       *)
FilterBounded == IsFiniteSet(set) /\ Cardinality(set) <= idx

(* The data file is a gapless sequence of blocks that hold consecutive     *)
(* runs of items.                                                          *)
BlocksContiguous ==
  \A i \in 1 .. Len(datafile) :
    datafile[i].pos = PosOf(i - 1) /\ datafile[i].first = ItemOf(i - 1)

(* The byte range of every record begins and ends between two blocks, and  *)
(* the blocks in it hold as many items as the thread stored in the         *)
(* interval, none of a neighbouring one.                                   *)
IntervalsOnFile ==
  /\ BlocksContiguous
  /\ \A i \in 1 .. Len(metafile) :
       \E k, m \in 0 .. Len(datafile) :
         /\ k <= m
         /\ metafile[i].obegin = PosOf(k) /\ metafile[i].lo = ItemOf(k)
         /\ metafile[i].oend = PosOf(m) /\ metafile[i].hi = ItemOf(m)

(* A block of a cut holds exactly the items stored.  In a block of a full  *)
(* buffer a slot may hold bytes of the items of the slots up to it, and of *)
(* those stored into these slots one buffer later, but it is exact unless  *)
(* it may hold one of the latter.                                          *)
OverwriteBounded ==
  \A i \in 1 .. Len(datafile) : LET B == datafile[i] IN
    \A k \in 1 .. B.n :
      \/ B.data[k] = {B.first + k}
      \/ /\ B.n = NUM_OF_ACCESSES
         /\ B.data[k] \subseteq (B.first + 1 .. B.first + k)
                  \cup (B.first + B.n + 1 .. B.first + B.n + k)
         /\ \E v \in B.data[k] : v > B.first + B.n

(* The bytes of a record come from items of its interval.                  *)
NoForeignItems ==
  \A i \in 1 .. Len(metafile), j \in 1 .. Len(datafile) :
    metafile[i].obegin <= datafile[j].pos /\ datafile[j].pos < metafile[i].oend
      => \A k \in 1 .. datafile[j].n :
           datafile[j].data[k] \subseteq metafile[i].lo + 1 .. metafile[i].hi

(* How much the buffer that is never swapped can spoil, however the        *)
(* compression and the stores of the thread race.  A block that a cut      *)
(* wrote is exact; a block of a full buffer may have slots torn between    *)
(* items of its own and of the next buffer, never of a later one           *)
(* (OverwriteBounded).  Even then, no byte between the offsets of a record *)
(* is of an item of another interval (NoForeignItems), so the last block   *)
(* of an interval is exact.                                                *)
DamageBounded == OverwriteBounded /\ NoForeignItems

(* Every access performed since the last record has an item with its hash  *)
(* in the current interval: the filter never suppresses an access because  *)
(* of one made in an earlier interval.                                     *)
AccessLoggedInInterval ==
  \A p \in performed : \E i \in Mark + 1 .. Len(log) :
    /\ log[i].kind = "data_access"
    /\ hash_value[log[i].what] = hash_value[p.what]

(* A handler that waits for a dump returns to the program.                 *)
HandlersReturn == pc \in {"full", "flush", "record"} ~> pc = "user"

(* The interval log a reader of the two files recovers: the items between  *)
(* the byte offsets of each record.                                        *)
ItemsBefore(offset) ==
  ItemOf(CHOOSE k \in 0 .. Len(datafile) : PosOf(k) = offset)

ReadIntervals ==
  [i \in 1 .. Len(metafile) |->
     [lo |-> ItemsBefore(metafile[i].obegin),
      hi |-> ItemsBefore(metafile[i].oend)]]

Abstract == INSTANCE IntervalLog WITH count <- Len(log), closed <- ReadIntervals

(* The files implement the interval log: what a reader finds between the   *)
(* offsets of the records is the log, cut where the handlers cut it.       *)
ImplementsIntervalLog == Abstract!Spec
=============================================================================
