---------------------------- MODULE SwordRuntime -----------------------------
(***************************************************************************)
(* The callbacks through which the OpenMP runtime drives the collection of *)
(* traces (src/rtl/sword_rtl.cc): the threads of a program, its parallel   *)
(* regions and barriers, the nesting counter and the barrier counter of    *)
(* every thread, the ParallelData objects the callbacks hang on regions    *)
(* and implicit tasks, and the meta files, read the way the race analyzer  *)
(* reads them.                                                             *)
(*                                                                         *)
(* What the files hold is abstracted to what TraceBuffer is shown to       *)
(* implement, the IntervalLog: a thread stores items, and a record closes  *)
(* the interval of the items stored since the previous record.             *)
(*                                                                         *)
(* The OpenMP runtime is external and appears as the order in which it     *)
(* makes its calls: a team synchronises at barriers, the master leaves the *)
(* region once all have arrived at the closing one, and a worker reports   *)
(* the end of its implicit task any time later, before its next one.       *)
(***************************************************************************)
EXTENDS Integers, Sequences, FiniteSets

CONSTANTS
  Threads,   \* numbers of the threads of the process, 0 is the initial one
  Programs   \* the kinds of programs; of each, its bounds:
             \*   threads    the threads it has
             \*   levels     how deep it nests its parallel regions
             \*   taskwaits  its taskwaits
             \*   regions    its regions
             \*   barriers   the barriers inside a region
             \*   items      the items a thread stores

ASSUME ThreadsAssumption ==
  /\ Threads \subseteq Nat /\ IsFiniteSet(Threads) /\ 0 \in Threads
  /\ \A p \in Programs : /\ p.threads \subseteq Threads /\ 0 \in p.threads
                        /\ p.levels \in Nat /\ p.regions \in Nat
                        /\ p.barriers \in Nat

VARIABLES
  program,   \* the program that runs
  regions,   \* OpenMP: the regions begun so far
  frames,    \* OpenMP: the regions a thread is in, the innermost last
  arrived,   \* OpenMP: barriers of a region a thread has arrived at
  taskwaits, \* OpenMP: taskwaits so far
  late,      \* OpenMP: implicit tasks whose end a worker has still to report
  ids,       \* ID of my_next_id
  tid,       \* __sword_tid__, -1 before thread_begin
  status,    \* __sword_status__
  bid,       \* __sword_bid__
  offset,    \* __sword_offset__
  span,      \* __sword_span__
  heap,      \* the ParallelData objects that are allocated
  items,     \* the items a thread has stored: where in the program it was
  metafile   \* records of the file of each tid

openmp == <<regions, frames, arrived, taskwaits, late>>
labels == <<offset, span>>
files == <<items, metafile>>
vars == <<program, openmp, ids, tid, status, bid, labels, heap, files>>

-----------------------------------------------------------------------------
(* OpenMP: where a thread is.                                              *)

Tids == 0 .. Cardinality(Threads) - 1

InRegion(t) == frames[t] # << >>
Frame(t) == frames[t][Len(frames[t])]
Region(t) == Frame(t).region
Depth(t) == IF InRegion(t) THEN regions[Region(t)].level ELSE 0
At(t, place) == InRegion(t) /\ Frame(t).at = place
MoveTo(t, place) == frames' = [frames EXCEPT ![t][Len(frames[t])].at = place]
LeaveRegion(t) == frames' = [frames EXCEPT ![t] = SubSeq(@, 1, Len(@) - 1)]

(* The thread runs code of the program: in a region, or as the initial     *)
(* thread outside of all regions.                                          *)
Running(t) == IF InRegion(t) THEN At(t, "user") ELSE t = 0

(* omp_get_thread_num in region r.                                         *)
Num(r, t) ==
  IF t = regions[r].master THEN 0
  ELSE Cardinality({u \in regions[r].team \ {regions[r].master} : u < t}) + 1

OmpThreadNum(t) == IF InRegion(t) THEN Num(Region(t), t) ELSE 0

(* The items a thread stores say in which region and between which two     *)
(* barriers of it the thread was; region 0 is the sequential program.      *)
Place(t) ==
  IF InRegion(t) THEN [region |-> Region(t), phase |-> Frame(t).phase]
  ELSE [region |-> 0, phase |-> 0]

-----------------------------------------------------------------------------
(* ParallelData objects: one of each region, and a copy of it for each of  *)
(* the region's implicit tasks.  A pointer is the object's name: the       *)
(* region, and the thread whose task owns the copy or -1.                  *)

ParallelPtr(r) == [region |-> r, owner |-> -1]
TaskPtr(r, t) == [region |-> r, owner |-> t]

(* The fields of a live object.                                            *)
Deref(ptr) == CHOOSE d \in heap : d.ptr = ptr
Live(ptr) == \E d \in heap : d.ptr = ptr
Free(ptr) == heap' = {d \in heap : d.ptr # ptr}

-----------------------------------------------------------------------------
Init ==
  /\ program \in Programs
  /\ regions = << >>
  /\ frames = [t \in Threads |-> << >>]
  /\ arrived = [r \in 1 .. program.regions |-> [t \in Threads |-> 0]]
  /\ taskwaits = 0
  /\ late = [t \in Threads |-> {}]
  /\ ids = 0
  /\ tid = [t \in Threads |-> -1]
  /\ status = [t \in Threads |-> 0]
  /\ bid = [t \in Threads |-> 0]
  /\ offset = [t \in Threads |-> 0]
  /\ span = [t \in Threads |-> 0]
  /\ heap = {}
  /\ items = [t \in Threads |-> << >>]
  /\ metafile = [i \in Tids |-> << >>]

(* Mutant: a concurrent thread_begin overwrites the increment.             *)
ThreadBeginLostUpdate(t) ==
  /\ tid[t] = -1
  /\ IF t = 0 THEN regions = << >> ELSE At(t, "begun")
  /\ tid' = [tid EXCEPT ![t] = ids]
  /\ \E i \in {ids, ids + 1} : ids' = i
  /\ UNCHANGED <<openmp, status, bid, labels, heap, files>>

(* on_ompt_callback_thread_begin: the next tid, from a fetch-and-add; the  *)
(* tid names the thread's files.  The initial thread comes first.          *)
ThreadBegin(t) ==
  /\ tid[t] = -1
  /\ IF t = 0 THEN regions = << >> ELSE At(t, "begun")
  /\ tid' = [tid EXCEPT ![t] = ids]
  /\ ids' = ids + 1
  /\ offset' = [offset EXCEPT ![t] = 0]
  /\ span' = [span EXCEPT ![t] = 0]
  /\ UNCHANGED <<openmp, status, bid, heap, files>>

-----------------------------------------------------------------------------
(* The record that on_ompt_callback_implicit_task and                      *)
(* on_ompt_callback_sync_region write after they have flushed the buffer.  *)

Mark(t) ==
  LET m == metafile[tid[t]] IN IF m = << >> THEN 0 ELSE m[Len(m)].hi

WriteRecord(t, data, barrier, off, spn) ==
  metafile' = [metafile EXCEPT ![tid[t]] = Append(@,
    [pid |-> data.parallel_id, ppid |-> data.parent_parallel_id,
     bid |-> barrier, offset |-> off, span |-> spn, level |-> data.level,
     lo |-> Mark(t), hi |-> Len(items[t])])]

(* SAVE_ACCESS in a region, or a mutex event anywhere: an item is stored.  *)
StoreItem(t) ==
  /\ Running(t) /\ tid[t] # -1
  /\ Len(items[t]) < program.items
  /\ items' = [items EXCEPT ![t] = Append(@, Place(t))]
  /\ UNCHANGED <<openmp, ids, tid, status, bid, labels, heap, metafile>>

-----------------------------------------------------------------------------
(* The parent that a new region gets: none, or the region of the task that *)
(* meets it.                                                               *)
ParentId(t) ==
  IF status[t] + 1 = 1 THEN 0 ELSE Deref(Frame(t).ptr).parallel_id

(* on_ompt_callback_parallel_begin, called by the thread that meets the    *)
(* region; OpenMP gives it a team of itself and threads that are in no     *)
(* region.                                                                 *)
ParallelBegin(t, team, requested, barriers) ==
  LET r == Len(regions) + 1 IN
  /\ Running(t) /\ tid[t] # -1
  /\ r <= program.regions /\ Depth(t) < program.levels
  /\ t \in team /\ \A u \in team \ {t} : ~InRegion(u) /\ u # 0
  /\ Cardinality(team) <= requested
  /\ regions' = Append(regions,
       [team |-> team, master |-> t, barriers |-> barriers, ended |-> FALSE,
        parent |-> Place(t).region, level |-> Depth(t) + 1])
  /\ frames' = [u \in Threads |->
       IF u \in team
       THEN Append(frames[u], [region |-> r, phase |-> 0, at |-> "begun",
                               ptr |-> ParallelPtr(r)])
       ELSE frames[u]]
  /\ status' = [status EXCEPT ![t] = @ + 1]
  /\ heap' = heap \cup
       {[ptr |-> ParallelPtr(r), parallel_id |-> r,
         parent_parallel_id |-> ParentId(t), level |-> status[t] + 1]}
  /\ IF status[t] + 1 # 1
     THEN /\ offset' = [offset EXCEPT ![t] =
               IF span[t] # 0 THEN @ + span[t] ELSE OmpThreadNum(t) + requested]
          /\ span' = [span EXCEPT ![t] = requested]
     ELSE UNCHANGED labels
  /\ UNCHANGED <<arrived, taskwaits, late, ids, tid, bid, files>>

(* Mutant: the implicit task shares the object of its region.              *)
ImplicitTaskBeginSharing(t) ==
  LET r == Region(t)
      data == Deref(ParallelPtr(r))
  IN
  /\ At(t, "begun") /\ tid[t] # -1 /\ late[t] = {}
  /\ MoveTo(t, "user")
  /\ status' = [status EXCEPT ![t] = data.level]
  /\ IF data.level = 1
     THEN /\ bid' = [bid EXCEPT ![t] = 0]
          /\ WriteRecord(t, data, 0, Num(r, t), Cardinality(regions[r].team))
          /\ UNCHANGED labels
     ELSE UNCHANGED <<bid, labels, metafile>>
  /\ UNCHANGED <<regions, arrived, taskwaits, late, ids, tid, heap, items>>

(* on_ompt_callback_implicit_task, ompt_scope_begin, on every thread of    *)
(* the team: the task gets a copy of the region's object; in a region of   *)
(* level 1 the barrier counter restarts and what the thread stored before  *)
(* the region is cut off.                                                  *)
ImplicitTaskBegin(t) ==
  LET r == Region(t)
      data == Deref(ParallelPtr(r))
      size == Cardinality(regions[r].team)
  IN
  /\ At(t, "begun") /\ tid[t] # -1 /\ late[t] = {}
  /\ frames' = [frames EXCEPT ![t][Len(frames[t])].at = "user",
                              ![t][Len(frames[t])].ptr = TaskPtr(r, t)]
  /\ heap' = heap \cup {[data EXCEPT !.ptr = TaskPtr(r, t)]}
  /\ status' = [status EXCEPT ![t] = data.level]
  /\ IF data.level = 1
     THEN /\ bid' = [bid EXCEPT ![t] = 0]
          /\ WriteRecord(t, data, 0, Num(r, t), size)
          /\ IF span[t] = 0
             THEN /\ offset' = [offset EXCEPT ![t] = Num(r, t)]
                  /\ span' = [span EXCEPT ![t] = size]
             ELSE UNCHANGED labels
     ELSE UNCHANGED <<bid, labels, metafile>>
  /\ UNCHANGED <<regions, arrived, taskwaits, late, ids, tid, items>>

-----------------------------------------------------------------------------
(* Mutant: the barrier counter stays where it is.                          *)
SyncRegionKeepingBid(t) ==
  /\ WriteRecord(t, Deref(Frame(t).ptr), bid[t], offset[t], span[t])
  /\ UNCHANGED bid

(* on_ompt_callback_sync_region, ompt_scope_begin: a record of the         *)
(* interval that ends here, and the next barrier interval.                 *)
SyncRegion(t) ==
  /\ WriteRecord(t, Deref(Frame(t).ptr), bid[t], offset[t], span[t])
  /\ bid' = [bid EXCEPT ![t] = @ + 1]

(* The thread arrives at a barrier of its region, the closing one last.    *)
ArriveAtBarrier(t) ==
  /\ At(t, "user")
  /\ SyncRegion(t)
  /\ arrived' = [arrived EXCEPT ![Region(t)][t] = @ + 1]
  /\ MoveTo(t, "barrier")
  /\ UNCHANGED <<regions, taskwaits, late, ids, tid, status, labels, heap,
                 items>>

(* The thread waits for its child tasks: the callback is the same, but no  *)
(* other thread of the team takes part.                                    *)
Taskwait(t) ==
  /\ At(t, "user")
  /\ taskwaits < program.taskwaits
  /\ SyncRegion(t)
  /\ taskwaits' = taskwaits + 1
  /\ UNCHANGED <<regions, frames, arrived, late, ids, tid, status, labels,
                 heap, items>>

AllArrived(t) ==
  LET r == Region(t)
  IN \A u \in regions[r].team : arrived[r][u] > Frame(t).phase

(* OpenMP lets the thread leave the barrier: to the next phase of the      *)
(* region or, from the closing barrier, out of it.                         *)
LeaveBarrier(t) ==
  /\ At(t, "barrier") /\ AllArrived(t)
  /\ IF Frame(t).phase < regions[Region(t)].barriers
     THEN /\ frames' = [frames EXCEPT ![t][Len(frames[t])].at = "user",
                                      ![t][Len(frames[t])].phase = @ + 1]
          /\ UNCHANGED late
     ELSE IF t = regions[Region(t)].master
     THEN MoveTo(t, "joined") /\ UNCHANGED late
     ELSE /\ LeaveRegion(t)
          /\ late' = [late EXCEPT ![t] = {Frame(t).ptr}]
  /\ UNCHANGED <<regions, arrived, taskwaits, ids, tid, status, bid, labels,
                 heap, files>>

-----------------------------------------------------------------------------
(* Mutant: the end of an implicit task does not decrement the counter.     *)
EndTaskKeepingStatus(t, ptr) ==
  /\ Free(ptr)
  /\ UNCHANGED status

(* on_ompt_callback_implicit_task, ompt_scope_end.                         *)
EndTask(t, ptr) ==
  /\ Free(ptr)
  /\ status' = [status EXCEPT ![t] = @ - 1]

ImplicitTaskEndMaster(t) ==
  /\ At(t, "joined")
  /\ EndTask(t, Frame(t).ptr)
  /\ MoveTo(t, "ended")
  /\ UNCHANGED <<regions, arrived, taskwaits, late, ids, tid, bid, labels,
                 files>>

ImplicitTaskEndWorker(t) ==
  /\ \E ptr \in late[t] : EndTask(t, ptr)
  /\ late' = [late EXCEPT ![t] = {}]
  /\ UNCHANGED <<regions, frames, arrived, taskwaits, ids, tid, bid, labels,
                 files>>

(* on_ompt_callback_parallel_end, on the master of the region.             *)
ParallelEnd(t) ==
  /\ At(t, "ended")
  /\ Free(ParallelPtr(Region(t)))
  /\ regions' = [regions EXCEPT ![Region(t)].ended = TRUE]
  /\ LeaveRegion(t)
  /\ UNCHANGED <<arrived, taskwaits, late, ids, tid, status, bid, labels,
                 files>>

-----------------------------------------------------------------------------
Next ==
  /\ \E t \in Threads :
       \/ ThreadBegin(t)
       \/ StoreItem(t)
       \/ \E team \in SUBSET program.threads,
             requested \in 1 .. Cardinality(program.threads),
             barriers \in 0 .. program.barriers :
            ParallelBegin(t, team, requested, barriers)
       \/ ImplicitTaskBegin(t)
       \/ ArriveAtBarrier(t)
       \/ Taskwait(t)
       \/ LeaveBarrier(t)
       \/ ImplicitTaskEndMaster(t)
       \/ ImplicitTaskEndWorker(t)
       \/ ParallelEnd(t)
  /\ UNCHANGED program

Spec == Init /\ [][Next]_vars

-----------------------------------------------------------------------------
(* What the race analyzer makes of the meta files.                         *)

(* The scan of main over one meta file for --pregion r --bid b: each       *)
(* matching record replaces the one before in traces[tid].                 *)
Picked(i, r, b) ==
  LET matching == {k \in 1 .. Len(metafile[i]) :
                     metafile[i][k].pid = r /\ metafile[i][k].bid = b}
  IN {k \in matching : \A m \in matching : m <= k}

(* The items the analyzer loads for a thread.                              *)
Loaded(t, r, b) ==
  UNION {metafile[tid[t]][k].lo + 1 .. metafile[tid[t]][k].hi :
           k \in Picked(tid[t], r, b)}

Bids == {m.bid : m \in UNION {{metafile[i][k] : k \in 1 .. Len(metafile[i])} :
                                i \in Tids}}

(* Two items of different threads are loaded by one call of the analyzer.  *)
Compared(r, t, i, u, j) ==
  \E b \in Bids : i \in Loaded(t, r, b) /\ j \in Loaded(u, r, b)

-----------------------------------------------------------------------------
(* Properties.                                                             *)

(* Every variable has its type.  The nesting counter is never negative and *)
(* never exceeds the nesting of the program.                               *)
TypeOK ==
  /\ \A t \in Threads :
       /\ tid[t] \in {-1} \cup Tids
       /\ status[t] \in 0 .. program.levels
       /\ bid[t] \in Nat /\ offset[t] \in Nat /\ span[t] \in Nat
       /\ Len(frames[t]) <= program.levels
       /\ late[t] \subseteq [region : Nat, owner : Threads]
  /\ ids \in 0 .. Cardinality(Threads)
  /\ \A d \in heap :
       d.parallel_id \in Nat /\ d.parent_parallel_id \in Nat /\ d.level \in Nat

NoDangling ==
  \A t \in Threads :
    /\ \A ptr \in late[t] : Live(ptr)
    /\ \A k \in 1 .. Len(frames[t]) :
         frames[t][k].at # "ended" => Live(frames[t][k].ptr)
    /\ At(t, "ended") => Live(ParallelPtr(Region(t)))

NoLeak ==
  \A d \in heap :
    \/ d.ptr.owner = -1 /\ ~regions[d.ptr.region].ended
    \/ d.ptr.owner \in Threads
         /\ \/ d.ptr \in late[d.ptr.owner]
            \/ \E k \in 1 .. Len(frames[d.ptr.owner]) :
                 frames[d.ptr.owner][k].ptr = d.ptr

(* A callback never reads or frees an object that is already freed: the    *)
(* region's object outlives the start of every task of the team, and a     *)
(* task's object outlives the late report of its end, which a worker may   *)
(* make after the region's own object is gone.  And an object is on the    *)
(* heap only as long as a callback is still to free it: a region that is   *)
(* over leaves none behind once its workers have reported the end of their *)
(* tasks.                                                                  *)
ObjectsExact == NoDangling /\ NoLeak

(* While a thread runs code of the program its nesting counter is the      *)
(* depth of the region it is in, whether a region's begin incremented it,  *)
(* a task's begin set it or late ends decremented it.  The instrumented    *)
(* code asks this counter whether it is in a parallel region.              *)
StatusIsLevel == \A t \in Threads : Running(t) => status[t] = Depth(t)

(* Two items of threads of one team are loaded by the same call of the     *)
(* analyzer if and only if both were stored in the same phase of that      *)
(* region: no race is missed, and accesses that a barrier orders, or that  *)
(* were made outside of the region, are never compared.  The property is   *)
(* about programs without inner regions and taskwaits: an inner region     *)
(* does not cut the trace of its master, and a taskwait advances the       *)
(* barrier counter of one thread only.                                     *)
ComparedIffConcurrent ==
  program.levels = 1 /\ program.taskwaits = 0 =>
    \A r \in 1 .. Len(regions) : regions[r].ended =>
      \A t, u \in regions[r].team : t # u =>
        \A i \in 1 .. Len(items[t]), j \in 1 .. Len(items[u]) :
          Compared(r, t, i, u, j)
            <=> items[t][i] = items[u][j] /\ items[t][i].region = r

(* The intervals that the records of a thread's file close.                *)
FileIntervals(t) ==
  IF tid[t] = -1 THEN << >>
  ELSE [k \in 1 .. Len(metafile[tid[t]]) |->
          [lo |-> metafile[tid[t]][k].lo, hi |-> metafile[tid[t]][k].hi]]

Log(t) == INSTANCE IntervalLog
            WITH count <- Len(items[t]), closed <- FileIntervals(t)

(* What a thread's files hold is the interval log of that thread alone,    *)
(* whatever the others do: no two threads ever share a tid, and no record  *)
(* skips or repeats items.                                                 *)
ThreadLogs ==
  /\ \A t \in Threads : Log(t)!Init
  /\ [][\A t \in Threads :
         Log(t)!Next \/ UNCHANGED <<Len(items[t]), FileIntervals(t)>>]_vars
=============================================================================
