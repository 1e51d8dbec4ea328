------------------------- MODULE SwordRuntimeProofs --------------------------
(***************************************************************************)
(* The callbacks of the runtime, for any number of threads, regions,       *)
(* nesting levels and barriers: the nesting counter is the depth of the    *)
(* region, no callback touches a ParallelData object that is freed, none   *)
(* leaks, and the files of a thread are its interval log.                  *)
(***************************************************************************)
EXTENDS SwordRuntime, SequenceTheorems, FiniteSetTheorems, TLAPS

Ptrs == [region : Nat, owner : Threads \cup {-1}]
Frames == [region : Nat, phase : Nat, ptr : Ptrs,
           at : {"begun", "user", "barrier", "joined", "ended"}]
RegionRecords == [team : SUBSET Threads, master : Threads, barriers : Nat,
                  ended : BOOLEAN, parent : Nat, level : Nat]

Types ==
  /\ program \in Programs
  /\ regions \in Seq(RegionRecords) /\ Len(regions) <= program.regions
  /\ frames \in [Threads -> Seq(Frames)]
  /\ arrived \in [1 .. program.regions -> [Threads -> Nat]]
  /\ late \in [Threads -> SUBSET Ptrs]
  /\ status \in [Threads -> Int]

(* How many barriers of its region a thread has arrived at.                *)
ArrivedOf(f, t) ==
  /\ f.at = "begun" => arrived[f.region][t] = 0 /\ f.phase = 0
  /\ f.at = "user" => arrived[f.region][t] = f.phase
  /\ f.at \in {"barrier", "joined", "ended"} => arrived[f.region][t] = f.phase + 1

(* Every thread of region r has arrived at its closing barrier.            *)
Closed(r) == \A u \in regions[r].team : arrived[r][u] > regions[r].barriers

(* What OpenMP and the callbacks keep about frame k of thread t.           *)
FrameOK(t, k) ==
  LET f == frames[t][k]
      r == f.region
  IN  /\ r \in 1 .. Len(regions) /\ t \in regions[r].team
      /\ f.ptr = IF f.at = "begun" THEN ParallelPtr(r) ELSE TaskPtr(r, t)
      /\ ArrivedOf(f, t) /\ f.phase <= regions[r].barriers
      /\ f.at \in {"joined", "ended"} => regions[r].master = t /\ Closed(r)
      /\ regions[r].master = t => ~regions[r].ended
      /\ t = 0 => regions[r].master = t
      /\ k < Len(frames[t]) => f.at = "user"

(* The frames of a thread: all but the first are of regions that it met    *)
(* itself, each one level deeper; only the initial thread meets a region   *)
(* outside of all regions.                                                 *)
NestOK(t, k) ==
  LET r == frames[t][k].region
  IN  /\ k = 1 /\ regions[r].master = t => t = 0 /\ regions[r].level = 1
      /\ k > 1 => /\ regions[r].master = t
                  /\ regions[r].level = regions[frames[t][k - 1].region].level + 1
      /\ \A j \in 1 .. k - 1 : frames[t][j].region # r

NestInv == \A t \in Threads : \A k \in 1 .. Len(frames[t]) : NestOK(t, k)

FramesInv == \A t \in Threads : \A k \in 1 .. Len(frames[t]) : FrameOK(t, k)

RegionsInv ==
  /\ \A r \in 1 .. Len(regions) : regions[r].level >= 1 /\ (regions[r].ended => Closed(r))
  /\ \A r \in Len(regions) + 1 .. program.regions : \A u \in Threads : arrived[r][u] = 0

(* A worker that has still to report the end of a task is in no region, or *)
(* has not begun its task there.                                           *)
LateOK(t) ==
  late[t] # {} =>
    /\ t # 0 /\ Len(frames[t]) <= 1
    /\ \A k \in 1 .. Len(frames[t]) : frames[t][k].at = "begun"
    /\ \A p, q \in late[t] : p = q /\ p.owner = t

LateInv == \A t \in Threads : LateOK(t)

(* The nesting counter, also where no code of the program runs.            *)
StatusOK(t) ==
  /\ InRegion(t) /\ Frame(t).at \in {"user", "barrier", "joined"} =>
       status[t] = regions[Region(t)].level
  /\ At(t, "ended") => status[t] = regions[Region(t)].level - 1
  /\ ~InRegion(t) /\ t = 0 => status[t] = 0

StatusInv == \A t \in Threads : StatusOK(t)

(* The object a pointer stands for.                                        *)
ObjectOf(p) ==
  [ptr |-> p, parallel_id |-> p.region, parent_parallel_id |-> regions[p.region].parent,
   level |-> regions[p.region].level]

LivePtrs == {d.ptr : d \in heap}

HeapInv ==
  /\ \A d \in heap : /\ d.ptr \in Ptrs /\ d.ptr.region \in 1 .. Len(regions)
                     /\ d = ObjectOf(d.ptr)
  /\ \A r \in 1 .. Len(regions) : ~regions[r].ended => ParallelPtr(r) \in LivePtrs

(* A master that has reported the end of its task has lost its object.     *)
FreedOK(t) == At(t, "ended") => Frame(t).ptr \notin LivePtrs

FreedInv == \A t \in Threads : FreedOK(t)

(* NoDangling for one thread.                                              *)
DanglingOK(t) ==
  /\ late[t] \subseteq LivePtrs
  /\ \A k \in 1 .. Len(frames[t]) :
       frames[t][k].at # "ended" => frames[t][k].ptr \in LivePtrs
  /\ At(t, "ended") => ParallelPtr(Region(t)) \in LivePtrs

CoreInv ==
  /\ Types /\ FramesInv /\ NestInv /\ RegionsInv /\ LateInv /\ StatusInv
  /\ HeapInv /\ FreedInv /\ NoDangling /\ NoLeak

(* What the thread-local counters and the meta files are.                  *)
Records == [pid : Nat, ppid : Nat, bid : Nat, offset : Nat, span : Nat, level : Nat,
            lo : Nat, hi : Nat]

FileTypes ==
  /\ tid \in [Threads -> Int] /\ bid \in [Threads -> Nat]
  /\ offset \in [Threads -> Nat] /\ span \in [Threads -> Nat]
  /\ items \in [Threads -> Seq([region : Nat, phase : Nat])]
  /\ metafile \in [Tids -> Seq(Records)]

(* Tids are given out in order, to one thread each, and the file of a tid  *)
(* is empty before.                                                        *)
Begun == {t \in Threads : tid[t] # -1}

TidInv ==
  /\ \A t \in Threads : tid[t] = -1 \/ tid[t] \in 0 .. ids - 1
  /\ \A t, u \in Begun : tid[t] = tid[u] => t = u
  /\ ids = Cardinality(Begun)
  /\ \A i \in Tids : i >= ids => metafile[i] = << >>

(* A thread that has begun a task has a tid.                               *)
BegunInv ==
  \A t \in Threads : \A k \in 1 .. Len(frames[t]) :
    frames[t][k].at # "begun" => tid[t] # -1

FileInv == FileTypes /\ TidInv /\ BegunInv

(* Nothing is nested deeper than the program nests, and a worker that owes *)
(* the end of a task has the counter to decrement.                         *)
RangeInv ==
  /\ \A r \in 1 .. Len(regions) : regions[r].level <= program.levels
  /\ \A t \in Threads :
       /\ \A k \in 1 .. Len(frames[t]) : regions[frames[t][k].region].level >= k
       /\ status[t] \in 0 .. program.levels
       /\ late[t] # {} => status[t] >= 1

-----------------------------------------------------------------------------
(* Types.                                                                  *)
LEMMA FrameTypes ==
  ASSUME Types, NEW t \in Threads
  PROVE  /\ frames[t] \in Seq(Frames) /\ Len(frames[t]) \in Nat
         /\ \A k \in 1 .. Len(frames[t]) :
              /\ frames[t][k] \in Frames /\ frames[t][k].region \in Nat
              /\ frames[t][k].phase \in Nat /\ frames[t][k].ptr \in Ptrs
              /\ frames[t][k].at \in {"begun", "user", "barrier", "joined", "ended"}
<1>1. frames[t] \in Seq(Frames)
  BY DEF Types
<1>2. Len(frames[t]) \in Nat /\ \A k \in 1 .. Len(frames[t]) : frames[t][k] \in Frames
  BY <1>1, ElementOfSeq
<1> QED BY <1>1, <1>2 DEF Frames

LEMMA RegionTypes ==
  ASSUME Types
  PROVE  /\ Len(regions) \in Nat /\ program.regions \in Nat
         /\ \A r \in 1 .. Len(regions) :
              /\ regions[r] \in RegionRecords /\ regions[r].team \subseteq Threads
              /\ regions[r].master \in Threads /\ regions[r].barriers \in Nat
              /\ regions[r].level \in Nat /\ regions[r].parent \in Nat
              /\ regions[r].ended \in BOOLEAN
              /\ r \in 1 .. program.regions
<1>1. regions \in Seq(RegionRecords)
  BY DEF Types
<1>2. Len(regions) \in Nat /\ \A r \in 1 .. Len(regions) : regions[r] \in RegionRecords
  BY <1>1, ElementOfSeq
<1>3. program.regions \in Nat /\ Len(regions) <= program.regions
  BY ThreadsAssumption DEF Types
<1>4. \A x \in RegionRecords :
        /\ x.team \subseteq Threads /\ x.master \in Threads /\ x.barriers \in Nat
        /\ x.level \in Nat /\ x.parent \in Nat /\ x.ended \in BOOLEAN
  BY DEF RegionRecords
<1>5. \A r \in 1 .. Len(regions) : r \in 1 .. program.regions
  BY <1>2, <1>3
<1> QED BY <1>2, <1>3, <1>4, <1>5

(* The innermost frame.                                                    *)
LEMMA TopFrame ==
  ASSUME Types, NEW t \in Threads, InRegion(t)
  PROVE  /\ Len(frames[t]) \in 1 .. Len(frames[t]) /\ Len(frames[t]) >= 1
         /\ Frame(t) \in Frames /\ Frame(t) = frames[t][Len(frames[t])]
<1>1. frames[t] \in Seq(Frames) /\ frames[t] # << >>
  BY FrameTypes DEF InRegion
<1>2. Len(frames[t]) \in 1 .. Len(frames[t]) /\ Len(frames[t]) >= 1
  BY <1>1
<1> QED BY <1>2, FrameTypes DEF Frame

(* The innermost frame of t becomes g.                                     *)
SetTop(t, g) == frames' = [frames EXCEPT ![t] = [@ EXCEPT ![Len(frames[t])] = g]]

LEMMA TopSet ==
  ASSUME Types, NEW t \in Threads, InRegion(t), NEW g \in Frames, SetTop(t, g)
  PROVE  /\ frames' \in [Threads -> Seq(Frames)]
         /\ Len(frames'[t]) = Len(frames[t]) /\ frames'[t] # << >>
         /\ frames'[t][Len(frames[t])] = g
         /\ \A k \in 1 .. Len(frames[t]) : k # Len(frames[t]) => frames'[t][k] = frames[t][k]
         /\ \A u \in Threads : u # t => frames'[u] = frames[u]
<1> DEFINE n == Len(frames[t])
           s == [frames[t] EXCEPT ![n] = g]
<1>1. frames[t] \in Seq(Frames) /\ n \in Nat /\ n \in 1 .. n
  BY FrameTypes, TopFrame
<1>2. frames \in [Threads -> Seq(Frames)] /\ frames' = [frames EXCEPT ![t] = s]
  BY DEF Types, SetTop
<1>3. /\ s \in Seq(Frames) /\ Len(s) = n /\ s[n] = g
      /\ \A k \in 1 .. n : k # n => s[k] = frames[t][k]
  BY <1>1
<1>4. s # << >>
  BY <1>1, <1>3
<1> HIDE DEF s
<1> QED BY <1>2, <1>3, <1>4

(* The innermost frame of t is left.                                       *)
LEMMA TopLeft ==
  ASSUME Types, NEW t \in Threads, InRegion(t), LeaveRegion(t)
  PROVE  /\ frames' \in [Threads -> Seq(Frames)]
         /\ Len(frames'[t]) = Len(frames[t]) - 1
         /\ \A k \in 1 .. Len(frames[t]) - 1 : frames'[t][k] = frames[t][k]
         /\ \A u \in Threads : u # t => frames'[u] = frames[u]
<1> DEFINE n == Len(frames[t])
           s == SubSeq(frames[t], 1, n - 1)
<1>1. frames[t] \in Seq(Frames) /\ n \in Nat /\ n >= 1
  BY FrameTypes, TopFrame
<1>2. frames \in [Threads -> Seq(Frames)] /\ frames' = [frames EXCEPT ![t] = s]
  BY DEF Types, LeaveRegion
<1>3. /\ s \in Seq(Frames) /\ Len(s) = n - 1
      /\ \A k \in 1 .. n - 1 : s[k] = frames[t][k]
  BY <1>1
<1> HIDE DEF s
<1> QED BY <1>2, <1>3

(* The steps that change a place only.                                     *)
LEMMA MoveIsSetTop ==
  ASSUME Types, NEW t \in Threads, InRegion(t), NEW place, MoveTo(t, place)
  PROVE  SetTop(t, [Frame(t) EXCEPT !.at = place])
  BY DEF MoveTo, SetTop, Frame

LEMMA DanglingByThread == NoDangling <=> \A t \in Threads : DanglingOK(t)
  BY DEF NoDangling, DanglingOK, Live, LivePtrs

(* A live pointer has the object it stands for.                            *)
LEMMA DerefLive ==
  ASSUME HeapInv, NEW p, p \in LivePtrs
  PROVE  Deref(p) \in heap /\ Deref(p) = ObjectOf(p) /\ p.region \in 1 .. Len(regions)
         /\ p \in Ptrs
<1>1. Deref(p) \in heap /\ Deref(p).ptr = p
  BY DEF Deref, LivePtrs
<1> QED BY <1>1 DEF HeapInv

(* A frame that does not change stays correct.                             *)
(* A frame that a callback has set.                                        *)
LEMMA FrameSet ==
  ASSUME NEW t, NEW n, NEW g, NEW r, frames'[t][n] = g, g.region = r, UNCHANGED regions,
         r \in 1 .. Len(regions), t \in regions[r].team,
         g.ptr = IF g.at = "begun" THEN ParallelPtr(r) ELSE TaskPtr(r, t),
         ArrivedOf(g, t)', g.phase <= regions[r].barriers,
         g.at \in {"joined", "ended"} => regions[r].master = t /\ Closed(r)',
         regions[r].master = t => ~regions[r].ended,
         t = 0 => regions[r].master = t,
         n < Len(frames'[t]) => g.at = "user"
  PROVE  FrameOK(t, n)'
<1>1. (IF g.at = "begun" THEN ParallelPtr(r) ELSE TaskPtr(r, t))'
        = IF g.at = "begun" THEN ParallelPtr(r) ELSE TaskPtr(r, t)
  BY DEF ParallelPtr, TaskPtr
<1> QED BY <1>1 DEF FrameOK

LEMMA FrameKept ==
  ASSUME NEW t \in Threads, NEW k, NEW r, FrameOK(t, k), frames'[t][k] = frames[t][k],
         r = frames[t][k].region, r \in 1 .. Len(regions'),
         /\ regions'[r].team = regions[r].team /\ regions'[r].master = regions[r].master
         /\ regions'[r].barriers = regions[r].barriers,
         regions[r].master = t => ~regions'[r].ended,
         arrived'[r][t] = arrived[r][t], Closed(r) => Closed(r)',
         k < Len(frames'[t]) => k < Len(frames[t]) \/ frames[t][k].at = "user"
  PROVE  FrameOK(t, k)'
<1> DEFINE f == frames[t][k]
<1>1. /\ t \in regions[r].team
      /\ f.ptr = IF f.at = "begun" THEN ParallelPtr(r) ELSE TaskPtr(r, t)
      /\ ArrivedOf(f, t) /\ f.phase <= regions[r].barriers
      /\ f.at \in {"joined", "ended"} => regions[r].master = t /\ Closed(r)
      /\ t = 0 => regions[r].master = t
      /\ k < Len(frames[t]) => f.at = "user"
  BY DEF FrameOK
<1>2. ArrivedOf(f, t)'
  BY <1>1 DEF ArrivedOf
<1> QED BY <1>1, <1>2 DEF FrameOK, ParallelPtr, TaskPtr

(* Replacing the innermost frame by one of the same region.                *)
LEMMA NestKept ==
  ASSUME CoreInv, NEW t \in Threads, InRegion(t), NEW g \in Frames, SetTop(t, g),
         g.region = Region(t), regions' = regions
  PROVE  /\ NestInv'
         /\ \A u \in Threads : /\ Len(frames'[u]) = Len(frames[u])
                               /\ InRegion(u)' = InRegion(u)
                               /\ \A k \in 1 .. Len(frames[u]) :
                                    frames'[u][k].region = frames[u][k].region
<1>1. /\ Len(frames'[t]) = Len(frames[t]) /\ frames'[t] # << >>
      /\ frames'[t][Len(frames[t])] = g
      /\ \A k \in 1 .. Len(frames[t]) : k # Len(frames[t]) => frames'[t][k] = frames[t][k]
      /\ \A u \in Threads : u # t => frames'[u] = frames[u]
  BY TopSet DEF CoreInv
<1>2. ASSUME NEW u \in Threads
      PROVE  /\ Len(frames'[u]) = Len(frames[u]) /\ InRegion(u)' = InRegion(u)
             /\ \A k \in 1 .. Len(frames[u]) : frames'[u][k].region = frames[u][k].region
  BY <1>1 DEF InRegion, Region, Frame
<1>3. NestInv'
  <2> SUFFICES ASSUME NEW u \in Threads, NEW k \in 1 .. Len(frames[u])
               PROVE  NestOK(u, k)'
    BY <1>2 DEF NestInv
  <2>1. /\ frames'[u][k].region = frames[u][k].region
        /\ \A j \in 1 .. k - 1 : frames'[u][j].region = frames[u][j].region
        /\ k > 1 => k - 1 \in 1 .. k - 1
    <3>1. Len(frames[u]) \in Nat
      BY FrameTypes DEF CoreInv
    <3>2. k \in Nat /\ \A j \in 1 .. k - 1 : j \in 1 .. Len(frames[u])
      BY <3>1
    <3>3. k > 1 => k - 1 \in 1 .. k - 1
      BY <3>2
    <3> QED BY <1>2, <3>2, <3>3
  <2>2. NestOK(u, k)
    BY DEF CoreInv, NestInv
  <2> QED BY <2>1, <2>2 DEF NestOK
<1> QED BY <1>2, <1>3

(* What a step of t does to its innermost frame leaves the other frames.   *)
LEMMA FramesKept ==
  ASSUME CoreInv, NEW t \in Threads, InRegion(t), NEW g \in Frames, SetTop(t, g),
         g.region = Region(t), UNCHANGED <<regions, arrived>>,
         FrameOK(t, Len(frames[t]))' 
  PROVE  FramesInv'
<1>1. /\ \A u \in Threads : Len(frames'[u]) = Len(frames[u])
      /\ \A k \in 1 .. Len(frames[t]) : k # Len(frames[t]) => frames'[t][k] = frames[t][k]
      /\ \A u \in Threads : u # t => frames'[u] = frames[u]
  BY TopSet, NestKept DEF CoreInv
<1>2. \A r : Closed(r)' = Closed(r)
  BY DEF Closed
<1>3. ASSUME NEW u \in Threads, NEW k \in 1 .. Len(frames[u]), FrameOK(u, k),
             frames'[u][k] = frames[u][k]
      PROVE  FrameOK(u, k)'
  <2>1. PICK r : r = frames[u][k].region
    OBVIOUS
  <2>2. r \in 1 .. Len(regions) /\ (regions[r].master = u => ~regions[r].ended)
    BY <1>3, <2>1 DEF FrameOK
  <2> QED BY <1>1, <1>2, <1>3, <2>1, <2>2, FrameKept
<1>4. ASSUME NEW u \in Threads, NEW k \in 1 .. Len(frames[u])
      PROVE  FrameOK(u, k)'
  <2>1. FrameOK(u, k)
    BY DEF CoreInv, FramesInv
  <2>2. CASE u = t /\ k = Len(frames[t])
    BY <1>1, <2>2
  <2>3. CASE ~(u = t /\ k = Len(frames[t]))
    BY <1>1, <1>3, <2>1, <2>3
  <2> QED BY <2>2, <2>3
<1> QED BY <1>1, <1>4 DEF FramesInv

-----------------------------------------------------------------------------
(* What a step of thread t leaves alone of another thread.                 *)
LEMMA OtherThread ==
  ASSUME CoreInv, NEW u \in Threads, frames'[u] = frames[u], late'[u] = late[u],
         status'[u] = status[u],
         InRegion(u) => regions'[Region(u)].level = regions[Region(u)].level
  PROVE  LateOK(u)' /\ StatusOK(u)'
<1>1. LateOK(u) /\ StatusOK(u)
  BY DEF CoreInv, LateInv, StatusInv
<1> QED BY <1>1 DEF LateOK, StatusOK, At, InRegion, Region, Frame

(* Objects that are new are of other threads or of regions.                *)
LEMMA OtherFreed ==
  ASSUME CoreInv, NEW u \in Threads, frames'[u] = frames[u],
         \A q \in LivePtrs' : q \in LivePtrs \/ q.owner # u
  PROVE  FreedOK(u)'
<1>1. FreedOK(u)
  BY DEF CoreInv, FreedInv
<1>2. At(u, "ended")' = At(u, "ended") /\ Frame(u)' = Frame(u)
  BY DEF At, InRegion, Frame
<1>3. At(u, "ended") => Frame(u).ptr.owner = u
  <2> SUFFICES ASSUME At(u, "ended") PROVE Frame(u).ptr.owner = u
    OBVIOUS
  <2>1. Types /\ InRegion(u) /\ Frame(u).at = "ended"
    BY DEF CoreInv, At
  <2>2. Len(frames[u]) \in 1 .. Len(frames[u]) /\ Frame(u) = frames[u][Len(frames[u])]
    BY <2>1, TopFrame
  <2>3. FrameOK(u, Len(frames[u]))
    BY <2>2 DEF CoreInv, FramesInv
  <2> QED BY <2>1, <2>2, <2>3 DEF FrameOK, TaskPtr
<1> QED BY <1>1, <1>2, <1>3 DEF FreedOK

(* The task gets its object, and the counter the level of the region.      *)
LEMMA ImplicitTaskBeginStep ==
  ASSUME CoreInv, NEW t \in Threads, ImplicitTaskBegin(t), UNCHANGED program
  PROVE  CoreInv'
<1>n. PICK n : n = Len(frames[t])
  OBVIOUS
<1>r. PICK r : r = Region(t)
  OBVIOUS
<1>p. PICK ptr : ptr = TaskPtr(r, t)
  OBVIOUS
<1>g. PICK g : g = [Frame(t) EXCEPT !.at = "user", !.ptr = ptr]
  OBVIOUS
<1>d. PICK data : data = Deref(ParallelPtr(r))
  OBVIOUS
<1>e. PICK new : new = [data EXCEPT !.ptr = ptr]
  OBVIOUS
<1>1. /\ At(t, "begun") /\ InRegion(t) /\ late[t] = {}
      /\ frames' = [frames EXCEPT ![t][n].at = "user", ![t][n].ptr = ptr]
      /\ heap' = heap \cup {new} /\ status' = [status EXCEPT ![t] = data.level]
      /\ UNCHANGED <<regions, arrived, late>>
  BY <1>n, <1>r, <1>p, <1>d, <1>e DEF ImplicitTaskBegin, At
<1>2. Types
  BY DEF CoreInv
<1>3. n \in 1 .. n /\ n \in Nat /\ Frame(t) = frames[t][n] /\ Frame(t) \in Frames
      /\ Frame(t).at = "begun" /\ r = frames[t][n].region
  BY <1>n, <1>r, <1>1, <1>2, TopFrame, FrameTypes DEF At, Region
<1>4. SetTop(t, g)
  BY <1>n, <1>g, <1>1, <1>2, <1>3 DEF SetTop, Types
<1>5. FrameOK(t, n)
  BY <1>n, <1>3 DEF CoreInv, FramesInv
<1>6. r \in 1 .. Len(regions) /\ r \in Nat /\ t \in Nat /\ t # -1
  BY <1>2, <1>3, <1>5, RegionTypes, ThreadsAssumption DEF FrameOK
<1>7. ptr \in Ptrs /\ ptr.region = r /\ ptr.owner = t
  BY <1>p, <1>6 DEF Ptrs, TaskPtr
<1>8. g \in Frames /\ g.region = Region(t) /\ g.at = "user" /\ g.ptr = ptr
      /\ g.phase = Frame(t).phase
  BY <1>r, <1>g, <1>3, <1>7 DEF Frames, Region
<1>9. /\ frames' \in [Threads -> Seq(Frames)]
      /\ Len(frames'[t]) = n /\ frames'[t] # << >> /\ frames'[t][n] = g
      /\ \A k \in 1 .. n : k # n => frames'[t][k] = frames[t][k]
      /\ \A u \in Threads : u # t => frames'[u] = frames[u]
  <2>1. g \in Frames /\ InRegion(t) /\ SetTop(t, g) /\ Types
    BY <1>1, <1>2, <1>4, <1>8
  <2>2. /\ frames' \in [Threads -> Seq(Frames)]
        /\ Len(frames'[t]) = Len(frames[t]) /\ frames'[t] # << >>
        /\ frames'[t][Len(frames[t])] = g
        /\ \A k \in 1 .. Len(frames[t]) : k # Len(frames[t]) => frames'[t][k] = frames[t][k]
        /\ \A u \in Threads : u # t => frames'[u] = frames[u]
    BY <2>1, TopSet
  <2> QED BY <1>n, <2>2
<1>10. ParallelPtr(r) \in LivePtrs /\ ~regions[r].ended
  <2>1. arrived[r][t] = 0 /\ t \in regions[r].team
    BY <1>3, <1>5 DEF FrameOK, ArrivedOf
  <2>2. ~Closed(r)
    BY <1>2, <1>6, <2>1, RegionTypes DEF Closed
  <2> QED BY <1>6, <2>2 DEF CoreInv, RegionsInv, HeapInv
<1>11. data = ObjectOf(ParallelPtr(r)) /\ data.level = regions[r].level
  BY <1>d, <1>10, DerefLive DEF CoreInv, ObjectOf, ParallelPtr
<1>12. new = ObjectOf(ptr)
  BY <1>e, <1>7, <1>11 DEF ObjectOf, ParallelPtr
<1>13. Types'
  <2>1. status' \in [Threads -> Int]
    BY <1>1, <1>2, <1>6, <1>11, RegionTypes DEF Types
  <2> QED BY <1>1, <1>2, <1>9, <2>1 DEF Types
<1>14. FramesInv'
  <2>1. FrameOK(t, n)'
    <3>1. ArrivedOf(g, t)'
      BY <1>1, <1>3, <1>5, <1>8 DEF FrameOK, ArrivedOf, Frames, Region
    <3>2. /\ t \in regions[r].team /\ g.phase <= regions[r].barriers
          /\ regions[r].master = t => ~regions[r].ended
          /\ t = 0 => regions[r].master = t
      BY <1>3, <1>5, <1>8 DEF FrameOK
    <3>3. g.region = r /\ g.ptr = TaskPtr(r, t)
      BY <1>p, <1>r, <1>3, <1>8
    <3>4. ~(n < Len(frames'[t]))
      BY <1>9
    <3> QED BY <1>1, <1>6, <1>8, <1>9, <3>1, <3>2, <3>3, <3>4, FrameSet
  <2>2. FrameOK(t, Len(frames[t]))'
    BY <1>9, <2>1
  <2> QED BY <1>1, <1>4, <1>8, <2>2, FramesKept
<1>15. NestInv'
  BY <1>1, <1>4, <1>8, NestKept
<1>16. RegionsInv'
  BY <1>1 DEF CoreInv, RegionsInv, Closed
<1>17. LateInv' /\ StatusInv'
  <2>1. ASSUME NEW u \in Threads, u # t PROVE LateOK(u)' /\ StatusOK(u)'
    BY <1>1, <1>2, <1>9, <2>1, OtherThread DEF Types
  <2>2. LateOK(t)'
    BY <1>1 DEF LateOK
  <2>3. StatusOK(t)'
    <3>1. Frame(t)' = g /\ InRegion(t)' /\ Region(t)' = r
      BY <1>r, <1>8, <1>9 DEF Frame, InRegion, Region
    <3>2. status'[t] = regions[r].level
      BY <1>1, <1>2, <1>11 DEF Types
    <3> QED BY <1>1, <1>8, <3>1, <3>2 DEF StatusOK, At
  <2> QED BY <2>1, <2>2, <2>3 DEF LateInv, StatusInv
<1>18. LivePtrs' = LivePtrs \cup {ptr}
  <2>1. new.ptr = ptr
    BY <1>12 DEF ObjectOf
  <2> QED BY <1>1, <2>1 DEF LivePtrs
<1>19. HeapInv'
  <2>1. \A p : ObjectOf(p)' = ObjectOf(p)
    BY <1>1 DEF ObjectOf
  <2>2. new.ptr = ptr
    BY <1>12 DEF ObjectOf
  <2>3. \A d \in heap' : /\ d.ptr \in Ptrs /\ d.ptr.region \in 1 .. Len(regions)
                         /\ d = ObjectOf(d.ptr)
    BY <1>1, <1>6, <1>7, <1>12, <2>2 DEF CoreInv, HeapInv
  <2> QED BY <1>1, <1>18, <2>1, <2>3 DEF CoreInv, HeapInv, ParallelPtr
<1>20. NoDangling'
  <2>1. ASSUME NEW u \in Threads PROVE DanglingOK(u)'
    <3>0. DanglingOK(u)
      BY DanglingByThread DEF CoreInv
    <3>1. CASE u # t
      BY <1>1, <1>9, <1>18, <3>0, <3>1
         DEF DanglingOK, At, InRegion, Frame, Region, ParallelPtr
    <3>2. CASE u = t
      <4>1. ~At(u, "ended")'
        BY <1>8, <1>9, <3>2 DEF At, Frame
      <4>2. \A k \in 1 .. n : frames'[u][k].at # "ended" => frames'[u][k].ptr \in LivePtrs'
        BY <1>n, <1>8, <1>9, <1>18, <3>0, <3>2 DEF DanglingOK
      <4> QED BY <1>1, <1>9, <1>18, <3>0, <3>2, <4>1, <4>2 DEF DanglingOK
    <3> QED BY <3>1, <3>2
  <2> QED BY <2>1 DEF NoDangling, DanglingOK, Live, LivePtrs
<1>21. NoLeak'
  <2> SUFFICES ASSUME NEW d \in heap'
               PROVE  \/ d.ptr.owner = -1 /\ ~regions[d.ptr.region].ended
                      \/ d.ptr.owner \in Threads
                           /\ \/ d.ptr \in late[d.ptr.owner]
                              \/ \E k \in 1 .. Len(frames'[d.ptr.owner]) :
                                   frames'[d.ptr.owner][k].ptr = d.ptr
    BY <1>1 DEF NoLeak
  <2>1. CASE d = new
    <3>1. d.ptr = ptr
      BY <1>12, <2>1 DEF ObjectOf
    <3> QED BY <1>3, <1>7, <1>8, <1>9, <3>1
  <2>2. CASE d \in heap
    <3>1. \/ d.ptr.owner = -1 /\ ~regions[d.ptr.region].ended
          \/ d.ptr.owner \in Threads
               /\ \/ d.ptr \in late[d.ptr.owner]
                  \/ \E k \in 1 .. Len(frames[d.ptr.owner]) :
                       frames[d.ptr.owner][k].ptr = d.ptr
      BY <2>2 DEF CoreInv, NoLeak
    <3>2. frames[t][n].ptr.owner = -1
      BY <1>3, <1>5 DEF FrameOK, ParallelPtr
    <3>3. CASE d.ptr.owner = t
      BY <1>n, <1>6, <1>9, <3>1, <3>2, <3>3
    <3>4. CASE d.ptr.owner # t
      BY <1>9, <3>1, <3>4
    <3> QED BY <3>3, <3>4
  <2> QED BY <1>1, <2>1, <2>2
<1>22. FreedInv'
  <2>1. ASSUME NEW u \in Threads, u # t PROVE FreedOK(u)'
    BY <1>7, <1>9, <1>18, <2>1, OtherFreed
  <2>2. FreedOK(t)'
    BY <1>8, <1>9 DEF FreedOK, At, Frame
  <2> QED BY <2>1, <2>2 DEF FreedInv
<1> QED BY <1>13, <1>14, <1>15, <1>16, <1>17, <1>19, <1>20, <1>21, <1>22 DEF CoreInv

(* A thread with a task moves on in its region: neither the objects nor    *)
(* the counter change.                                                     *)
LEMMA MoveOn ==
  ASSUME CoreInv, NEW t \in Threads, InRegion(t), NEW g \in Frames, SetTop(t, g),
         Frame(t).at \in {"user", "barrier"}, g.at \in {"user", "barrier", "joined"},
         g.region = Region(t), g.ptr = Frame(t).ptr,
         UNCHANGED <<regions, late, status, heap>>
  PROVE  /\ frames' \in [Threads -> Seq(Frames)]
         /\ NestInv' /\ LateInv' /\ StatusInv' /\ HeapInv' /\ FreedInv' /\ NoDangling'
         /\ NoLeak'
<1>n. PICK n : n = Len(frames[t])
  OBVIOUS
<1>1. Types
  BY DEF CoreInv
<1>2. n \in 1 .. n /\ n \in Nat /\ Frame(t) = frames[t][n]
  BY <1>n, <1>1, TopFrame, FrameTypes
<1>3. /\ frames' \in [Threads -> Seq(Frames)]
      /\ Len(frames'[t]) = Len(frames[t]) /\ frames'[t] # << >>
      /\ frames'[t][Len(frames[t])] = g
      /\ \A k \in 1 .. Len(frames[t]) : k # Len(frames[t]) => frames'[t][k] = frames[t][k]
      /\ \A u \in Threads : u # t => frames'[u] = frames[u]
  BY <1>1, TopSet
<1>4. /\ Len(frames'[t]) = n /\ frames'[t][n] = g
      /\ \A k \in 1 .. n : k # n => frames'[t][k] = frames[t][k]
  BY <1>n, <1>3
<1>5. NestInv'
  BY NestKept
<1>6. ASSUME NEW u \in Threads, u # t PROVE LateOK(u)' /\ StatusOK(u)'
  BY <1>3, <1>6, OtherThread
<1>7. LateOK(t)'
  <2>1. LateOK(t)
    BY DEF CoreInv, LateInv
  <2>2. late[t] = {}
    BY <1>n, <1>2, <2>1 DEF LateOK
  <2> QED BY <2>2 DEF LateOK
<1>8. StatusOK(t)'
  <2>1. StatusOK(t)
    BY DEF CoreInv, StatusInv
  <2>2. Frame(t)' = g /\ InRegion(t)' /\ Region(t)' = Region(t)
    BY <1>3 DEF Frame, InRegion, Region
  <2> QED BY <2>1, <2>2 DEF StatusOK, At
<1>9. HeapInv'
  BY DEF CoreInv, HeapInv, ObjectOf, LivePtrs, ParallelPtr
<1>10. NoDangling'
  <2>1. ASSUME NEW u \in Threads PROVE DanglingOK(u)'
    <3>0. DanglingOK(u) /\ LivePtrs' = LivePtrs
      BY DanglingByThread DEF CoreInv, LivePtrs
    <3>1. CASE u # t
      BY <1>3, <3>0, <3>1 DEF DanglingOK, At, InRegion, Frame, Region, ParallelPtr
    <3>2. CASE u = t
      <4>1. ~At(u, "ended")'
        BY <1>3, <3>2 DEF At, Frame
      <4>2. \A k \in 1 .. n : frames'[u][k].at # "ended" => frames'[u][k].ptr \in LivePtrs
        BY <1>n, <1>2, <1>4, <3>0, <3>2 DEF DanglingOK
      <4> QED BY <1>4, <3>0, <3>2, <4>1, <4>2 DEF DanglingOK
    <3> QED BY <3>1, <3>2
  <2> QED BY <2>1 DEF NoDangling, DanglingOK, Live, LivePtrs
<1>11. NoLeak'
  <2>1. \A u \in Threads : /\ Len(frames'[u]) = Len(frames[u])
                           /\ \A k \in 1 .. Len(frames[u]) :
                                frames'[u][k].ptr = frames[u][k].ptr
    BY <1>n, <1>2, <1>3
  <2> QED BY <2>1 DEF CoreInv, NoLeak
<1>12. FreedInv'
  <2>1. ASSUME NEW u \in Threads, u # t PROVE FreedOK(u)'
    BY <1>3, <2>1, OtherFreed DEF LivePtrs
  <2>2. FreedOK(t)'
    BY <1>3 DEF FreedOK, At, Frame
  <2> QED BY <2>1, <2>2 DEF FreedInv
<1> QED BY <1>3, <1>5, <1>6, <1>7, <1>8, <1>9, <1>10, <1>11, <1>12 DEF LateInv, StatusInv

LEMMA ArriveAtBarrierStep ==
  ASSUME CoreInv, NEW t \in Threads, ArriveAtBarrier(t), UNCHANGED program
  PROVE  CoreInv'
<1>n. PICK n : n = Len(frames[t])
  OBVIOUS
<1>r. PICK r : r = Region(t)
  OBVIOUS
<1>g. PICK g : g = [Frame(t) EXCEPT !.at = "barrier"]
  OBVIOUS
<1>1. /\ InRegion(t) /\ Frame(t).at = "user" /\ MoveTo(t, "barrier")
      /\ arrived' = [arrived EXCEPT ![r][t] = @ + 1]
      /\ UNCHANGED <<regions, late, status, heap>>
  BY <1>r DEF ArriveAtBarrier, At
<1>2. Types
  BY DEF CoreInv
<1>3. /\ n \in 1 .. n /\ n \in Nat /\ Frame(t) = frames[t][n] /\ Frame(t) \in Frames
      /\ r = frames[t][n].region
  BY <1>n, <1>r, <1>1, <1>2, TopFrame, FrameTypes DEF Region
<1>4. SetTop(t, g)
  BY <1>g, <1>1, <1>2, MoveIsSetTop
<1>5. /\ g \in Frames /\ g.at = "barrier" /\ g.region = Region(t) /\ g.region = r
      /\ g.ptr = Frame(t).ptr /\ g.phase = Frame(t).phase /\ g.phase \in Nat
  BY <1>g, <1>r, <1>3 DEF Frames, Region
<1>6. /\ frames' \in [Threads -> Seq(Frames)]
      /\ NestInv' /\ LateInv' /\ StatusInv' /\ HeapInv' /\ FreedInv' /\ NoDangling'
      /\ NoLeak'
  BY <1>1, <1>4, <1>5, MoveOn
<1>7. /\ Len(frames'[t]) = n /\ frames'[t][n] = g
      /\ \A k \in 1 .. n : k # n => frames'[t][k] = frames[t][k]
      /\ \A u \in Threads : u # t => frames'[u] = frames[u]
  <2>1. /\ Len(frames'[t]) = Len(frames[t]) /\ frames'[t][Len(frames[t])] = g
        /\ \A k \in 1 .. Len(frames[t]) : k # Len(frames[t]) => frames'[t][k] = frames[t][k]
        /\ \A u \in Threads : u # t => frames'[u] = frames[u]
    BY <1>1, <1>2, <1>4, <1>5, TopSet
  <2> QED BY <1>n, <2>1
<1>8. FrameOK(t, n)
  BY <1>n, <1>3 DEF CoreInv, FramesInv
<1>9. r \in 1 .. Len(regions) /\ r \in 1 .. program.regions
  BY <1>2, <1>3, <1>8, RegionTypes DEF FrameOK
<1>10. /\ arrived' \in [1 .. program.regions -> [Threads -> Nat]]
       /\ arrived'[r][t] = arrived[r][t] + 1
       /\ \A q \in 1 .. program.regions, u \in Threads :
            /\ arrived[q][u] \in Nat /\ arrived'[q][u] \in Nat
            /\ arrived'[q][u] >= arrived[q][u]
            /\ q # r \/ u # t => arrived'[q][u] = arrived[q][u]
  <2>1. arrived \in [1 .. program.regions -> [Threads -> Nat]]
    BY <1>2 DEF Types
  <2>2. arrived[r] \in [Threads -> Nat] /\ arrived[r][t] + 1 \in Nat
    BY <1>9, <2>1
  <2>3. /\ arrived' = [arrived EXCEPT ![r] = [arrived[r] EXCEPT ![t] = arrived[r][t] + 1]]
        /\ [arrived[r] EXCEPT ![t] = arrived[r][t] + 1] \in [Threads -> Nat]
    BY <1>1, <2>2
  <2>4. arrived' \in [1 .. program.regions -> [Threads -> Nat]]
    BY <2>1, <2>3
  <2>5. ASSUME NEW q \in 1 .. program.regions, NEW u \in Threads
        PROVE  /\ arrived[q][u] \in Nat /\ arrived'[q][u] \in Nat
               /\ arrived'[q][u] = IF q = r /\ u = t THEN arrived[q][u] + 1
                                   ELSE arrived[q][u]
    BY <1>9, <2>1, <2>2, <2>3, <2>4
  <2> QED BY <1>9, <2>4, <2>5
<1>11. \A q \in 1 .. Len(regions) : Closed(q) => Closed(q)'
  <2> SUFFICES ASSUME NEW q \in 1 .. Len(regions), NEW u \in regions[q].team,
                      arrived[q][u] > regions[q].barriers
               PROVE  arrived'[q][u] > regions[q].barriers
    BY <1>1 DEF Closed
  <2>1. /\ q \in 1 .. program.regions /\ u \in Threads /\ regions[q].barriers \in Nat
    BY <1>2, RegionTypes
  <2>2. arrived[q][u] \in Nat /\ arrived'[q][u] \in Nat /\ arrived'[q][u] >= arrived[q][u]
    BY <1>10, <2>1
  <2> QED BY <2>1, <2>2
<1>12. FramesInv'
  <2>1. FrameOK(t, n)'
    <3>1. arrived'[r][t] = g.phase + 1
      BY <1>1, <1>3, <1>5, <1>8, <1>10 DEF FrameOK, ArrivedOf
    <3>2. ArrivedOf(g, t)'
      BY <1>5, <3>1 DEF ArrivedOf
    <3> QED BY <1>1, <1>3, <1>5, <1>7, <1>8, <3>2 DEF FrameOK, TaskPtr
  <2>2. ASSUME NEW u \in Threads, NEW k \in 1 .. Len(frames[u]), u # t \/ k # n
        PROVE  FrameOK(u, k)'
    <3>1. FrameOK(u, k)
      BY DEF CoreInv, FramesInv
    <3>2. PICK q : q = frames[u][k].region
      OBVIOUS
    <3>3. q \in 1 .. Len(regions) /\ (regions[q].master = u => ~regions[q].ended)
          /\ q \in 1 .. program.regions
      BY <1>2, <3>1, <3>2, RegionTypes DEF FrameOK
    <3>4. q # r \/ u # t
      <4> SUFFICES ASSUME u = t, k # n PROVE q # r
        BY <2>2
      <4>1. k \in 1 .. n - 1
        BY <1>n, <1>3
      <4>2. NestOK(t, n)
        BY <1>n, <1>3 DEF CoreInv, NestInv
      <4> QED BY <1>3, <3>2, <4>1, <4>2 DEF NestOK
    <3>5. arrived'[q][u] = arrived[q][u]
      BY <1>10, <3>3, <3>4
    <3>6. frames'[u][k] = frames[u][k] /\ Len(frames'[u]) = Len(frames[u])
      BY <1>n, <1>7, <2>2
    <3> QED BY <1>1, <1>11, <3>1, <3>2, <3>3, <3>5, <3>6, FrameKept
  <2>3. \A u \in Threads : Len(frames'[u]) = Len(frames[u])
    BY <1>n, <1>7
  <2> QED BY <1>n, <2>1, <2>2, <2>3 DEF FramesInv
<1>13. RegionsInv'
  <2>1. \A q \in Len(regions) + 1 .. program.regions : q \in 1 .. program.regions /\ q # r
    BY <1>2, <1>9, RegionTypes
  <2> QED BY <1>1, <1>10, <1>11, <2>1 DEF CoreInv, RegionsInv
<1>14. Types'
  BY <1>1, <1>2, <1>6, <1>10 DEF Types
<1> QED BY <1>6, <1>12, <1>13, <1>14 DEF CoreInv

(* A step that touches neither regions nor frames.                         *)
LEMMA FramesUnchanged ==
  ASSUME CoreInv, UNCHANGED <<regions, frames, arrived>>
  PROVE  FramesInv' /\ NestInv'
<1>1. ASSUME NEW t \in Threads, NEW k \in 1 .. Len(frames[t]) PROVE FrameOK(t, k)'
  <2>1. FrameOK(t, k)
    BY DEF CoreInv, FramesInv
  <2>2. ArrivedOf(frames[t][k], t)' <=> ArrivedOf(frames[t][k], t)
    BY DEF ArrivedOf
  <2>3. Closed(frames[t][k].region)' <=> Closed(frames[t][k].region)
    BY DEF Closed
  <2> QED BY <2>1, <2>2, <2>3, FrameSet DEF FrameOK
<1>2. ASSUME NEW t \in Threads, NEW k \in 1 .. Len(frames[t]) PROVE NestOK(t, k)'
  <2>1. NestOK(t, k)
    BY DEF CoreInv, NestInv
  <2> QED BY <2>1 DEF NestOK
<1>3. FramesInv'
  BY <1>1 DEF FramesInv
<1> QED BY <1>2, <1>3 DEF NestInv

(* A step that touches neither regions, tasks, the counter nor objects.    *)
LEMMA CoreUnchanged ==
  ASSUME CoreInv, UNCHANGED <<program, regions, frames, arrived, late, status, heap>>
  PROVE  CoreInv'
<1>1. Types' /\ RegionsInv' /\ LateInv' /\ StatusInv'
  <2>1. Types'
    BY DEF CoreInv, Types
  <2>2. RegionsInv'
    BY DEF CoreInv, RegionsInv, Closed
  <2>3. LateInv'
    BY DEF CoreInv, LateInv, LateOK
  <2>4. StatusInv'
    BY DEF CoreInv, StatusInv, StatusOK, At, InRegion, Region, Frame
  <2> QED BY <2>1, <2>2, <2>3, <2>4
<1>2. FramesInv' /\ NestInv'
  BY FramesUnchanged
<1>3. HeapInv' /\ FreedInv' /\ NoDangling' /\ NoLeak'
  BY DEF CoreInv, FreedInv, FreedOK, HeapInv, ObjectOf, LivePtrs, ParallelPtr, NoDangling, NoLeak, Live, At,
         InRegion, Region, Frame
<1> QED BY <1>1, <1>2, <1>3 DEF CoreInv

(* The index before one that is not the first.                             *)
LEMMA OneLess ==
  \A n \in Nat : \A k \in 1 .. n : k > 1 => k - 1 \in 1 .. k - 1 /\ k - 1 \in 1 .. n
OBVIOUS

(* Leaving the innermost region keeps what is known of the other frames.   *)
LEMMA FramesLeft ==
  ASSUME CoreInv, NEW t \in Threads, InRegion(t), LeaveRegion(t), UNCHANGED arrived,
         Len(regions') = Len(regions),
         \A q \in 1 .. Len(regions) :
           /\ regions'[q].team = regions[q].team /\ regions'[q].master = regions[q].master
           /\ regions'[q].barriers = regions[q].barriers
           /\ regions'[q].level = regions[q].level
           /\ \/ regions'[q].ended = regions[q].ended
              \/ q = Region(t) /\ regions[q].master = t
  PROVE  FramesInv' /\ NestInv'
<1>n. PICK n : n = Len(frames[t])
  OBVIOUS
<1>1. Types
  BY DEF CoreInv
<1>2. n \in 1 .. n /\ n \in Nat /\ n >= 1 /\ Region(t) = frames[t][n].region
  BY <1>n, <1>1, TopFrame, FrameTypes DEF Region
<1>3. /\ Len(frames'[t]) = n - 1
      /\ \A k \in 1 .. n - 1 : frames'[t][k] = frames[t][k]
      /\ \A u \in Threads : u # t => frames'[u] = frames[u]
  <2>1. /\ Len(frames'[t]) = Len(frames[t]) - 1
        /\ \A k \in 1 .. Len(frames[t]) - 1 : frames'[t][k] = frames[t][k]
        /\ \A u \in Threads : u # t => frames'[u] = frames[u]
    BY <1>1, TopLeft
  <2> QED BY <1>n, <2>1
<1>4. ASSUME NEW u \in Threads, NEW k \in 1 .. Len(frames'[u])
      PROVE  /\ k \in 1 .. Len(frames[u]) /\ frames'[u][k] = frames[u][k]
             /\ \A j \in 1 .. k - 1 : frames'[u][j] = frames[u][j]
             /\ u = t => k < n
             /\ k < Len(frames'[u]) => k < Len(frames[u])
  <2>1. CASE u = t
    <3>1. k \in 1 .. n - 1
      BY <1>3, <2>1
    <3>2. \A j \in 1 .. k - 1 : j \in 1 .. n - 1
      BY <1>2, <3>1
    <3> QED BY <1>n, <1>2, <1>3, <2>1, <3>1, <3>2
  <2>2. CASE u # t
    BY <1>3, <2>2
  <2> QED BY <2>1, <2>2
<1>5. \A q \in 1 .. Len(regions) : Closed(q) => Closed(q)'
  BY DEF Closed
<1>6. ASSUME NEW u \in Threads, NEW k \in 1 .. Len(frames'[u])
      PROVE  FrameOK(u, k)' /\ NestOK(u, k)'
  <2>1. FrameOK(u, k) /\ NestOK(u, k)
    BY <1>4 DEF CoreInv, FramesInv, NestInv
  <2>2. PICK q : q = frames[u][k].region
    OBVIOUS
  <2>3. q \in 1 .. Len(regions) /\ (regions[q].master = u => ~regions[q].ended)
    BY <2>1, <2>2 DEF FrameOK
  <2>4. u = t => q # Region(t)
    <3> SUFFICES ASSUME u = t PROVE frames[t][k].region # frames[t][n].region
      BY <1>2, <2>2
    <3>1. k \in 1 .. n - 1 /\ NestOK(t, n)
      BY <1>n, <1>2, <1>4 DEF CoreInv, NestInv
    <3> QED BY <3>1 DEF NestOK
  <2>5. regions[q].master = u => ~regions'[q].ended
    BY <2>3, <2>4
  <2>6. FrameOK(u, k)'
    BY <1>4, <1>5, <2>1, <2>2, <2>3, <2>5, FrameKept
  <2>7. NestOK(u, k)'
    <3>1. CASE k > 1
      <4>1. k - 1 \in 1 .. k - 1 /\ k - 1 \in 1 .. Len(frames[u])
        <5>1. k \in 1 .. Len(frames[u]) /\ Len(frames[u]) \in Nat
          BY <1>1, <1>4, FrameTypes
        <5> QED BY <3>1, <5>1, OneLess
      <4>2. FrameOK(u, k - 1)
        BY <4>1 DEF CoreInv, FramesInv
      <4>3. frames[u][k - 1].region \in 1 .. Len(regions)
        BY <4>2 DEF FrameOK
      <4>4. /\ regions[q].master = u
            /\ regions[q].level = regions[frames[u][k - 1].region].level + 1
            /\ \A j \in 1 .. k - 1 : frames[u][j].region # q
        BY <2>1, <2>2, <3>1 DEF NestOK
      <4>5. frames'[u][k] = frames[u][k] /\ \A j \in 1 .. k - 1 : frames'[u][j] = frames[u][j]
        BY <1>4
      <4>6. /\ regions'[q].master = regions[q].master
            /\ regions'[q].level = regions[q].level
            /\ regions'[frames[u][k - 1].region].level = regions[frames[u][k - 1].region].level
        BY <2>3, <4>3
      <4>7. frames'[u][k - 1] = frames[u][k - 1] /\ frames'[u][k].region = q
        BY <2>2, <4>1, <4>5
      <4>8. k # 1
        BY <3>1
      <4>9. regions'[q].level = regions'[frames'[u][k - 1].region].level + 1
        BY <4>4, <4>6, <4>7
      <4>10. regions'[q].master = u /\ \A j \in 1 .. k - 1 : frames'[u][j].region # q
        BY <4>4, <4>5, <4>6
      <4> QED BY <4>7, <4>8, <4>9, <4>10 DEF NestOK
    <3>2. CASE ~(k > 1)
      BY <1>4, <2>1, <2>2, <2>3, <3>2 DEF NestOK
    <3> QED BY <3>1, <3>2
  <2> QED BY <2>6, <2>7
<1> QED BY <1>6 DEF FramesInv, NestInv

(* To the next phase, or to the join of the master.                        *)
LEMMA LeaveBarrierInside ==
  ASSUME CoreInv, NEW t \in Threads, NEW g \in Frames, At(t, "barrier"), AllArrived(t),
         SetTop(t, g), g.region = Region(t), g.ptr = Frame(t).ptr,
         \/ /\ g.at = "user" /\ g.phase = Frame(t).phase + 1
            /\ Frame(t).phase < regions[Region(t)].barriers
         \/ /\ g.at = "joined" /\ g.phase = Frame(t).phase
            /\ ~(Frame(t).phase < regions[Region(t)].barriers)
            /\ t = regions[Region(t)].master,
         UNCHANGED <<program, regions, arrived, late, status, heap>>
  PROVE  CoreInv'
<1>n. PICK n : n = Len(frames[t])
  OBVIOUS
<1>r. PICK r : r = Region(t)
  OBVIOUS
<1>1. InRegion(t) /\ Frame(t).at = "barrier" /\ Types
  BY DEF At, CoreInv
<1>2. /\ n \in 1 .. n /\ n \in Nat /\ Frame(t) = frames[t][n] /\ Frame(t).phase \in Nat
      /\ r = frames[t][n].region
  BY <1>n, <1>r, <1>1, TopFrame, FrameTypes DEF Region
<1>3. /\ frames' \in [Threads -> Seq(Frames)]
      /\ NestInv' /\ LateInv' /\ StatusInv' /\ HeapInv' /\ FreedInv' /\ NoDangling'
      /\ NoLeak'
  BY <1>1, MoveOn
<1>4. Len(frames'[t]) = n /\ frames'[t][n] = g
  <2>1. Len(frames'[t]) = Len(frames[t]) /\ frames'[t][Len(frames[t])] = g
    BY <1>1, TopSet
  <2> QED BY <1>n, <2>1
<1>5. FrameOK(t, n)
  BY <1>n, <1>2 DEF CoreInv, FramesInv
<1>6. r \in 1 .. Len(regions) /\ regions[r].barriers \in Nat
  BY <1>1, <1>2, <1>5, RegionTypes DEF FrameOK
<1>7. arrived[r][t] = Frame(t).phase + 1 /\ Frame(t).phase <= regions[r].barriers
  BY <1>1, <1>2, <1>5 DEF FrameOK, ArrivedOf
<1>8. FrameOK(t, n)'
  <2>1. ArrivedOf(g, t)'
    BY <1>r, <1>7 DEF ArrivedOf
  <2>2. g.phase <= regions[r].barriers
    BY <1>r, <1>2, <1>6, <1>7
  <2>3. g.at = "joined" => Closed(r)
    BY <1>r, <1>2, <1>6, <1>7 DEF Closed, AllArrived
  <2>4. g.at = "joined" => regions[r].master = t
    BY <1>r
  <2>5. g.ptr = TaskPtr(r, t)
    BY <1>1, <1>2, <1>5 DEF FrameOK
  <2>6. t \in regions[r].team /\ (regions[r].master = t => ~regions[r].ended)
        /\ (t = 0 => regions[r].master = t)
    BY <1>2, <1>5 DEF FrameOK
  <2>7. Closed(r)' <=> Closed(r)
    BY DEF Closed
  <2>8. g.at \in {"user", "joined"} /\ g.region = r /\ ~(n < Len(frames'[t]))
    BY <1>r, <1>2, <1>4
  <2> QED BY <1>4, <1>6, <2>1, <2>2, <2>3, <2>4, <2>5, <2>6, <2>7, <2>8, FrameSet
<1>9. FramesInv'
  <2>1. FrameOK(t, Len(frames[t]))'
    BY <1>n, <1>4, <1>8
  <2> QED BY <1>1, <2>1, FramesKept
<1>10. Types' /\ RegionsInv'
  BY <1>1, <1>3 DEF CoreInv, Types, RegionsInv, Closed
<1> QED BY <1>3, <1>9, <1>10 DEF CoreInv

(* A worker leaves its region and owes the end of its task.                *)
LEMMA WorkerLeaves ==
  ASSUME CoreInv, NEW t \in Threads, At(t, "barrier"), t # regions[Region(t)].master,
         LeaveRegion(t), late' = [late EXCEPT ![t] = {Frame(t).ptr}],
         UNCHANGED <<program, regions, arrived, status, heap>>
  PROVE  CoreInv'
<1>n. PICK n : n = Len(frames[t])
  OBVIOUS
<1>r. PICK r : r = Region(t)
  OBVIOUS
<1>p. PICK ptr : ptr = Frame(t).ptr
  OBVIOUS
<1>1. InRegion(t) /\ Frame(t).at = "barrier" /\ Types
  BY DEF At, CoreInv
<1>2. /\ n \in 1 .. n /\ n \in Nat /\ Frame(t) = frames[t][n] /\ ptr \in Ptrs
      /\ r = frames[t][n].region /\ ptr = frames[t][n].ptr
  BY <1>n, <1>r, <1>p, <1>1, TopFrame, FrameTypes DEF Region
<1>3. FrameOK(t, n) /\ NestOK(t, n)
  BY <1>n, <1>2 DEF CoreInv, FramesInv, NestInv
<1>4. n = 1 /\ t # 0
  BY <1>r, <1>2, <1>3 DEF FrameOK, NestOK
<1>5. ptr = TaskPtr(r, t)
  BY <1>1, <1>2, <1>3 DEF FrameOK
<1>6. ptr.owner = t /\ t # -1
  BY <1>5, ThreadsAssumption DEF TaskPtr
<1>7. /\ frames' \in [Threads -> Seq(Frames)] /\ Len(frames'[t]) = 0
      /\ \A u \in Threads : u # t => frames'[u] = frames[u]
  <2>1. /\ frames' \in [Threads -> Seq(Frames)] /\ Len(frames'[t]) = Len(frames[t]) - 1
        /\ \A u \in Threads : u # t => frames'[u] = frames[u]
    BY <1>1, TopLeft
  <2>2. Len(frames'[t]) = n - 1
    BY <1>n, <2>1
  <2>3. Len(frames'[t]) = 0
    BY <1>4, <2>2
  <2> QED BY <2>1, <2>3
<1>8. ~InRegion(t)'
  <2>1. frames'[t] \in Seq(Frames) /\ Len(frames'[t]) = 0
    BY <1>7
  <2> QED BY <2>1, EmptySeq DEF InRegion
<1>9. late' \in [Threads -> SUBSET Ptrs] /\ late'[t] = {ptr}
      /\ \A u \in Threads : u # t => late'[u] = late[u]
  BY <1>p, <1>1, <1>2 DEF Types
<1>10. FramesInv' /\ NestInv'
  BY <1>1, FramesLeft
<1>11. Types' /\ RegionsInv'
  <2>1. Types'
    BY <1>1, <1>7, <1>9 DEF Types
  <2>2. RegionsInv'
    BY DEF CoreInv, RegionsInv, Closed
  <2> QED BY <2>1, <2>2
<1>12. LateInv' /\ StatusInv'
  <2>1. ASSUME NEW u \in Threads, u # t PROVE LateOK(u)' /\ StatusOK(u)'
    BY <1>7, <1>9, <2>1, OtherThread
  <2>2. LateOK(t)'
    <3>1. Len(frames'[t]) <= 1 /\ \A k \in 1 .. Len(frames'[t]) : FALSE
      BY <1>7
    <3> QED BY <1>4, <1>6, <1>9, <3>1 DEF LateOK
  <2>3. StatusOK(t)'
    BY <1>4, <1>8 DEF StatusOK, At
  <2> QED BY <2>1, <2>2, <2>3 DEF LateInv, StatusInv
<1>13. HeapInv'
  BY DEF CoreInv, HeapInv, ObjectOf, LivePtrs, ParallelPtr
<1>14. NoDangling'
  <2>1. ASSUME NEW u \in Threads PROVE DanglingOK(u)'
    <3>0. DanglingOK(u) /\ DanglingOK(t) /\ LivePtrs' = LivePtrs
      BY DanglingByThread DEF CoreInv, LivePtrs
    <3>1. CASE u # t
      BY <1>7, <1>9, <3>0, <3>1 DEF DanglingOK, At, InRegion, Frame, Region, ParallelPtr
    <3>2. CASE u = t
      <4>1. ptr \in LivePtrs
        BY <1>n, <1>1, <1>2, <3>0 DEF DanglingOK
      <4>2. late'[u] \subseteq LivePtrs' /\ ~At(u, "ended")'
        BY <1>8, <1>9, <3>0, <3>2, <4>1 DEF At
      <4>3. \A k \in 1 .. Len(frames'[u]) : FALSE
        BY <1>7, <3>2
      <4> QED BY <4>2, <4>3 DEF DanglingOK
    <3> QED BY <3>1, <3>2
  <2> QED BY <2>1 DEF NoDangling, DanglingOK, Live, LivePtrs
<1>15. NoLeak'
  <2>1. late[t] = {}
    <3>1. LateOK(t)
      BY DEF CoreInv, LateInv
    <3> QED BY <1>n, <1>1, <1>2, <3>1 DEF LateOK
  <2>2. \A k \in 1 .. Len(frames[t]) : frames[t][k].ptr = ptr
    BY <1>n, <1>2, <1>4
  <2> SUFFICES ASSUME NEW d \in heap
               PROVE  \/ d.ptr.owner = -1 /\ ~regions[d.ptr.region].ended
                      \/ d.ptr.owner \in Threads
                           /\ \/ d.ptr \in late'[d.ptr.owner]
                              \/ \E k \in 1 .. Len(frames'[d.ptr.owner]) :
                                   frames'[d.ptr.owner][k].ptr = d.ptr
    BY DEF NoLeak
  <2>3. \/ d.ptr.owner = -1 /\ ~regions[d.ptr.region].ended
        \/ d.ptr.owner \in Threads
             /\ \/ d.ptr \in late[d.ptr.owner]
                \/ \E k \in 1 .. Len(frames[d.ptr.owner]) :
                     frames[d.ptr.owner][k].ptr = d.ptr
    BY DEF CoreInv, NoLeak
  <2>4. CASE d.ptr.owner = t
    <3>1. d.ptr \in late[t] \/ \E k \in 1 .. Len(frames[t]) : frames[t][k].ptr = d.ptr
      BY <1>6, <2>3, <2>4
    <3>2. d.ptr = ptr
      BY <2>1, <2>2, <3>1
    <3> QED BY <1>6, <1>9, <3>2
  <2>5. CASE d.ptr.owner # t
    BY <1>7, <1>9, <2>3, <2>5
  <2> QED BY <2>4, <2>5
<1>16. FreedInv'
  <2>1. ASSUME NEW u \in Threads, u # t PROVE FreedOK(u)'
    BY <1>7, <2>1, OtherFreed DEF LivePtrs
  <2>2. FreedOK(t)'
    BY <1>8 DEF FreedOK, At
  <2> QED BY <2>1, <2>2 DEF FreedInv
<1> QED BY <1>10, <1>11, <1>12, <1>13, <1>14, <1>15, <1>16 DEF CoreInv

LEMMA LeaveBarrierStep ==
  ASSUME CoreInv, NEW t \in Threads, LeaveBarrier(t), UNCHANGED program
  PROVE  CoreInv'
<1>1. /\ At(t, "barrier") /\ InRegion(t) /\ AllArrived(t) /\ Types
      /\ UNCHANGED <<regions, arrived, status, heap>>
  BY DEF LeaveBarrier, At, CoreInv
<1>2. Frame(t) \in Frames /\ Len(frames[t]) \in 1 .. Len(frames[t])
      /\ Frame(t) = frames[t][Len(frames[t])]
  BY <1>1, TopFrame
<1>3. CASE Frame(t).phase < regions[Region(t)].barriers
  <2>1. PICK g : g = [Frame(t) EXCEPT !.at = "user", !.phase = @ + 1]
    OBVIOUS
  <2>2. g \in Frames /\ g.region = Region(t) /\ g.ptr = Frame(t).ptr /\ g.at = "user"
        /\ g.phase = Frame(t).phase + 1
    <3>1. PICK f : f = Frame(t)
      OBVIOUS
    <3>2. f \in Frames /\ f.phase \in Nat /\ g = [f EXCEPT !.at = "user", !.phase = f.phase + 1]
      BY <1>2, <2>1, <3>1 DEF Frames
    <3>3. f.phase + 1 \in Nat
      BY <3>2
    <3> QED BY <3>1, <3>2, <3>3 DEF Frames, Region
  <2>3. frames' = [frames EXCEPT ![t][Len(frames[t])].at = "user",
                                 ![t][Len(frames[t])].phase = @ + 1]
        /\ late' = late
    BY <1>3 DEF LeaveBarrier
  <2>4. SetTop(t, g)
    BY <1>1, <1>2, <2>1, <2>3 DEF SetTop, Types
  <2> QED BY <1>1, <1>3, <2>2, <2>3, <2>4, LeaveBarrierInside
<1>4. CASE ~(Frame(t).phase < regions[Region(t)].barriers) /\ t = regions[Region(t)].master
  <2>1. PICK g : g = [Frame(t) EXCEPT !.at = "joined"]
    OBVIOUS
  <2>2. g \in Frames /\ g.region = Region(t) /\ g.ptr = Frame(t).ptr /\ g.at = "joined"
        /\ g.phase = Frame(t).phase
    BY <1>2, <2>1 DEF Frames, Region
  <2>3. MoveTo(t, "joined") /\ late' = late
    BY <1>4 DEF LeaveBarrier
  <2>4. SetTop(t, g)
    BY <1>1, <2>1, <2>3, MoveIsSetTop
  <2> QED BY <1>1, <1>4, <2>2, <2>3, <2>4, LeaveBarrierInside
<1>5. CASE ~(Frame(t).phase < regions[Region(t)].barriers) /\ t # regions[Region(t)].master
  <2>1. LeaveRegion(t) /\ late' = [late EXCEPT ![t] = {Frame(t).ptr}]
    BY <1>5 DEF LeaveBarrier
  <2> QED BY <1>1, <1>5, <2>1, WorkerLeaves
<1> QED BY <1>3, <1>4, <1>5

-----------------------------------------------------------------------------
(* Freeing an object takes away this pointer alone.                        *)
LEMMA Freed ==
  ASSUME NEW p, Free(p)
  PROVE  LivePtrs' = LivePtrs \ {p} /\ heap' \subseteq heap /\ \A d \in heap' : d.ptr # p
  BY DEF Free, LivePtrs

(* The pointers a thread holds are its own or those of regions.            *)
LEMMA Owners ==
  ASSUME CoreInv, NEW u \in Threads
  PROVE  /\ \A p \in late[u] : p.owner = u
         /\ \A k \in 1 .. Len(frames[u]) :
              /\ frames[u][k].ptr.owner \in {u, -1}
              /\ frames[u][k].at = "begun" => frames[u][k].ptr.owner = -1
<1>1. LateOK(u)
  BY DEF CoreInv, LateInv
<1>2. \A k \in 1 .. Len(frames[u]) : FrameOK(u, k)
  BY DEF CoreInv, FramesInv
<1>3. \A p \in late[u] : p.owner = u
  BY <1>1 DEF LateOK
<1>4. ASSUME NEW k \in 1 .. Len(frames[u])
      PROVE  /\ frames[u][k].ptr.owner \in {u, -1}
             /\ frames[u][k].at = "begun" => frames[u][k].ptr.owner = -1
  <2>1. frames[u][k].ptr = IF frames[u][k].at = "begun" THEN ParallelPtr(frames[u][k].region)
                           ELSE TaskPtr(frames[u][k].region, u)
    BY <1>2 DEF FrameOK
  <2> QED BY <2>1 DEF ParallelPtr, TaskPtr
<1> QED BY <1>3, <1>4

(* Freeing the object of a task of t leaves the other threads' pointers.   *)
LEMMA OtherDangling ==
  ASSUME CoreInv, NEW t \in Threads, NEW u \in Threads, u # t, NEW p, p.owner = t, Free(p),
         frames'[u] = frames[u], late'[u] = late[u]
  PROVE  DanglingOK(u)'
<1>1. DanglingOK(u)
  BY DanglingByThread DEF CoreInv
<1>2. t # -1 /\ u # -1
  BY ThreadsAssumption
<1>3. LivePtrs' = LivePtrs \ {p}
  BY Freed
<1>4. late'[u] \subseteq LivePtrs'
  BY <1>1, <1>3, Owners DEF DanglingOK
<1>5. \A k \in 1 .. Len(frames[u]) :
        frames[u][k].at # "ended" => frames[u][k].ptr \in LivePtrs'
  BY <1>1, <1>2, <1>3, Owners DEF DanglingOK
<1>6. At(u, "ended")' => ParallelPtr(Region(u))' \in LivePtrs'
  <2>1. At(u, "ended") => ParallelPtr(Region(u)) \in LivePtrs
    BY <1>1 DEF DanglingOK
  <2>2. ParallelPtr(Region(u)).owner = -1
    BY DEF ParallelPtr
  <2>3. ParallelPtr(Region(u))' = ParallelPtr(Region(u)) /\ At(u, "ended")' = At(u, "ended")
    BY DEF ParallelPtr, Region, Frame, At, InRegion
  <2> QED BY <1>2, <1>3, <2>1, <2>2, <2>3
<1> QED BY <1>4, <1>5, <1>6 DEF DanglingOK

LEMMA TaskFreed ==
  ASSUME CoreInv, NEW t \in Threads, NEW p, p.owner = t, Free(p), UNCHANGED regions
  PROVE  HeapInv'
<1>1. LivePtrs' = LivePtrs \ {p} /\ heap' \subseteq heap
  BY Freed
<1>2. \A r : ParallelPtr(r) # p
  BY ThreadsAssumption DEF ParallelPtr
<1>3. \A q : ObjectOf(q)' = ObjectOf(q)
  BY DEF ObjectOf
<1> QED BY <1>1, <1>2, <1>3 DEF CoreInv, HeapInv, ParallelPtr

LEMMA ImplicitTaskEndMasterStep ==
  ASSUME CoreInv, NEW t \in Threads, ImplicitTaskEndMaster(t), UNCHANGED program
  PROVE  CoreInv'
<1>n. PICK n : n = Len(frames[t])
  OBVIOUS
<1>r. PICK r : r = Region(t)
  OBVIOUS
<1>p. PICK ptr : ptr = Frame(t).ptr
  OBVIOUS
<1>g. PICK g : g = [Frame(t) EXCEPT !.at = "ended"]
  OBVIOUS
<1>1. /\ InRegion(t) /\ Frame(t).at = "joined" /\ MoveTo(t, "ended") /\ Free(ptr)
      /\ status' = [status EXCEPT ![t] = @ - 1]
      /\ UNCHANGED <<regions, arrived, late>> /\ Types
  BY <1>p DEF ImplicitTaskEndMaster, EndTask, At, CoreInv
<1>2. /\ n \in 1 .. n /\ n \in Nat /\ Frame(t) = frames[t][n] /\ Frame(t) \in Frames
      /\ r = frames[t][n].region
  BY <1>n, <1>r, <1>1, TopFrame, FrameTypes DEF Region
<1>3. SetTop(t, g)
  BY <1>g, <1>1, MoveIsSetTop
<1>4. /\ g \in Frames /\ g.at = "ended" /\ g.region = Region(t) /\ g.ptr = ptr
      /\ g.phase = Frame(t).phase
  BY <1>g, <1>p, <1>2 DEF Frames, Region
<1>5. /\ frames' \in [Threads -> Seq(Frames)]
      /\ Len(frames'[t]) = n /\ frames'[t] # << >> /\ frames'[t][n] = g
      /\ \A k \in 1 .. n : k # n => frames'[t][k] = frames[t][k]
      /\ \A u \in Threads : u # t => frames'[u] = frames[u]
  <2>1. /\ frames' \in [Threads -> Seq(Frames)]
        /\ Len(frames'[t]) = Len(frames[t]) /\ frames'[t] # << >>
        /\ frames'[t][Len(frames[t])] = g
        /\ \A k \in 1 .. Len(frames[t]) : k # Len(frames[t]) => frames'[t][k] = frames[t][k]
        /\ \A u \in Threads : u # t => frames'[u] = frames[u]
    BY <1>1, <1>3, <1>4, TopSet
  <2> QED BY <1>n, <2>1
<1>6. FrameOK(t, n) /\ NestOK(t, n)
  BY <1>n, <1>2 DEF CoreInv, FramesInv, NestInv
<1>7. /\ r \in 1 .. Len(regions) /\ ptr = TaskPtr(r, t) /\ regions[r].master = t
      /\ Closed(r) /\ ~regions[r].ended
  BY <1>p, <1>1, <1>2, <1>6 DEF FrameOK
<1>8. ptr.owner = t /\ ptr.region = r /\ t # -1
  BY <1>7, ThreadsAssumption DEF TaskPtr
<1>9. LivePtrs' = LivePtrs \ {ptr} /\ heap' \subseteq heap /\ \A d \in heap' : d.ptr # ptr
  BY <1>1, Freed
<1>10. FramesInv'
  <2>1. ArrivedOf(g, t)'
    BY <1>1, <1>2, <1>4, <1>6 DEF FrameOK, ArrivedOf, Region
  <2>2. FrameOK(t, n)'
    <3>1. t \in regions[r].team /\ g.phase <= regions[r].barriers
      BY <1>2, <1>4, <1>6 DEF FrameOK
    <3>2. Closed(r)'
      BY <1>1, <1>7 DEF Closed
    <3>3. g.region = r /\ g.ptr = TaskPtr(r, t)
      BY <1>r, <1>2, <1>4, <1>7
    <3>4. ~(n < Len(frames'[t]))
      BY <1>5
    <3> QED BY <1>1, <1>4, <1>5, <1>7, <2>1, <3>1, <3>2, <3>3, <3>4, FrameSet
  <2>3. FrameOK(t, Len(frames[t]))'
    BY <1>n, <1>5, <2>2
  <2> QED BY <1>1, <1>3, <1>4, <2>3, FramesKept
<1>11. NestInv'
  BY <1>1, <1>3, <1>4, NestKept
<1>12. Types'
  <2>1. status' \in [Threads -> Int]
    BY <1>1 DEF Types
  <2> QED BY <1>1, <1>5, <2>1 DEF Types
<1>13. RegionsInv'
  BY <1>1 DEF CoreInv, RegionsInv, Closed
<1>14. late[t] = {}
  <2>1. LateOK(t)
    BY DEF CoreInv, LateInv
  <2> QED BY <1>n, <1>1, <1>2, <2>1 DEF LateOK
<1>15. LateInv' /\ StatusInv'
  <2>1. ASSUME NEW u \in Threads, u # t PROVE LateOK(u)' /\ StatusOK(u)'
    BY <1>1, <1>5, <2>1, OtherThread DEF Types
  <2>2. LateOK(t)'
    BY <1>1, <1>14 DEF LateOK
  <2>3. StatusOK(t)'
    <3>1. Frame(t)' = g /\ InRegion(t)' /\ Region(t)' = r
      BY <1>r, <1>4, <1>5 DEF Frame, InRegion, Region
    <3>2. StatusOK(t)
      BY DEF CoreInv, StatusInv
    <3>3. status'[t] = regions[r].level - 1
      BY <1>r, <1>1, <3>2 DEF StatusOK, Types
    <3> QED BY <1>1, <1>4, <3>1, <3>3 DEF StatusOK, At
  <2> QED BY <2>1, <2>2, <2>3 DEF LateInv, StatusInv
<1>16. HeapInv'
  BY <1>1, <1>8, TaskFreed
<1>17. \A k \in 1 .. n : k # n => frames[t][k].ptr # ptr
  <2> SUFFICES ASSUME NEW k \in 1 .. n, k # n PROVE frames[t][k].ptr # ptr
    OBVIOUS
  <2>1. k \in 1 .. n - 1 /\ FrameOK(t, k)
    BY <1>n, <1>2 DEF CoreInv, FramesInv
  <2>2. frames[t][k].region # r
    BY <1>2, <1>6, <2>1 DEF NestOK
  <2>3. frames[t][k].ptr.region = frames[t][k].region
    BY <2>1 DEF FrameOK, ParallelPtr, TaskPtr
  <2> QED BY <1>8, <2>2, <2>3
<1>18. NoDangling'
  <2>1. ASSUME NEW u \in Threads, u # t PROVE DanglingOK(u)'
    BY <1>1, <1>5, <1>8, <2>1, OtherDangling
  <2>2. DanglingOK(t)'
    <3>1. DanglingOK(t)
      BY DanglingByThread DEF CoreInv
    <3>2. \A k \in 1 .. n : frames'[t][k].at # "ended" => frames'[t][k].ptr \in LivePtrs'
      BY <1>n, <1>4, <1>5, <1>9, <1>17, <3>1 DEF DanglingOK
    <3>3. ParallelPtr(r) \in LivePtrs /\ ParallelPtr(r) # ptr
      BY <1>7, <1>8 DEF CoreInv, HeapInv, ParallelPtr
    <3>4. Region(t)' = r
      BY <1>r, <1>4, <1>5 DEF Region, Frame
    <3>5. ParallelPtr(Region(t))' = ParallelPtr(r)
      BY <3>4 DEF ParallelPtr
    <3>6. late'[t] = {}
      BY <1>1, <1>14
    <3> QED BY <1>5, <1>9, <3>2, <3>3, <3>5, <3>6 DEF DanglingOK
  <2> QED BY <2>1, <2>2 DEF NoDangling, DanglingOK, Live, LivePtrs
<1>19. NoLeak'
  <2> SUFFICES ASSUME NEW d \in heap'
               PROVE  \/ d.ptr.owner = -1 /\ ~regions[d.ptr.region].ended
                      \/ d.ptr.owner \in Threads
                           /\ \/ d.ptr \in late[d.ptr.owner]
                              \/ \E k \in 1 .. Len(frames'[d.ptr.owner]) :
                                   frames'[d.ptr.owner][k].ptr = d.ptr
    BY <1>1 DEF NoLeak
  <2>1. d \in heap /\ d.ptr # ptr
    BY <1>9
  <2>2. \/ d.ptr.owner = -1 /\ ~regions[d.ptr.region].ended
        \/ d.ptr.owner \in Threads
             /\ \/ d.ptr \in late[d.ptr.owner]
                \/ \E k \in 1 .. Len(frames[d.ptr.owner]) :
                     frames[d.ptr.owner][k].ptr = d.ptr
    BY <2>1 DEF CoreInv, NoLeak
  <2>3. CASE d.ptr.owner = t
    <3>1. PICK k \in 1 .. n : frames[t][k].ptr = d.ptr
      BY <1>n, <1>8, <1>14, <2>2, <2>3
    <3>2. k # n
      BY <1>p, <1>2, <2>1, <3>1
    <3> QED BY <1>5, <2>3, <3>1, <3>2
  <2>4. CASE d.ptr.owner # t
    BY <1>5, <2>2, <2>4
  <2> QED BY <2>3, <2>4
<1>20. FreedInv'
  <2>1. ASSUME NEW u \in Threads, u # t PROVE FreedOK(u)'
    BY <1>5, <1>9, <2>1, OtherFreed
  <2>2. Frame(t)' = g
    BY <1>5 DEF Frame
  <2>3. FreedOK(t)'
    BY <1>4, <1>9, <2>2 DEF FreedOK
  <2> QED BY <2>1, <2>3 DEF FreedInv
<1> QED BY <1>10, <1>11, <1>12, <1>13, <1>15, <1>16, <1>18, <1>19, <1>20 DEF CoreInv

LEMMA ImplicitTaskEndWorkerStep ==
  ASSUME CoreInv, NEW t \in Threads, ImplicitTaskEndWorker(t), UNCHANGED program
  PROVE  CoreInv'
<1>1. PICK ptr \in late[t] : EndTask(t, ptr)
  BY DEF ImplicitTaskEndWorker
<1>2. /\ Free(ptr) /\ status' = [status EXCEPT ![t] = @ - 1]
      /\ late' = [late EXCEPT ![t] = {}] /\ UNCHANGED <<regions, frames, arrived>> /\ Types
  BY <1>1 DEF ImplicitTaskEndWorker, EndTask, CoreInv
<1>3. /\ late' \in [Threads -> SUBSET Ptrs] /\ late'[t] = {}
      /\ \A u \in Threads : u # t => late'[u] = late[u]
      /\ \A u \in Threads : u # t => status'[u] = status[u]
      /\ status' \in [Threads -> Int]
  BY <1>2 DEF Types
<1>4. LateOK(t)
  BY DEF CoreInv, LateInv
<1>5. /\ t # 0 /\ ptr.owner = t /\ t # -1 /\ \A q \in late[t] : q = ptr
      /\ \A k \in 1 .. Len(frames[t]) : frames[t][k].at = "begun"
  BY <1>1, <1>4, ThreadsAssumption DEF LateOK
<1>6. InRegion(t) => Frame(t).at = "begun"
  BY <1>2, <1>5, TopFrame
<1>7. LivePtrs' = LivePtrs \ {ptr} /\ heap' \subseteq heap /\ \A d \in heap' : d.ptr # ptr
  BY <1>2, Freed
<1>8. Types' /\ RegionsInv'
  BY <1>2, <1>3 DEF CoreInv, Types, RegionsInv, Closed
<1>9. FramesInv' /\ NestInv'
  BY <1>2, FramesUnchanged
<1>10. LateInv' /\ StatusInv'
  <2>1. ASSUME NEW u \in Threads, u # t PROVE LateOK(u)' /\ StatusOK(u)'
    BY <1>2, <1>3, <2>1, OtherThread
  <2>2. LateOK(t)'
    BY <1>3 DEF LateOK
  <2>3. StatusOK(t)'
    <3>1. InRegion(t)' = InRegion(t) /\ Frame(t)' = Frame(t)
      BY <1>2 DEF InRegion, Frame
    <3> QED BY <1>5, <1>6, <3>1 DEF StatusOK, At
  <2> QED BY <2>1, <2>2, <2>3 DEF LateInv, StatusInv
<1>11. HeapInv'
  BY <1>2, <1>5, TaskFreed
<1>12. NoDangling'
  <2>1. ASSUME NEW u \in Threads, u # t PROVE DanglingOK(u)'
    BY <1>2, <1>3, <1>5, <2>1, OtherDangling
  <2>2. DanglingOK(t)'
    <3>1. DanglingOK(t)
      BY DanglingByThread DEF CoreInv
    <3>2. \A k \in 1 .. Len(frames[t]) :
            frames[t][k].at # "ended" => frames[t][k].ptr \in LivePtrs'
      BY <1>5, <1>7, <3>1, Owners DEF DanglingOK
    <3>3. ~At(t, "ended")'
      BY <1>2, <1>6 DEF At, InRegion, Frame
    <3> QED BY <1>2, <1>3, <3>2, <3>3 DEF DanglingOK
  <2> QED BY <2>1, <2>2 DEF NoDangling, DanglingOK, Live, LivePtrs
<1>13. NoLeak'
  <2> SUFFICES ASSUME NEW d \in heap'
               PROVE  \/ d.ptr.owner = -1 /\ ~regions[d.ptr.region].ended
                      \/ d.ptr.owner \in Threads
                           /\ \/ d.ptr \in late'[d.ptr.owner]
                              \/ \E k \in 1 .. Len(frames[d.ptr.owner]) :
                                   frames[d.ptr.owner][k].ptr = d.ptr
    BY <1>2 DEF NoLeak
  <2>1. d \in heap /\ d.ptr # ptr
    BY <1>7
  <2>2. \/ d.ptr.owner = -1 /\ ~regions[d.ptr.region].ended
        \/ d.ptr.owner \in Threads
             /\ \/ d.ptr \in late[d.ptr.owner]
                \/ \E k \in 1 .. Len(frames[d.ptr.owner]) :
                     frames[d.ptr.owner][k].ptr = d.ptr
    BY <2>1 DEF CoreInv, NoLeak
  <2> QED BY <1>3, <1>5, <2>1, <2>2
<1>14. FreedInv'
  BY <1>2, <1>7, OtherFreed DEF FreedInv
<1> QED BY <1>8, <1>9, <1>10, <1>11, <1>12, <1>13, <1>14 DEF CoreInv

(* The region's object goes, and the master is back where it met it.       *)
LEMMA ParallelEndStep ==
  ASSUME CoreInv, NEW t \in Threads, ParallelEnd(t), UNCHANGED program
  PROVE  CoreInv'
<1>n. PICK n : n = Len(frames[t])
  OBVIOUS
<1>r. PICK r : r = Region(t)
  OBVIOUS
<1>p. PICK ptr : ptr = ParallelPtr(r)
  OBVIOUS
<1>1. /\ At(t, "ended") /\ InRegion(t) /\ Frame(t).at = "ended" /\ LeaveRegion(t) /\ Free(ptr)
      /\ regions' = [regions EXCEPT ![r].ended = TRUE]
      /\ UNCHANGED <<arrived, late, status>> /\ Types
  BY <1>r, <1>p DEF ParallelEnd, At, CoreInv
<1>2. /\ n \in 1 .. n /\ n \in Nat /\ n >= 1 /\ Frame(t) = frames[t][n]
      /\ r = frames[t][n].region
  BY <1>n, <1>r, <1>1, TopFrame, FrameTypes DEF Region
<1>3. /\ frames' \in [Threads -> Seq(Frames)] /\ Len(frames'[t]) = n - 1
      /\ \A k \in 1 .. n - 1 : frames'[t][k] = frames[t][k]
      /\ \A u \in Threads : u # t => frames'[u] = frames[u]
  <2>1. /\ frames' \in [Threads -> Seq(Frames)] /\ Len(frames'[t]) = Len(frames[t]) - 1
        /\ \A k \in 1 .. Len(frames[t]) - 1 : frames'[t][k] = frames[t][k]
        /\ \A u \in Threads : u # t => frames'[u] = frames[u]
    BY <1>1, TopLeft
  <2> QED BY <1>n, <2>1
<1>4. FrameOK(t, n) /\ NestOK(t, n)
  BY <1>n, <1>2 DEF CoreInv, FramesInv, NestInv
<1>5. /\ r \in 1 .. Len(regions) /\ regions[r].master = t /\ Closed(r)
      /\ frames[t][n].ptr = TaskPtr(r, t)
  BY <1>1, <1>2, <1>4 DEF FrameOK
<1>6. /\ regions' \in Seq(RegionRecords) /\ Len(regions') = Len(regions)
      /\ regions'[r].ended
      /\ \A q \in 1 .. Len(regions) :
           /\ regions'[q].team = regions[q].team /\ regions'[q].master = regions[q].master
           /\ regions'[q].barriers = regions[q].barriers
           /\ regions'[q].level = regions[q].level
           /\ regions'[q].parent = regions[q].parent
           /\ q # r => regions'[q].ended = regions[q].ended
  <2>1. PICK x : x = [regions[r] EXCEPT !.ended = TRUE]
    OBVIOUS
  <2>2. regions \in Seq(RegionRecords) /\ regions[r] \in RegionRecords
    BY <1>1, <1>5, RegionTypes DEF Types
  <2>3. /\ x \in RegionRecords /\ x.ended /\ x.team = regions[r].team
        /\ x.master = regions[r].master /\ x.barriers = regions[r].barriers
        /\ x.level = regions[r].level /\ x.parent = regions[r].parent
    BY <2>1, <2>2 DEF RegionRecords
  <2>4. regions' = [regions EXCEPT ![r] = x]
    BY <1>1, <2>1
  <2>5. /\ regions' \in Seq(RegionRecords) /\ Len(regions') = Len(regions)
        /\ \A q \in 1 .. Len(regions) : regions'[q] = IF q = r THEN x ELSE regions[q]
    BY <1>5, <2>2, <2>3, <2>4
  <2> QED BY <1>5, <2>3, <2>5
<1>7. Types'
  BY <1>1, <1>3, <1>6 DEF Types
<1>8. \A q \in 1 .. Len(regions) : Closed(q)' = Closed(q)
  BY <1>1, <1>6 DEF Closed
<1>9. FramesInv' /\ NestInv'
  <2>1. \A q \in 1 .. Len(regions) :
          /\ regions'[q].team = regions[q].team /\ regions'[q].master = regions[q].master
          /\ regions'[q].barriers = regions[q].barriers
          /\ regions'[q].level = regions[q].level
          /\ \/ regions'[q].ended = regions[q].ended
             \/ q = Region(t) /\ regions[q].master = t
    BY <1>r, <1>5, <1>6
  <2> QED BY <1>1, <1>6, <2>1, FramesLeft
<1>10. RegionsInv'
  BY <1>1, <1>5, <1>6, <1>8 DEF CoreInv, RegionsInv
<1>11. late[t] = {}
  <2>1. LateOK(t)
    BY DEF CoreInv, LateInv
  <2> QED BY <1>n, <1>1, <1>2, <2>1 DEF LateOK
<1>12. n > 1 => /\ InRegion(t)' /\ Frame(t)' = frames[t][n - 1]
                /\ n - 1 \in 1 .. n - 1 /\ frames[t][n - 1].at = "user"
                /\ FrameOK(t, n - 1)
  <2> SUFFICES ASSUME n > 1
               PROVE  /\ InRegion(t)' /\ Frame(t)' = frames[t][n - 1]
                      /\ n - 1 \in 1 .. n - 1 /\ frames[t][n - 1].at = "user"
                      /\ FrameOK(t, n - 1)
    OBVIOUS
  <2>1. n - 1 \in 1 .. n - 1 /\ n - 1 \in 1 .. n /\ n - 1 < n /\ n - 1 # 0
    BY <1>2
  <2>2. Frame(t)' = frames[t][n - 1]
    BY <1>3, <2>1 DEF Frame
  <2>3. FrameOK(t, n - 1)
    BY <1>n, <2>1 DEF CoreInv, FramesInv
  <2>4. frames[t][n - 1].at = "user"
    BY <1>n, <2>1, <2>3 DEF FrameOK
  <2>5. InRegion(t)'
    BY <1>3, <2>1 DEF InRegion
  <2> QED BY <2>1, <2>2, <2>3, <2>4, <2>5
<1>13. n = 1 => ~InRegion(t)'
  <2>1. n = 1 => frames'[t] \in Seq(Frames) /\ Len(frames'[t]) = 0
    BY <1>3
  <2> QED BY <2>1, EmptySeq DEF InRegion
<1>14. n > 1 \/ n = 1
  BY <1>2
<1>15. ~At(t, "ended")'
  BY <1>12, <1>13, <1>14 DEF At
<1>16. LateInv' /\ StatusInv'
  <2>1. ASSUME NEW u \in Threads, u # t PROVE LateOK(u)' /\ StatusOK(u)'
    <3>1. InRegion(u) => regions'[Region(u)].level = regions[Region(u)].level
      <4> SUFFICES ASSUME InRegion(u) PROVE Region(u) \in 1 .. Len(regions)
        BY <1>6
      <4>1. Len(frames[u]) \in 1 .. Len(frames[u]) /\ Frame(u) = frames[u][Len(frames[u])]
        BY <1>1, TopFrame
      <4>2. FrameOK(u, Len(frames[u]))
        BY <4>1 DEF CoreInv, FramesInv
      <4> QED BY <4>1, <4>2 DEF FrameOK, Region
    <3> QED BY <1>1, <1>3, <2>1, <3>1, OtherThread
  <2>2. LateOK(t)'
    BY <1>1, <1>11 DEF LateOK
  <2>3. StatusOK(t)'
    <3>1. status'[t] = regions[r].level - 1
      <4>1. StatusOK(t)
        BY DEF CoreInv, StatusInv
      <4> QED BY <1>r, <1>1, <4>1 DEF StatusOK
    <3>2. CASE n = 1
      <4>1. t = 0 /\ regions[r].level = 1
        BY <1>2, <1>4, <1>5, <3>2 DEF NestOK
      <4> QED BY <1>13, <3>1, <3>2, <4>1 DEF StatusOK, At
    <3>3. CASE n > 1
      <4>1. PICK q : q = frames[t][n - 1].region
        OBVIOUS
      <4>2. q \in 1 .. Len(regions) /\ regions[q].level \in Nat
        BY <1>1, <1>12, <3>3, <4>1, RegionTypes DEF FrameOK
      <4>3. regions[r].level = regions[q].level + 1
        BY <1>2, <1>4, <3>3, <4>1 DEF NestOK
      <4>4. status'[t] = regions'[q].level
        BY <1>6, <3>1, <4>2, <4>3
      <4>5. Region(t)' = q
        BY <1>12, <3>3, <4>1 DEF Region
      <4> QED BY <1>12, <1>15, <3>3, <4>4, <4>5 DEF StatusOK
    <3> QED BY <1>14, <3>2, <3>3
  <2> QED BY <2>1, <2>2, <2>3 DEF LateInv, StatusInv
<1>17. LivePtrs' = LivePtrs \ {ptr} /\ heap' \subseteq heap /\ \A d \in heap' : d.ptr # ptr
  BY <1>1, Freed
<1>18. HeapInv'
  <2>1. \A d \in heap' : /\ d.ptr \in Ptrs /\ d.ptr.region \in 1 .. Len(regions)
                         /\ d = ObjectOf(d.ptr)
    BY <1>17 DEF CoreInv, HeapInv
  <2>2. \A d \in heap' : d = ObjectOf(d.ptr)'
    BY <1>6, <2>1 DEF ObjectOf
  <2>3. ASSUME NEW q \in 1 .. Len(regions), ~regions'[q].ended
        PROVE  ParallelPtr(q) \in LivePtrs'
    <3>1. q # r /\ ~regions[q].ended
      BY <1>6, <2>3
    <3>2. ParallelPtr(q) \in LivePtrs
      BY <3>1 DEF CoreInv, HeapInv
    <3>3. ParallelPtr(q) # ptr
      BY <1>p, <3>1 DEF ParallelPtr
    <3> QED BY <1>17, <3>2, <3>3
  <2> QED BY <1>6, <2>1, <2>2, <2>3 DEF HeapInv, ParallelPtr
<1>19. FreedInv'
  <2>1. ASSUME NEW u \in Threads, u # t PROVE FreedOK(u)'
    BY <1>3, <1>17, <2>1, OtherFreed
  <2>2. FreedOK(t)'
    BY <1>15 DEF FreedOK
  <2> QED BY <2>1, <2>2 DEF FreedInv
<1>20. \A u \in Threads : \A k \in 1 .. Len(frames[u]) : frames[u][k].ptr # ptr
  <2> SUFFICES ASSUME NEW u \in Threads, NEW k \in 1 .. Len(frames[u]), frames[u][k].ptr = ptr
               PROVE  FALSE
    OBVIOUS
  <2>1. FrameOK(u, k) /\ u # -1
    BY ThreadsAssumption DEF CoreInv, FramesInv
  <2>2. frames[u][k].at = "begun" /\ frames[u][k].region = r
    BY <1>p, <2>1 DEF FrameOK, ParallelPtr, TaskPtr
  <2>3. arrived[r][u] = 0 /\ u \in regions[r].team
    BY <2>1, <2>2 DEF FrameOK, ArrivedOf
  <2>4. regions[r].barriers \in Nat
    BY <1>1, <1>5, RegionTypes
  <2> QED BY <1>5, <2>3, <2>4 DEF Closed
<1>21. NoDangling'
  <2>0. \A u \in Threads : u # -1
    BY ThreadsAssumption
  <2>1. ASSUME NEW u \in Threads PROVE late'[u] \subseteq LivePtrs'
    <3>1. DanglingOK(u)
      BY DanglingByThread DEF CoreInv
    <3>2. \A p \in late[u] : p # ptr
      BY <1>p, <2>0, Owners DEF ParallelPtr
    <3> QED BY <1>1, <1>17, <3>1, <3>2 DEF DanglingOK
  <2>2. ASSUME NEW u \in Threads, NEW k \in 1 .. Len(frames[u]), frames[u][k].at # "ended"
        PROVE  frames[u][k].ptr \in LivePtrs'
    <3>1. DanglingOK(u)
      BY DanglingByThread DEF CoreInv
    <3> QED BY <1>17, <1>20, <2>2, <3>1 DEF DanglingOK
  <2>3. ASSUME NEW u \in Threads, u # t, At(u, "ended") PROVE ParallelPtr(Region(u)) \in LivePtrs'
    <3>1. DanglingOK(u) /\ InRegion(u) /\ Frame(u).at = "ended"
      BY <2>3, DanglingByThread DEF CoreInv, At
    <3>2. Len(frames[u]) \in 1 .. Len(frames[u]) /\ Frame(u) = frames[u][Len(frames[u])]
      BY <1>1, <3>1, TopFrame
    <3>3. FrameOK(u, Len(frames[u]))
      BY <3>2 DEF CoreInv, FramesInv
    <3>4. regions[Region(u)].master = u
      BY <3>1, <3>2, <3>3 DEF FrameOK, Region
    <3>5. ParallelPtr(Region(u)) # ptr
      BY <1>p, <1>5, <2>3, <3>4 DEF ParallelPtr
    <3> QED BY <1>17, <2>3, <3>1, <3>5 DEF DanglingOK
  <2>4. ASSUME NEW u \in Threads, u # t PROVE DanglingOK(u)'
    BY <1>3, <2>1, <2>2, <2>3, <2>4 DEF DanglingOK, At, InRegion, Frame, Region, ParallelPtr
  <2>5. DanglingOK(t)'
    <3>1. \A k \in 1 .. n - 1 : k \in 1 .. Len(frames[t])
      BY <1>n, <1>2
    <3> QED BY <1>3, <1>15, <2>1, <2>2, <3>1 DEF DanglingOK
  <2> QED BY <2>4, <2>5 DEF NoDangling, DanglingOK, Live, LivePtrs
<1>22. NoLeak'
  <2> SUFFICES ASSUME NEW d \in heap'
               PROVE  \/ d.ptr.owner = -1 /\ ~regions'[d.ptr.region].ended
                      \/ d.ptr.owner \in Threads
                           /\ \/ d.ptr \in late[d.ptr.owner]
                              \/ \E k \in 1 .. Len(frames'[d.ptr.owner]) :
                                   frames'[d.ptr.owner][k].ptr = d.ptr
    BY <1>1 DEF NoLeak
  <2>1. d \in heap /\ d.ptr # ptr /\ d.ptr \in Ptrs /\ d.ptr.region \in 1 .. Len(regions)
    BY <1>17 DEF CoreInv, HeapInv
  <2>2. \/ d.ptr.owner = -1 /\ ~regions[d.ptr.region].ended
        \/ d.ptr.owner \in Threads
             /\ \/ d.ptr \in late[d.ptr.owner]
                \/ \E k \in 1 .. Len(frames[d.ptr.owner]) :
                     frames[d.ptr.owner][k].ptr = d.ptr
    BY <2>1 DEF CoreInv, NoLeak
  <2>3. CASE d.ptr.owner = -1 /\ ~regions[d.ptr.region].ended
    <3>1. d.ptr.region # r
      BY <1>p, <2>1, <2>3 DEF Ptrs, ParallelPtr
    <3> QED BY <1>6, <2>1, <2>3, <3>1
  <2>4. CASE d.ptr.owner \in Threads /\ d.ptr.owner # t
    <3>1. d.ptr.owner # -1
      BY <2>4, ThreadsAssumption
    <3> QED BY <1>3, <2>2, <2>4, <3>1
  <2>5. CASE d.ptr.owner = t
    <3>1. PICK k \in 1 .. n : frames[t][k].ptr = d.ptr
      BY <1>n, <1>11, <2>2, <2>5, ThreadsAssumption
    <3>2. k # n
      <4>1. Frame(t).ptr \notin LivePtrs
        BY <1>1 DEF CoreInv, FreedInv, FreedOK
      <4>2. d.ptr \in LivePtrs
        BY <2>1 DEF LivePtrs
      <4> QED BY <1>2, <3>1, <4>1, <4>2
    <3>3. k \in 1 .. n - 1
      BY <1>2, <3>2
    <3> QED BY <1>3, <2>5, <3>1, <3>3
  <2> QED BY <2>2, <2>3, <2>4, <2>5
<1> QED BY <1>7, <1>9, <1>10, <1>16, <1>18, <1>19, <1>21, <1>22 DEF CoreInv

(* Where code of the program runs the counter is the depth, and the parent *)
(* of a new region is the region that is met there.                        *)
LEMMA RunningThread ==
  ASSUME CoreInv, NEW t \in Threads, Running(t)
  PROVE  /\ status[t] = Depth(t) /\ Depth(t) \in Nat /\ late[t] = {}
         /\ Place(t).region \in Nat /\ ParentId(t) = Place(t).region
         /\ InRegion(t) => /\ Region(t) \in 1 .. Len(regions) /\ Frame(t).at = "user"
                           /\ Depth(t) = regions[Region(t)].level
         /\ ~InRegion(t) => t = 0 /\ Depth(t) = 0
<1>1. Types /\ StatusOK(t) /\ LateOK(t)
  BY DEF CoreInv, StatusInv, LateInv
<1>2. CASE ~InRegion(t)
  <2>1. t = 0 /\ Depth(t) = 0 /\ status[t] = 0
    BY <1>1, <1>2 DEF Running, Depth, StatusOK
  <2>2. Place(t).region = 0 /\ ParentId(t) = 0
    BY <1>2, <2>1 DEF Place, ParentId
  <2>3. late[t] = {}
    BY <1>1, <2>1 DEF LateOK
  <2> QED BY <1>2, <2>1, <2>2, <2>3
<1>3. CASE InRegion(t)
  <2>n. PICK n : n = Len(frames[t])
    OBVIOUS
  <2>1. Frame(t).at = "user" /\ n \in 1 .. n /\ Frame(t) = frames[t][n]
    BY <2>n, <1>1, <1>3, TopFrame DEF Running, At
  <2>2. FrameOK(t, n)
    BY <2>n, <2>1 DEF CoreInv, FramesInv
  <2>3. /\ Region(t) \in 1 .. Len(regions) /\ Frame(t).ptr = TaskPtr(Region(t), t)
    BY <2>1, <2>2 DEF FrameOK, Region
  <2>4. regions[Region(t)].level \in Nat /\ regions[Region(t)].level >= 1
        /\ Region(t) \in Nat
    BY <1>1, <2>3, RegionTypes DEF CoreInv, RegionsInv
  <2>5. Depth(t) = regions[Region(t)].level /\ status[t] = Depth(t)
    BY <1>1, <1>3, <2>1 DEF Depth, StatusOK
  <2>6. Place(t).region = Region(t)
    BY <1>3 DEF Place
  <2>7. ParentId(t) = Region(t)
    <3>1. PICK ptr : ptr = Frame(t).ptr
      OBVIOUS
    <3>2. DanglingOK(t)
      BY DanglingByThread DEF CoreInv
    <3>3. ptr \in LivePtrs
      BY <2>n, <2>1, <3>1, <3>2 DEF DanglingOK
    <3>4. Deref(ptr).parallel_id = ptr.region
      BY <3>3, DerefLive DEF CoreInv, ObjectOf
    <3>5. ptr.region = Region(t)
      BY <2>3, <3>1 DEF TaskPtr
    <3>6. status[t] + 1 # 1
      BY <2>4, <2>5
    <3> QED BY <3>1, <3>4, <3>5, <3>6 DEF ParentId
  <2>8. late[t] = {}
    BY <2>n, <1>1, <2>1 DEF LateOK
  <2> QED BY <1>3, <2>1, <2>3, <2>4, <2>5, <2>6, <2>7, <2>8
<1> QED BY <1>2, <1>3

(* Every thread of the team gets the region on top.                        *)
LEMMA TeamStarts ==
  ASSUME Types, NEW team \in SUBSET Threads, NEW g \in Frames,
         frames' = [u \in Threads |-> IF u \in team THEN Append(frames[u], g) ELSE frames[u]]
  PROVE  /\ frames' \in [Threads -> Seq(Frames)]
         /\ \A u \in Threads : u \notin team => frames'[u] = frames[u]
         /\ \A u \in team : /\ Len(frames'[u]) = Len(frames[u]) + 1
                            /\ frames'[u] # << >> /\ frames'[u][Len(frames[u]) + 1] = g
         /\ \A u \in Threads : \A k \in 1 .. Len(frames[u]) : frames'[u][k] = frames[u][k]
<1>1. ASSUME NEW u \in team
      PROVE  /\ frames'[u] \in Seq(Frames)
             /\ Len(frames'[u]) = Len(frames[u]) + 1
             /\ frames'[u] # << >> /\ frames'[u][Len(frames[u]) + 1] = g
             /\ \A k \in 1 .. Len(frames[u]) : frames'[u][k] = frames[u][k]
  <2>1. PICK s : s = frames[u]
    OBVIOUS
  <2>2. frames'[u] = Append(s, g) /\ s \in Seq(Frames)
    BY <2>1 DEF Types
  <2>3. /\ Append(s, g) \in Seq(Frames) /\ Len(Append(s, g)) = Len(s) + 1
        /\ Append(s, g) # << >> /\ Append(s, g)[Len(s) + 1] = g
        /\ \A k \in 1 .. Len(s) : Append(s, g)[k] = s[k]
    BY <2>2, AppendProperties
  <2> QED BY <2>1, <2>2, <2>3
<1>2. ASSUME NEW u \in Threads, u \notin team
      PROVE  frames'[u] = frames[u] /\ frames'[u] \in Seq(Frames)
  BY <1>2 DEF Types
<1>3. frames' \in [Threads -> Seq(Frames)]
  BY <1>1, <1>2
<1> QED BY <1>1, <1>2, <1>3

LEMMA ParallelBeginStep ==
  ASSUME CoreInv, NEW t \in Threads, NEW team \in SUBSET program.threads,
         NEW requested \in 1 .. Cardinality(program.threads),
         NEW barriers \in 0 .. program.barriers,
         ParallelBegin(t, team, requested, barriers), UNCHANGED program
  PROVE  CoreInv'
<1>n. PICK n : n = Len(frames[t])
  OBVIOUS
<1>r. PICK r : r = Len(regions) + 1
  OBVIOUS
<1>p. PICK ptr : ptr = ParallelPtr(r)
  OBVIOUS
<1>g. PICK g : g = [region |-> r, phase |-> 0, at |-> "begun", ptr |-> ptr]
  OBVIOUS
<1>x. PICK x : x = [team |-> team, master |-> t, barriers |-> barriers, ended |-> FALSE,
                    parent |-> Place(t).region, level |-> Depth(t) + 1]
  OBVIOUS
<1>d. PICK new : new = [ptr |-> ptr, parallel_id |-> r, parent_parallel_id |-> ParentId(t),
                        level |-> status[t] + 1]
  OBVIOUS
<1>1. /\ Running(t) /\ r <= program.regions /\ t \in team
      /\ \A u \in team : u # t => ~InRegion(u) /\ u # 0
      /\ regions' = Append(regions, x)
      /\ frames' = [u \in Threads |-> IF u \in team THEN Append(frames[u], g) ELSE frames[u]]
      /\ status' = [status EXCEPT ![t] = @ + 1] /\ heap' = heap \cup {new}
      /\ UNCHANGED <<arrived, late>> /\ Types
  BY <1>r, <1>p, <1>g, <1>x, <1>d DEF ParallelBegin, CoreInv
<1>2. /\ status[t] = Depth(t) /\ Depth(t) \in Nat /\ late[t] = {}
      /\ Place(t).region \in Nat /\ ParentId(t) = Place(t).region
      /\ InRegion(t) => /\ Region(t) \in 1 .. Len(regions) /\ Frame(t).at = "user"
                        /\ Depth(t) = regions[Region(t)].level
      /\ ~InRegion(t) => t = 0 /\ Depth(t) = 0
  BY <1>1, RunningThread
<1>3. team \subseteq Threads /\ program.barriers \in Nat /\ barriers \in Nat
  BY <1>1, ThreadsAssumption DEF Types
<1>4. /\ x \in RegionRecords /\ x.team = team /\ x.master = t /\ x.barriers = barriers
      /\ ~x.ended /\ x.parent = ParentId(t) /\ x.level = status[t] + 1 /\ x.level >= 1
  BY <1>x, <1>2, <1>3 DEF RegionRecords
<1>5. Len(regions) \in Nat /\ r \in Nat /\ r >= 1 /\ r \in 1 .. program.regions
      /\ program.regions \in Nat
  BY <1>r, <1>1, RegionTypes
<1>6. ptr \in Ptrs /\ ptr.owner = -1 /\ ptr.region = r
  BY <1>p, <1>5 DEF Ptrs, ParallelPtr
<1>7. /\ g \in Frames /\ g.region = r /\ g.phase = 0 /\ g.at = "begun" /\ g.ptr = ptr
  BY <1>g, <1>5, <1>6 DEF Frames
<1>8. /\ frames' \in [Threads -> Seq(Frames)]
      /\ \A u \in Threads : u \notin team => frames'[u] = frames[u]
      /\ \A u \in team : /\ Len(frames'[u]) = Len(frames[u]) + 1
                         /\ frames'[u] # << >> /\ frames'[u][Len(frames[u]) + 1] = g
      /\ \A u \in Threads : \A k \in 1 .. Len(frames[u]) : frames'[u][k] = frames[u][k]
  BY <1>1, <1>3, <1>7, TeamStarts
<1>9. /\ regions' \in Seq(RegionRecords) /\ Len(regions') = r /\ regions'[r] = x
      /\ \A q \in 1 .. Len(regions) : regions'[q] = regions[q]
  <2>1. regions \in Seq(RegionRecords)
    BY <1>1 DEF Types
  <2> QED BY <1>r, <1>1, <1>4, <2>1, AppendProperties
<1>10. Types'
  <2>1. status' \in [Threads -> Int]
    BY <1>1 DEF Types
  <2> QED BY <1>1, <1>8, <1>9, <2>1 DEF Types
<1>11. \A u \in team : u # t => Len(frames[u]) = 0
  BY <1>1 DEF InRegion
<1>12. /\ n \in Nat /\ (n = 0 <=> ~InRegion(t))
       /\ n >= 1 => Frame(t) = frames[t][n]
  <2>1. frames[t] \in Seq(Frames)
    BY <1>1 DEF Types
  <2> QED BY <1>n, <2>1 DEF InRegion, Frame
<1>13. \A q \in 1 .. Len(regions) : /\ q \in 1 .. Len(regions') /\ q # r
                                    /\ Closed(q)' = Closed(q)
  BY <1>r, <1>1, <1>5, <1>9 DEF Closed
<1>14. ASSUME NEW u \in Threads, NEW k \in 1 .. Len(frames'[u])
       PROVE  \/ k \in 1 .. Len(frames[u])
              \/ u \in team /\ k = Len(frames[u]) + 1
  <2>1. Len(frames[u]) \in Nat
    BY <1>1, FrameTypes
  <2> QED BY <1>8, <2>1
<1>15. ASSUME NEW u \in Threads, NEW k \in 1 .. Len(frames[u])
       PROVE  FrameOK(u, k)' /\ NestOK(u, k)'
  <2>1. FrameOK(u, k) /\ NestOK(u, k)
    BY DEF CoreInv, FramesInv, NestInv
  <2>2. PICK q : q = frames[u][k].region
    OBVIOUS
  <2>3. q \in 1 .. Len(regions) /\ (regions[q].master = u => ~regions[q].ended)
    BY <2>1, <2>2 DEF FrameOK
  <2>4. frames'[u][k] = frames[u][k] /\ Len(frames[u]) \in Nat
    BY <1>1, <1>8, FrameTypes
  <2>5. k < Len(frames'[u]) => k < Len(frames[u]) \/ frames[u][k].at = "user"
    <3>1. CASE u \notin team
      BY <1>8, <3>1
    <3>2. CASE u \in team /\ u # t
      BY <1>11, <3>2
    <3>3. CASE u = t
      <4>1. k < n \/ k = n
        BY <1>n, <2>4, <3>3
      <4>2. k = n => frames[u][k].at = "user"
        BY <1>n, <1>2, <1>12, <3>3
      <4> QED BY <1>n, <3>3, <4>1, <4>2
    <3> QED BY <3>1, <3>2, <3>3
  <2>6. FrameOK(u, k)'
    BY <1>1, <1>9, <1>13, <2>1, <2>2, <2>3, <2>4, <2>5, FrameKept
  <2>7. NestOK(u, k)'
    <3>0. \A j \in 1 .. k - 1 : j \in 1 .. Len(frames[u])
      BY <2>4
    <3>1. \A j \in 1 .. k - 1 : j \in 1 .. Len(frames[u]) /\ frames'[u][j] = frames[u][j]
      BY <1>8, <3>0
    <3>2. CASE k > 1
      <4>1. k - 1 \in 1 .. k - 1 /\ k - 1 \in 1 .. Len(frames[u])
        BY <2>4, <3>2
      <4>2. FrameOK(u, k - 1)
        BY <4>1 DEF CoreInv, FramesInv
      <4>3. frames[u][k - 1].region \in 1 .. Len(regions)
        BY <4>2 DEF FrameOK
      <4> QED BY <1>9, <2>1, <2>2, <2>3, <2>4, <3>1, <3>2, <4>1, <4>3 DEF NestOK
    <3>3. CASE ~(k > 1)
      BY <1>9, <2>1, <2>2, <2>3, <2>4, <3>1, <3>3 DEF NestOK
    <3> QED BY <3>2, <3>3
  <2> QED BY <2>6, <2>7
<1>16. ASSUME NEW u \in team, NEW k, k = Len(frames[u]) + 1
       PROVE  FrameOK(u, k)' /\ NestOK(u, k)'
  <2>0. u \in Threads /\ Len(frames[u]) \in Nat
    BY <1>1, <1>3, FrameTypes
  <2>1. frames'[u][k] = g /\ k = Len(frames'[u])
    BY <1>8, <1>16
  <2>2. arrived'[r][u] = 0
    <3>1. r \in Len(regions) + 1 .. program.regions
      BY <1>r, <1>1, <1>5
    <3> QED BY <1>1, <2>0, <3>1 DEF CoreInv, RegionsInv
  <2>3. ArrivedOf(g, u)'
    BY <1>7, <2>2 DEF ArrivedOf
  <2>4. u = 0 => u = t
    BY <1>1
  <2>5. r \in 1 .. Len(regions') /\ 0 <= barriers
    BY <1>5, <1>9
  <2>6. FrameOK(u, k)'
    BY <1>p, <1>4, <1>7, <1>9, <2>1, <2>3, <2>4, <2>5 DEF FrameOK, ParallelPtr
  <2>7. CASE u # t
    <3>1. k = 1
      BY <1>11, <1>16, <2>7
    <3> QED BY <1>4, <1>7, <1>9, <2>1, <2>6, <2>7, <3>1 DEF NestOK
  <2>8. CASE u = t
    <3>1. k = n + 1 /\ frames'[t][k] = g
      BY <1>n, <1>16, <2>1, <2>8
    <3>2. CASE n = 0
      <4>1. k = 1 /\ t = 0 /\ x.level = 1
        BY <1>2, <1>4, <1>12, <3>1, <3>2
      <4> QED BY <1>7, <1>9, <2>6, <2>8, <3>1, <4>1 DEF NestOK
    <3>3. CASE n >= 1
      <4>1. n \in 1 .. n /\ n \in 1 .. Len(frames[t]) /\ k - 1 = n /\ k > 1
        BY <1>n, <1>12, <3>1, <3>3
      <4>2. InRegion(t) /\ Region(t) = frames[t][n].region
        BY <1>12, <3>3 DEF Region
      <4>3. \A j \in 1 .. n : /\ frames'[t][j] = frames[t][j]
                              /\ frames[t][j].region \in 1 .. Len(regions)
        BY <1>n, <1>8 DEF CoreInv, FramesInv, FrameOK
      <4>4. \A j \in 1 .. k - 1 : frames'[t][j].region # r
        BY <1>13, <4>1, <4>3
      <4>5. regions'[frames'[t][k - 1].region].level = regions[Region(t)].level
        BY <1>9, <4>1, <4>2, <4>3
      <4>6. x.level = regions[Region(t)].level + 1
        BY <1>2, <1>4, <4>2
      <4>7. k # 1
        BY <4>1
      <4> QED BY <1>4, <1>7, <1>9, <2>6, <2>8, <3>1, <4>1, <4>4, <4>5, <4>6, <4>7 DEF NestOK
    <3> QED BY <1>12, <2>6, <3>2, <3>3
  <2> QED BY <2>6, <2>7, <2>8
<1>17. FramesInv' /\ NestInv'
  BY <1>14, <1>15, <1>16 DEF FramesInv, NestInv
<1>18. RegionsInv'
  <2>1. \A q \in 1 .. r : regions'[q].level >= 1 /\ (regions'[q].ended => Closed(q)')
    <3>1. \A q \in 1 .. r : q \in 1 .. Len(regions) \/ q = r
      BY <1>r, <1>5
    <3> QED BY <1>4, <1>9, <1>13, <3>1 DEF CoreInv, RegionsInv
  <2>2. \A q \in r + 1 .. program.regions : q \in Len(regions) + 1 .. program.regions
    BY <1>r, <1>5
  <2> QED BY <1>1, <1>9, <2>1, <2>2 DEF CoreInv, RegionsInv
<1>19. \A u \in team : InRegion(u)' /\ Frame(u)' = g
  BY <1>8 DEF InRegion, Frame
<1>20. LateInv' /\ StatusInv'
  <2>1. ASSUME NEW u \in Threads, u \notin team PROVE LateOK(u)' /\ StatusOK(u)'
    <3>1. InRegion(u) => regions'[Region(u)].level = regions[Region(u)].level
      <4> SUFFICES ASSUME InRegion(u) PROVE Region(u) \in 1 .. Len(regions)
        BY <1>9
      <4>1. Len(frames[u]) \in 1 .. Len(frames[u]) /\ Frame(u) = frames[u][Len(frames[u])]
        BY <1>1, TopFrame
      <4>2. FrameOK(u, Len(frames[u]))
        BY <4>1 DEF CoreInv, FramesInv
      <4> QED BY <4>1, <4>2 DEF FrameOK, Region
    <3>2. u # t /\ frames'[u] = frames[u] /\ late'[u] = late[u]
      BY <1>1, <1>8, <2>1
    <3>3. status'[u] = status[u]
      BY <1>1, <3>2 DEF Types
    <3> QED BY <3>1, <3>2, <3>3, OtherThread
  <2>2. ASSUME NEW u \in team PROVE StatusOK(u)'
    BY <1>7, <1>19 DEF StatusOK, At
  <2>3. LateOK(t)'
    BY <1>1, <1>2 DEF LateOK
  <2>4. ASSUME NEW u \in team, u # t PROVE LateOK(u)'
    <3>1. u \in Threads /\ LateOK(u) /\ u # 0
      BY <1>1, <1>3, <2>4 DEF CoreInv, LateInv
    <3>2. Len(frames'[u]) = 1 /\ frames'[u][1] = g
      <4>1. PICK m : m = Len(frames[u])
        OBVIOUS
      <4>2. Len(frames'[u]) = m + 1 /\ frames'[u][m + 1] = g /\ m = 0
        BY <1>8, <1>11, <2>4, <4>1
      <4> QED BY <4>2
    <3>3. \A k \in 1 .. Len(frames'[u]) : frames'[u][k].at = "begun"
      BY <1>7, <3>2
    <3> QED BY <1>1, <3>1, <3>2, <3>3 DEF LateOK
  <2> QED BY <1>3, <2>1, <2>2, <2>3, <2>4 DEF LateInv, StatusInv
<1>21. LivePtrs' = LivePtrs \cup {ptr}
  BY <1>d, <1>1 DEF LivePtrs
<1>22. HeapInv'
  <2>1. new = ObjectOf(ptr)' /\ new.ptr = ptr
    BY <1>d, <1>4, <1>6, <1>9 DEF ObjectOf
  <2>2. ASSUME NEW d \in heap
        PROVE  /\ d.ptr \in Ptrs /\ d.ptr.region \in 1 .. Len(regions)
               /\ d = ObjectOf(d.ptr)'
    <3>1. /\ d.ptr \in Ptrs /\ d.ptr.region \in 1 .. Len(regions) /\ d = ObjectOf(d.ptr)
      BY DEF CoreInv, HeapInv
    <3> QED BY <1>9, <3>1 DEF ObjectOf
  <2>3. \A d \in heap' : /\ d.ptr \in Ptrs /\ d.ptr.region \in 1 .. Len(regions')
                         /\ d = ObjectOf(d.ptr)'
    <3>1. r \in 1 .. Len(regions')
      BY <1>5, <1>9
    <3> QED BY <1>1, <1>6, <1>13, <2>1, <2>2, <3>1
  <2>4. \A q \in 1 .. r : ~regions'[q].ended => ParallelPtr(q) \in LivePtrs'
    <3>1. \A q \in 1 .. r : q \in 1 .. Len(regions) \/ q = r
      BY <1>r, <1>5
    <3> QED BY <1>p, <1>9, <1>21, <3>1 DEF CoreInv, HeapInv
  <2> QED BY <1>9, <2>3, <2>4 DEF HeapInv, ParallelPtr
<1>23. FreedInv'
  <2>1. ASSUME NEW u \in Threads, u \notin team PROVE FreedOK(u)'
    <3>1. u # -1
      BY ThreadsAssumption
    <3> QED BY <1>6, <1>8, <1>21, <2>1, <3>1, OtherFreed
  <2>2. ASSUME NEW u \in team PROVE FreedOK(u)'
    BY <1>7, <1>19 DEF FreedOK, At
  <2> QED BY <2>1, <2>2 DEF FreedInv
<1>24. NoDangling'
  <2>1. ASSUME NEW u \in Threads PROVE DanglingOK(u)'
    <3>0. DanglingOK(u)
      BY DanglingByThread DEF CoreInv
    <3>1. late'[u] \subseteq LivePtrs'
      BY <1>1, <1>21, <3>0 DEF DanglingOK
    <3>2. \A k \in 1 .. Len(frames'[u]) :
            frames'[u][k].at # "ended" => frames'[u][k].ptr \in LivePtrs'
      BY <1>7, <1>8, <1>14, <1>21, <3>0 DEF DanglingOK
    <3>3. At(u, "ended")' => ParallelPtr(Region(u))' \in LivePtrs'
      <4>1. CASE u \in team
        BY <1>7, <1>19, <4>1 DEF At
      <4>2. CASE u \notin team
        BY <1>8, <1>21, <3>0, <4>2 DEF DanglingOK, At, InRegion, Frame, Region, ParallelPtr
      <4> QED BY <4>1, <4>2
    <3> QED BY <3>1, <3>2, <3>3 DEF DanglingOK
  <2> QED BY <2>1 DEF NoDangling, DanglingOK, Live, LivePtrs
<1>25. NoLeak'
  <2> SUFFICES ASSUME NEW d \in heap'
               PROVE  \/ d.ptr.owner = -1 /\ ~regions'[d.ptr.region].ended
                      \/ d.ptr.owner \in Threads
                           /\ \/ d.ptr \in late[d.ptr.owner]
                              \/ \E k \in 1 .. Len(frames'[d.ptr.owner]) :
                                   frames'[d.ptr.owner][k].ptr = d.ptr
    BY <1>1 DEF NoLeak
  <2>1. CASE d = new
    BY <1>d, <1>4, <1>6, <1>9, <2>1
  <2>2. CASE d \in heap
    <3>1. \/ d.ptr.owner = -1 /\ ~regions[d.ptr.region].ended
          \/ d.ptr.owner \in Threads
               /\ \/ d.ptr \in late[d.ptr.owner]
                  \/ \E k \in 1 .. Len(frames[d.ptr.owner]) :
                       frames[d.ptr.owner][k].ptr = d.ptr
      BY <2>2 DEF CoreInv, NoLeak
    <3>2. d.ptr.region \in 1 .. Len(regions)
      BY <2>2 DEF CoreInv, HeapInv
    <3>3. \A u \in Threads : \A k \in 1 .. Len(frames[u]) :
            k \in 1 .. Len(frames'[u]) /\ frames'[u][k] = frames[u][k]
      <4> SUFFICES ASSUME NEW u \in Threads, NEW k \in 1 .. Len(frames[u])
                   PROVE  k \in 1 .. Len(frames'[u])
        BY <1>8
      <4>1. Len(frames[u]) \in Nat
        BY <1>1, FrameTypes
      <4>2. Len(frames'[u]) = Len(frames[u]) \/ Len(frames'[u]) = Len(frames[u]) + 1
        BY <1>8
      <4> QED BY <4>1, <4>2
    <3> QED BY <1>9, <3>1, <3>2, <3>3
  <2> QED BY <1>1, <2>1, <2>2
<1> QED BY <1>10, <1>17, <1>18, <1>20, <1>22, <1>23, <1>24, <1>25 DEF CoreInv

-----------------------------------------------------------------------------
LEMMA InitCore == Init => CoreInv
<1> SUFFICES ASSUME Init PROVE CoreInv
  OBVIOUS
<1>1. program \in Programs /\ program.regions \in Nat
  BY ThreadsAssumption DEF Init
<1>2. /\ regions = << >> /\ Len(regions) = 0 /\ heap = {}
      /\ \A t \in Threads : /\ frames[t] = << >> /\ Len(frames[t]) = 0 /\ late[t] = {}
                            /\ status[t] = 0 /\ ~InRegion(t)
  BY DEF Init, InRegion
<1>3. Types
  <2>1. regions \in Seq(RegionRecords) /\ Len(regions) <= program.regions
    BY <1>1, <1>2
  <2>2. frames \in [Threads -> Seq(Frames)] /\ late \in [Threads -> SUBSET Ptrs]
        /\ status \in [Threads -> Int]
    BY DEF Init
  <2>3. arrived \in [1 .. program.regions -> [Threads -> Nat]]
    BY DEF Init
  <2> QED BY <1>1, <2>1, <2>2, <2>3 DEF Types
<1>4. FramesInv /\ NestInv
  BY <1>2 DEF FramesInv, NestInv
<1>5. RegionsInv
  BY <1>1, <1>2 DEF RegionsInv, Init
<1>6. LateInv /\ StatusInv /\ FreedInv
  BY <1>2 DEF LateInv, LateOK, StatusInv, StatusOK, FreedInv, FreedOK, At
<1>7. HeapInv /\ NoDangling /\ NoLeak
  BY <1>2 DEF HeapInv, NoDangling, NoLeak, At
<1> QED BY <1>3, <1>4, <1>5, <1>6, <1>7 DEF CoreInv

LEMMA CoreStep == CoreInv /\ [Next]_vars => CoreInv'
<1> SUFFICES ASSUME CoreInv, [Next]_vars PROVE CoreInv'
  OBVIOUS
<1>1. CASE UNCHANGED vars
  BY <1>1, CoreUnchanged DEF vars, openmp
<1>2. CASE Next
  <2>1. UNCHANGED program
    BY <1>2 DEF Next
  <2>2. PICK t \in Threads :
          \/ ThreadBegin(t)
          \/ StoreItem(t)
          \/ \E team \in SUBSET program.threads,
                requested \in 1 .. Cardinality(program.threads),
                barriers \in 0 .. program.barriers :
               ParallelBegin(t, team, requested, barriers)
          \/ ImplicitTaskBegin(t)
          \/ ArriveAtBarrier(t)
          \/ Taskwait(t)
          \/ LeaveBarrier(t)
          \/ ImplicitTaskEndMaster(t)
          \/ ImplicitTaskEndWorker(t)
          \/ ParallelEnd(t)
    BY <1>2 DEF Next
  <2>3. CASE ThreadBegin(t)
    BY <2>1, <2>3, CoreUnchanged DEF ThreadBegin, openmp
  <2>4. CASE StoreItem(t)
    BY <2>1, <2>4, CoreUnchanged DEF StoreItem, openmp
  <2>5. CASE Taskwait(t)
    BY <2>1, <2>5, CoreUnchanged DEF Taskwait
  <2>6. CASE \E team \in SUBSET program.threads,
                requested \in 1 .. Cardinality(program.threads),
                barriers \in 0 .. program.barriers :
               ParallelBegin(t, team, requested, barriers)
    BY <2>1, <2>6, ParallelBeginStep
  <2>7. CASE ImplicitTaskBegin(t)
    BY <2>1, <2>7, ImplicitTaskBeginStep
  <2>8. CASE ArriveAtBarrier(t)
    BY <2>1, <2>8, ArriveAtBarrierStep
  <2>9. CASE LeaveBarrier(t)
    BY <2>1, <2>9, LeaveBarrierStep
  <2>10. CASE ImplicitTaskEndMaster(t)
    BY <2>1, <2>10, ImplicitTaskEndMasterStep
  <2>11. CASE ImplicitTaskEndWorker(t)
    BY <2>1, <2>11, ImplicitTaskEndWorkerStep
  <2>12. CASE ParallelEnd(t)
    BY <2>1, <2>12, ParallelEndStep
  <2> QED BY <2>2, <2>3, <2>4, <2>5, <2>6, <2>7, <2>8, <2>9, <2>10, <2>11, <2>12
<1> QED BY <1>1, <1>2

(* The invariant of the callbacks: what the regions, tasks, counters and   *)
(* objects are to each other holds for every order of the callbacks.       *)
THEOREM Invariance == Spec => []CoreInv
  BY InitCore, CoreStep, PTL DEF Spec

(* While a thread runs code of the program its nesting counter             *)
(* __sword_status__ is the depth of the region it is in.                   *)
THEOREM CounterIsDepth == Spec => []StatusIsLevel
<1>1. CoreInv => StatusIsLevel
  BY RunningThread DEF StatusIsLevel
<1> QED BY <1>1, Invariance, PTL

(* No callback reads or frees a ParallelData object that is freed, and     *)
(* every object on the heap still has a callback to free it.               *)
THEOREM ObjectsAreExact == Spec => []ObjectsExact
<1>1. CoreInv => ObjectsExact
  BY DEF CoreInv, ObjectsExact
<1> QED BY <1>1, Invariance, PTL

(* Every dereference in the callbacks is of a live object, whose fields    *)
(* are those of the region it was made for: the data that end up in the    *)
(* meta file are of the right region.                                      *)
DerefsExact ==
  \A t \in Threads :
    /\ Running(t) /\ InRegion(t) =>
         /\ Live(Frame(t).ptr)
         /\ Deref(Frame(t).ptr).parallel_id = Region(t)
         /\ Deref(Frame(t).ptr).parent_parallel_id = regions[Region(t)].parent
         /\ Deref(Frame(t).ptr).level = Depth(t)
    /\ At(t, "begun") =>
         /\ Live(ParallelPtr(Region(t)))
         /\ Deref(ParallelPtr(Region(t))).parallel_id = Region(t)
         /\ Deref(ParallelPtr(Region(t))).parent_parallel_id = regions[Region(t)].parent
         /\ Deref(ParallelPtr(Region(t))).level = Depth(t)

LEMMA DerefsOfThreads == CoreInv => DerefsExact
<1> SUFFICES ASSUME CoreInv, NEW t \in Threads, InRegion(t),
                    Frame(t).at \in {"begun", "user"}
             PROVE  /\ Live(Frame(t).ptr)
                    /\ Deref(Frame(t).ptr).parallel_id = Region(t)
                    /\ Deref(Frame(t).ptr).parent_parallel_id = regions[Region(t)].parent
                    /\ Deref(Frame(t).ptr).level = Depth(t)
                    /\ At(t, "begun") => Frame(t).ptr = ParallelPtr(Region(t))
  BY DEF DerefsExact, Running, At
<1>p. PICK ptr : ptr = Frame(t).ptr
  OBVIOUS
<1>1. /\ Len(frames[t]) \in 1 .. Len(frames[t]) /\ Frame(t) = frames[t][Len(frames[t])]
      /\ DanglingOK(t)
  BY TopFrame, DanglingByThread DEF CoreInv
<1>2. FrameOK(t, Len(frames[t])) /\ ptr \in LivePtrs
  BY <1>p, <1>1 DEF CoreInv, FramesInv, DanglingOK
<1>3. ptr = IF Frame(t).at = "begun" THEN ParallelPtr(Region(t)) ELSE TaskPtr(Region(t), t)
  BY <1>p, <1>1, <1>2 DEF FrameOK, Region
<1>4. ptr.region = Region(t)
  BY <1>3 DEF ParallelPtr, TaskPtr
<1>5. Deref(ptr) = ObjectOf(ptr)
  BY <1>2, DerefLive DEF CoreInv
<1>6. Depth(t) = regions[Region(t)].level
  BY DEF Depth
<1>7. Live(ptr)
  BY <1>2 DEF Live, LivePtrs
<1> QED BY <1>p, <1>3, <1>4, <1>5, <1>6, <1>7 DEF ObjectOf, At

(* What the callbacks read through a pointer is right: the object is live  *)
(* and has the number, the parent and the level of the region.             *)
THEOREM DerefsAreExact == Spec => []DerefsExact
  BY DerefsOfThreads, Invariance, PTL

-----------------------------------------------------------------------------
(* The files.  The tid of a thread names a file of its own.                *)
LEMMA TidRange ==
  ASSUME FileInv
  PROVE  /\ IsFiniteSet(Begun) /\ Cardinality(Threads) \in Nat
         /\ ids \in Nat /\ ids <= Cardinality(Threads)
         /\ \A t \in Threads : tid[t] \notin Tids => t \notin Begun
         /\ \A t \in Threads : t \notin Begun => ids < Cardinality(Threads)
<1>1. IsFiniteSet(Threads) /\ Cardinality(Threads) \in Nat
  BY ThreadsAssumption, FS_CardinalityType
<1>2. PICK B : B = Begun
  OBVIOUS
<1>3. B \in SUBSET Threads
  BY <1>2 DEF Begun
<1>4. /\ IsFiniteSet(B) /\ Cardinality(B) <= Cardinality(Threads)
      /\ Cardinality(Threads) = Cardinality(B) => Threads = B
  BY <1>1, <1>3, FS_Subset
<1>5. Cardinality(B) \in Nat
  BY <1>4, FS_CardinalityType
<1>6. ids = Cardinality(B)
  BY <1>2 DEF FileInv, TidInv
<1>7. \A t \in Threads : tid[t] \notin Tids => t \notin Begun
  <2> SUFFICES ASSUME NEW t \in Threads, tid[t] # -1 PROVE tid[t] \in Tids
    BY DEF Begun
  <2>1. tid[t] \in 0 .. ids - 1
    BY DEF FileInv, TidInv
  <2> QED BY <1>1, <1>4, <1>5, <1>6, <2>1 DEF Tids
<1> QED BY <1>1, <1>2, <1>4, <1>5, <1>6, <1>7

(* A record ends the interval of the items since the last record.          *)
LEMMA Written ==
  ASSUME FileInv, NEW t \in Threads, tid[t] # -1,
         NEW data, data.parallel_id \in Nat, data.parent_parallel_id \in Nat,
         data.level \in Nat, NEW b \in Nat, NEW off \in Nat, NEW spn \in Nat,
         WriteRecord(t, data, b, off, spn), UNCHANGED <<items, tid, ids>>
  PROVE  /\ metafile' \in [Tids -> Seq(Records)] /\ TidInv'
         /\ Log(t)!Next
         /\ \A u \in Threads : u # t => UNCHANGED <<Len(items[u]), FileIntervals(u)>>
<1>i. PICK i : i = tid[t]
  OBVIOUS
<1>m. PICK m : m = metafile[i]
  OBVIOUS
<1>k. PICK mark : mark = Mark(t)
  OBVIOUS
<1>h. PICK hi : hi = Len(items[t])
  OBVIOUS
<1>c. PICK rec : rec = [pid |-> data.parallel_id, ppid |-> data.parent_parallel_id,
                        bid |-> b, offset |-> off, span |-> spn, level |-> data.level,
                        lo |-> mark, hi |-> hi]
  OBVIOUS
<1>1. metafile' = [metafile EXCEPT ![i] = Append(@, rec)]
  BY <1>i, <1>k, <1>h, <1>c DEF WriteRecord
<1>2. i \in Tids /\ t \in Begun /\ i \in 0 .. ids - 1 /\ ids \in Nat
  BY <1>i, TidRange DEF Begun, FileInv, TidInv
<1>3. metafile \in [Tids -> Seq(Records)] /\ m \in Seq(Records)
  BY <1>m, <1>2 DEF FileInv, FileTypes
<1>4. hi \in Nat
  BY <1>h DEF FileInv, FileTypes
<1>5. mark = IF m = << >> THEN 0 ELSE m[Len(m)].hi
  BY <1>i, <1>m, <1>k DEF Mark
<1>6. mark \in Nat
  <2>1. CASE m = << >>
    BY <1>5, <2>1
  <2>2. CASE m # << >>
    <3>1. Len(m) \in 1 .. Len(m)
      BY <1>3, <2>2
    <3>2. m[Len(m)] \in Records
      BY <1>3, <3>1, ElementOfSeq
    <3> QED BY <1>5, <2>2, <3>2 DEF Records
  <2> QED BY <2>1, <2>2
<1>7. rec \in Records /\ rec.lo = mark /\ rec.hi = hi
  BY <1>c, <1>4, <1>6 DEF Records
<1>8. /\ metafile' \in [Tids -> Seq(Records)] /\ metafile'[i] = Append(m, rec)
      /\ \A j \in Tids : j # i => metafile'[j] = metafile[j]
  BY <1>m, <1>1, <1>2, <1>3, <1>7
<1>9. TidInv'
  <2>1. Begun' = Begun
    BY DEF Begun
  <2>2. \A j \in Tids : j >= ids => j # i
    BY <1>2 DEF Tids
  <2> QED BY <1>8, <2>1, <2>2 DEF FileInv, TidInv
<1>10. ASSUME NEW u \in Threads, u # t
       PROVE  UNCHANGED <<Len(items[u]), FileIntervals(u)>>
  <2>1. tid[u] # -1 => tid[u] \in Tids /\ tid[u] # i
    BY <1>i, <1>2, <1>10, TidRange DEF Begun, FileInv, TidInv
  <2>2. FileIntervals(u)' = FileIntervals(u)
    BY <1>8, <2>1 DEF FileIntervals
  <2> QED BY <2>2
<1>11. Log(t)!Next
  <2>f. PICK F : F = [k \in 1 .. Len(m) |-> [lo |-> m[k].lo, hi |-> m[k].hi]]
    OBVIOUS
  <2>a. PICK a : a = Append(m, rec)
    OBVIOUS
  <2>1. FileIntervals(t) = F
    BY <1>i, <1>m, <2>f DEF FileIntervals
  <2>2. FileIntervals(t)' = [k \in 1 .. Len(a) |-> [lo |-> a[k].lo, hi |-> a[k].hi]]
    BY <1>i, <1>8, <2>a DEF FileIntervals
  <2>3. /\ Len(a) = Len(m) + 1 /\ a[Len(m) + 1] = rec /\ Len(m) \in Nat
        /\ \A k \in 1 .. Len(m) : a[k] = m[k]
    BY <1>3, <1>7, <2>a, AppendProperties
  <2>4. \A k \in 1 .. Len(m) : m[k] \in Records /\ m[k].lo \in Nat /\ m[k].hi \in Nat
    <3>1. \A k \in 1 .. Len(m) : m[k] \in Records
      BY <1>3, ElementOfSeq
    <3>2. \A x \in Records : x.lo \in Nat /\ x.hi \in Nat
      BY DEF Records
    <3> QED BY <3>1, <3>2
  <2>5. F \in Seq([lo : Nat, hi : Nat]) /\ Len(F) = Len(m)
    BY <2>f, <2>3, <2>4
  <2>6. Append(F, [lo |-> mark, hi |-> hi])
          = [k \in 1 .. Len(m) + 1 |-> IF k = Len(m) + 1 THEN [lo |-> mark, hi |-> hi] ELSE F[k]]
    BY <1>4, <1>6, <2>5
  <2>7. [k \in 1 .. Len(a) |-> [lo |-> a[k].lo, hi |-> a[k].hi]]
          = [k \in 1 .. Len(m) + 1 |-> IF k = Len(m) + 1 THEN [lo |-> mark, hi |-> hi] ELSE F[k]]
    <3>1. ASSUME NEW k \in 1 .. Len(m) + 1
          PROVE  [lo |-> a[k].lo, hi |-> a[k].hi]
                   = IF k = Len(m) + 1 THEN [lo |-> mark, hi |-> hi] ELSE F[k]
      <4>1. CASE k = Len(m) + 1
        BY <1>7, <2>3, <4>1
      <4>2. CASE k \in 1 .. Len(m)
        <5>1. k # Len(m) + 1 /\ a[k] = m[k]
          BY <2>3, <4>2
        <5> QED BY <2>f, <4>2, <5>1
      <4> QED BY <2>3, <4>1, <4>2
    <3> QED BY <2>3, <3>1
  <2>8. mark = IF F = << >> THEN 0 ELSE F[Len(F)].hi
    <3>1. F = << >> <=> m = << >>
      BY <1>3, <2>5, EmptySeq
    <3>2. m # << >> => Len(m) \in 1 .. Len(m)
      BY <1>3
    <3>3. m # << >> => F[Len(m)].hi = m[Len(m)].hi
      BY <2>f, <3>2
    <3> QED BY <1>5, <2>5, <3>1, <3>3
  <2>9. FileIntervals(t)' = Append(FileIntervals(t), [lo |-> mark, hi |-> Len(items[t])])
    BY <1>h, <2>1, <2>2, <2>6, <2>7
  <2>10. mark = IF FileIntervals(t) = << >> THEN 0
                ELSE FileIntervals(t)[Len(FileIntervals(t))].hi
    BY <2>1, <2>8
  <2> QED BY <2>9, <2>10 DEF Log!Next, Log!Cut, Log!LastCut
<1> QED BY <1>8, <1>9, <1>10, <1>11

LEMMA FilesKept ==
  ASSUME FileInv, UNCHANGED <<tid, ids, items, metafile>>
  PROVE  TidInv' /\ \A u \in Threads : UNCHANGED <<Len(items[u]), FileIntervals(u)>>
  BY DEF FileInv, TidInv, Begun, FileIntervals

(* The data a thread in a region finds through its pointer.                *)
LEMMA DataTypes ==
  ASSUME CoreInv, NEW t \in Threads, InRegion(t), Frame(t).at \in {"begun", "user"}
  PROVE  /\ Deref(Frame(t).ptr).parallel_id \in Nat
         /\ Deref(Frame(t).ptr).parent_parallel_id \in Nat
         /\ Deref(Frame(t).ptr).level \in Nat
         /\ At(t, "begun") => Frame(t).ptr = ParallelPtr(Region(t))
         /\ Region(t) \in 1 .. Len(regions)
<1>1. /\ Len(frames[t]) \in 1 .. Len(frames[t]) /\ Frame(t) = frames[t][Len(frames[t])]
      /\ Types
  BY TopFrame DEF CoreInv
<1>2. FrameOK(t, Len(frames[t]))
  BY <1>1 DEF CoreInv, FramesInv
<1>3. /\ Region(t) \in 1 .. Len(regions)
      /\ At(t, "begun") => Frame(t).ptr = ParallelPtr(Region(t))
  BY <1>1, <1>2 DEF FrameOK, Region, At
<1>4. /\ Region(t) \in Nat /\ regions[Region(t)].parent \in Nat
      /\ regions[Region(t)].level \in Nat /\ Depth(t) = regions[Region(t)].level
  BY <1>1, <1>3, RegionTypes DEF Depth
<1>5. /\ Deref(Frame(t).ptr).parallel_id = Region(t)
      /\ Deref(Frame(t).ptr).parent_parallel_id = regions[Region(t)].parent
      /\ Deref(Frame(t).ptr).level = Depth(t)
  <2>1. DerefsExact
    BY DerefsOfThreads
  <2>2. CASE Frame(t).at = "user"
    BY <2>1, <2>2 DEF DerefsExact, Running, At
  <2>3. CASE Frame(t).at = "begun"
    BY <1>3, <2>1, <2>3 DEF DerefsExact, At
  <2> QED BY <2>2, <2>3
<1> QED BY <1>3, <1>4, <1>5

LEMMA NumType ==
  ASSUME Types, NEW r \in 1 .. Len(regions), NEW t \in Threads
  PROVE  Num(r, t) \in Nat /\ Cardinality(regions[r].team) \in Nat
<1>1. PICK T : T = regions[r].team
  OBVIOUS
<1>2. PICK S : S = {u \in regions[r].team \ {regions[r].master} : u < t}
  OBVIOUS
<1>3. T \in SUBSET Threads /\ S \in SUBSET Threads
  BY <1>1, <1>2, RegionTypes
<1>4. IsFiniteSet(T) /\ IsFiniteSet(S)
  BY <1>3, ThreadsAssumption, FS_Subset
<1>5. Cardinality(T) \in Nat /\ Cardinality(S) \in Nat
  BY <1>4, FS_CardinalityType
<1> QED BY <1>1, <1>2, <1>5 DEF Num

(* The innermost frame of a thread with a tid changes.                     *)
LEMMA BegunMoves ==
  ASSUME CoreInv, FileInv, NEW t \in Threads, InRegion(t), tid[t] # -1, UNCHANGED tid,
         \/ LeaveRegion(t)
         \/ \E g \in Frames : SetTop(t, g)
  PROVE  BegunInv'
<1>1. Types
  BY DEF CoreInv
<1>2. \A u \in Threads : u # t => frames'[u] = frames[u]
  <2>1. CASE LeaveRegion(t)
    BY <1>1, <2>1, TopLeft
  <2>2. ASSUME NEW g \in Frames, SetTop(t, g) PROVE \A u \in Threads : u # t => frames'[u] = frames[u]
    BY <1>1, <2>2, TopSet
  <2> QED BY <2>1, <2>2
<1> QED BY <1>2 DEF FileInv, BegunInv

(* A thread past the begin of its task has a tid.                          *)
LEMMA HasTid ==
  ASSUME CoreInv, FileInv, NEW t \in Threads, InRegion(t), Frame(t).at # "begun"
  PROVE  tid[t] # -1
<1>1. Len(frames[t]) \in 1 .. Len(frames[t]) /\ Frame(t) = frames[t][Len(frames[t])]
  BY TopFrame DEF CoreInv
<1> QED BY <1>1 DEF FileInv, BegunInv

(* What the steps owe to the files.                                        *)
LogsStep ==
  \A t \in Threads : Log(t)!Next \/ UNCHANGED <<Len(items[t]), FileIntervals(t)>>

LEMMA ThreadBeginFiles ==
  ASSUME CoreInv, FileInv, NEW t \in Threads, ThreadBegin(t)
  PROVE  FileInv' /\ LogsStep
<1>i. PICK i : i = ids
  OBVIOUS
<1>b. PICK B : B = Begun
  OBVIOUS
<1>1. /\ tid[t] = -1 /\ tid' = [tid EXCEPT ![t] = i] /\ ids' = i + 1
      /\ offset' = [offset EXCEPT ![t] = 0] /\ span' = [span EXCEPT ![t] = 0]
      /\ UNCHANGED <<bid, items, metafile, frames>>
  BY <1>i DEF ThreadBegin, files, openmp
<1>2. /\ IsFiniteSet(B) /\ i \in Nat /\ Cardinality(Threads) \in Nat
      /\ i < Cardinality(Threads) /\ t \notin B
  BY <1>i, <1>b, <1>1, TidRange DEF Begun
<1>3. i \in Tids
  BY <1>2 DEF Tids
<1>4. /\ tid' \in [Threads -> Int] /\ tid'[t] = i /\ i # -1
      /\ \A u \in Threads : u # t => tid'[u] = tid[u]
  BY <1>1, <1>2 DEF FileInv, FileTypes
<1>5. Begun' = B \cup {t}
  BY <1>b, <1>4 DEF Begun
<1>6. FileTypes'
  BY <1>1, <1>4 DEF FileInv, FileTypes, Tids
<1>7. TidInv'
  <2>1. ids' = Cardinality(Begun')
    <3>1. Cardinality(B \cup {t}) = Cardinality(B) + 1
      BY <1>2, FS_AddElement
    <3> QED BY <1>i, <1>b, <1>1, <1>5, <3>1 DEF FileInv, TidInv
  <2>2. \A u \in Threads : u # t => tid[u] = -1 \/ tid[u] \in 0 .. i - 1
    BY <1>i DEF FileInv, TidInv
  <2>3. \A u \in Threads : tid'[u] = -1 \/ tid'[u] \in 0 .. ids' - 1
    BY <1>1, <1>2, <1>4, <2>2
  <2>4. ASSUME NEW u \in Begun', NEW v \in Begun', tid'[u] = tid'[v] PROVE u = v
    <3>1. u \in Threads /\ v \in Threads /\ (u # t => u \in B) /\ (v # t => v \in B)
      BY <1>5 DEF Begun
    <3>2. \A w \in Threads : w \in B => tid[w] # i
      BY <1>b, <1>i, <1>2 DEF FileInv, TidInv, Begun
    <3>3. CASE u # t /\ v # t
      BY <1>b, <1>4, <2>4, <3>1, <3>3 DEF FileInv, TidInv
    <3>4. CASE u = t \/ v = t
      BY <1>4, <2>4, <3>1, <3>2, <3>4
    <3> QED BY <3>3, <3>4
  <2>5. \A j \in Tids : j >= ids' => metafile'[j] = << >>
    <3>1. \A j \in Tids : j >= i + 1 => j >= i
      BY <1>2 DEF Tids
    <3> QED BY <1>i, <1>1, <3>1 DEF FileInv, TidInv
  <2> QED BY <2>1, <2>3, <2>4, <2>5 DEF TidInv, Tids
<1>8. BegunInv'
  BY <1>1, <1>4 DEF FileInv, BegunInv
<1>9. ASSUME NEW u \in Threads PROVE UNCHANGED <<Len(items[u]), FileIntervals(u)>>
  <2>1. CASE u # t
    BY <1>1, <1>4, <2>1 DEF FileIntervals
  <2>2. CASE u = t
    <3>1. metafile'[i] = << >> /\ Len(metafile'[i]) = 0
      BY <1>i, <1>1, <1>2, <1>3 DEF FileInv, TidInv
    <3>2. FileIntervals(u)' = << >>
      BY <1>4, <2>2, <3>1 DEF FileIntervals
    <3>3. FileIntervals(u) = << >>
      BY <1>1, <2>2 DEF FileIntervals
    <3> QED BY <1>1, <3>2, <3>3
  <2> QED BY <2>1, <2>2
<1> QED BY <1>6, <1>7, <1>8, <1>9 DEF FileInv, LogsStep

LEMMA StoreItemFiles ==
  ASSUME CoreInv, FileInv, NEW t \in Threads, StoreItem(t)
  PROVE  FileInv' /\ LogsStep
<1>p. PICK place : place = Place(t)
  OBVIOUS
<1>1. /\ Running(t) /\ items' = [items EXCEPT ![t] = Append(@, place)]
      /\ UNCHANGED <<frames, ids, tid, bid, offset, span, metafile>>
  BY <1>p DEF StoreItem, openmp, labels
<1>2. place \in [region : Nat, phase : Nat]
  <2>1. Place(t).region \in Nat
    BY <1>1, RunningThread
  <2>2. Place(t).phase \in Nat
    <3>1. InRegion(t) => Frame(t) \in Frames
      BY TopFrame DEF CoreInv
    <3> QED BY <3>1 DEF Place, Frames
  <2> QED BY <1>p, <2>1, <2>2 DEF Place
<1>3. /\ items' \in [Threads -> Seq([region : Nat, phase : Nat])]
      /\ Len(items'[t]) = Len(items[t]) + 1
      /\ \A u \in Threads : u # t => items'[u] = items[u]
  <2>1. items \in [Threads -> Seq([region : Nat, phase : Nat])]
    BY DEF FileInv, FileTypes
  <2>2. PICK s : s = items[t]
    OBVIOUS
  <2>3. /\ Append(s, place) \in Seq([region : Nat, phase : Nat])
        /\ Len(Append(s, place)) = Len(s) + 1
    BY <1>2, <2>1, <2>2, AppendProperties
  <2> QED BY <1>1, <2>1, <2>2, <2>3
<1>4. FileInv'
  BY <1>1, <1>3 DEF FileInv, FileTypes, TidInv, Begun, BegunInv, Tids
<1>5. \A u \in Threads : FileIntervals(u)' = FileIntervals(u)
  BY <1>1 DEF FileIntervals
<1>6. Log(t)!Next
  BY <1>3, <1>5 DEF Log!Next, Log!Store
<1> QED BY <1>3, <1>4, <1>5, <1>6 DEF LogsStep

LEMMA ImplicitTaskBeginFiles ==
  ASSUME CoreInv, FileInv, NEW t \in Threads, ImplicitTaskBegin(t)
  PROVE  FileInv' /\ LogsStep
<1>r. PICK r : r = Region(t)
  OBVIOUS
<1>d. PICK data : data = Deref(ParallelPtr(r))
  OBVIOUS
<1>s. PICK size : size = Cardinality(regions[r].team)
  OBVIOUS
<1>m. PICK num : num = Num(r, t)
  OBVIOUS
<1>1. /\ At(t, "begun") /\ InRegion(t) /\ Frame(t).at = "begun" /\ tid[t] # -1 /\ Types
      /\ UNCHANGED <<ids, tid, items>>
      /\ \/ /\ bid' = [bid EXCEPT ![t] = 0] /\ WriteRecord(t, data, 0, num, size)
            /\ \/ /\ offset' = [offset EXCEPT ![t] = num]
                  /\ span' = [span EXCEPT ![t] = size]
               \/ UNCHANGED <<offset, span>>
         \/ UNCHANGED <<bid, offset, span, metafile>>
  BY <1>r, <1>d, <1>s, <1>m DEF ImplicitTaskBegin, At, CoreInv, labels
<1>2. /\ data.parallel_id \in Nat /\ data.parent_parallel_id \in Nat /\ data.level \in Nat
      /\ r \in 1 .. Len(regions)
  BY <1>r, <1>d, <1>1, DataTypes
<1>3. size \in Nat /\ num \in Nat
  BY <1>s, <1>m, <1>1, <1>2, NumType
<1>4. /\ bid' \in [Threads -> Nat] /\ offset' \in [Threads -> Nat]
      /\ span' \in [Threads -> Nat]
  <2>1. bid \in [Threads -> Nat] /\ offset \in [Threads -> Nat] /\ span \in [Threads -> Nat]
    BY DEF FileInv, FileTypes
  <2>2. bid' \in [Threads -> Nat]
    BY <1>1, <2>1
  <2>3. offset' \in [Threads -> Nat]
    BY <1>1, <1>3, <2>1
  <2>4. span' \in [Threads -> Nat]
    BY <1>1, <1>3, <2>1
  <2> QED BY <2>2, <2>3, <2>4
<1>5. metafile' \in [Tids -> Seq(Records)] /\ TidInv' /\ LogsStep
  <2>1. CASE WriteRecord(t, data, 0, num, size)
    BY <1>1, <1>2, <1>3, <2>1, Written DEF LogsStep
  <2>2. CASE UNCHANGED metafile
    BY <1>1, <2>2, FilesKept DEF LogsStep, FileInv, FileTypes
  <2> QED BY <1>1, <2>1, <2>2
<1>6. BegunInv'
  <2>1. PICK g : g = [Frame(t) EXCEPT !.at = "user", !.ptr = TaskPtr(r, t)]
    OBVIOUS
  <2>2. Len(frames[t]) \in 1 .. Len(frames[t]) /\ Frame(t) = frames[t][Len(frames[t])]
        /\ Frame(t) \in Frames
    BY <1>1, TopFrame
  <2>3. TaskPtr(r, t) \in Ptrs
    BY <1>1, <1>2, RegionTypes DEF TaskPtr, Ptrs
  <2>4. g \in Frames
    BY <2>1, <2>2, <2>3 DEF Frames
  <2>5. SetTop(t, g)
    BY <1>r, <1>1, <2>1, <2>2 DEF SetTop, ImplicitTaskBegin, Types
  <2> QED BY <1>1, <2>4, <2>5, BegunMoves
<1> QED BY <1>1, <1>4, <1>5, <1>6 DEF FileInv, FileTypes, Tids

(* The record of a barrier or a taskwait.                                  *)
LEMMA SyncRegionFiles ==
  ASSUME CoreInv, FileInv, NEW t \in Threads, At(t, "user"), SyncRegion(t),
         UNCHANGED <<ids, tid, items, offset, span>>
  PROVE  FileTypes' /\ TidInv' /\ LogsStep
<1>d. PICK data : data = Deref(Frame(t).ptr)
  OBVIOUS
<1>b. PICK b : b = bid[t]
  OBVIOUS
<1>o. PICK off : off = offset[t]
  OBVIOUS
<1>s. PICK spn : spn = span[t]
  OBVIOUS
<1>1. /\ WriteRecord(t, data, b, off, spn) /\ bid' = [bid EXCEPT ![t] = @ + 1]
  BY <1>d, <1>b, <1>o, <1>s DEF SyncRegion
<1>2. b \in Nat /\ off \in Nat /\ spn \in Nat /\ bid' \in [Threads -> Nat]
  BY <1>b, <1>o, <1>s, <1>1 DEF FileInv, FileTypes
<1>3. InRegion(t) /\ Frame(t).at = "user"
  BY DEF At
<1>4. data.parallel_id \in Nat /\ data.parent_parallel_id \in Nat /\ data.level \in Nat
  BY <1>d, <1>3, DataTypes
<1>5. tid[t] # -1
  BY <1>3, HasTid
<1>6. metafile' \in [Tids -> Seq(Records)] /\ TidInv' /\ LogsStep
  BY <1>1, <1>2, <1>4, <1>5, Written DEF LogsStep
<1> QED BY <1>2, <1>6 DEF FileInv, FileTypes, Tids

LEMMA ArriveAtBarrierFiles ==
  ASSUME CoreInv, FileInv, NEW t \in Threads, ArriveAtBarrier(t)
  PROVE  FileInv' /\ LogsStep
<1>1. /\ At(t, "user") /\ InRegion(t) /\ Frame(t).at = "user" /\ SyncRegion(t)
      /\ MoveTo(t, "barrier") /\ UNCHANGED <<ids, tid, items, offset, span>> /\ Types
  BY DEF ArriveAtBarrier, At, CoreInv, labels
<1>2. FileTypes' /\ TidInv' /\ LogsStep
  BY <1>1, SyncRegionFiles
<1>3. BegunInv'
  <2>1. PICK g : g = [Frame(t) EXCEPT !.at = "barrier"]
    OBVIOUS
  <2>2. g \in Frames
    BY <1>1, <2>1, TopFrame DEF Frames
  <2>3. SetTop(t, g)
    BY <1>1, <2>1, MoveIsSetTop
  <2>4. tid[t] # -1
    BY <1>1, HasTid
  <2> QED BY <1>1, <2>2, <2>3, <2>4, BegunMoves
<1> QED BY <1>2, <1>3 DEF FileInv

LEMMA TaskwaitFiles ==
  ASSUME CoreInv, FileInv, NEW t \in Threads, Taskwait(t)
  PROVE  FileInv' /\ LogsStep
<1>1. /\ At(t, "user") /\ SyncRegion(t)
      /\ UNCHANGED <<ids, tid, items, offset, span, frames>>
  BY DEF Taskwait, labels
<1>2. FileTypes' /\ TidInv' /\ LogsStep
  BY <1>1, SyncRegionFiles
<1>3. BegunInv'
  BY <1>1 DEF FileInv, BegunInv
<1> QED BY <1>2, <1>3 DEF FileInv

(* The steps that write no record.                                         *)
LEMMA NoRecord ==
  ASSUME FileInv, BegunInv', UNCHANGED <<ids, tid, items, metafile, bid, offset, span>>
  PROVE  FileInv' /\ LogsStep
<1>1. TidInv' /\ LogsStep
  BY FilesKept DEF LogsStep
<1> QED BY <1>1 DEF FileInv, FileTypes, Tids

LEMMA LeaveBarrierFiles ==
  ASSUME CoreInv, FileInv, NEW t \in Threads, LeaveBarrier(t)
  PROVE  FileInv' /\ LogsStep
<1>1. /\ InRegion(t) /\ Frame(t).at = "barrier" /\ Types
      /\ UNCHANGED <<ids, tid, items, metafile, bid, offset, span>>
  BY DEF LeaveBarrier, At, CoreInv, labels, files
<1>2. /\ Len(frames[t]) \in 1 .. Len(frames[t]) /\ Frame(t) = frames[t][Len(frames[t])]
      /\ Frame(t) \in Frames /\ tid[t] # -1
  BY <1>1, TopFrame, HasTid
<1>3. BegunInv'
  <2>1. CASE LeaveRegion(t)
    BY <1>1, <1>2, <2>1, BegunMoves
  <2>2. CASE MoveTo(t, "joined")
    <3>1. PICK g : g = [Frame(t) EXCEPT !.at = "joined"]
      OBVIOUS
    <3>2. g \in Frames
      BY <1>2, <3>1 DEF Frames
    <3>3. SetTop(t, g)
      BY <1>1, <2>2, <3>1, MoveIsSetTop
    <3> QED BY <1>1, <1>2, <3>2, <3>3, BegunMoves
  <2>3. CASE frames' = [frames EXCEPT ![t][Len(frames[t])].at = "user",
                                      ![t][Len(frames[t])].phase = @ + 1]
    <3>f. PICK f : f = Frame(t)
      OBVIOUS
    <3>1. PICK g : g = [f EXCEPT !.at = "user", !.phase = f.phase + 1]
      OBVIOUS
    <3>2. f \in Frames /\ f.phase \in Nat /\ f.phase + 1 \in Nat
      BY <1>2, <3>f DEF Frames
    <3>3. g \in Frames
      BY <3>1, <3>2 DEF Frames
    <3>4. SetTop(t, g)
      BY <1>1, <1>2, <2>3, <3>f, <3>1 DEF SetTop, Types
    <3> QED BY <1>1, <1>2, <3>3, <3>4, BegunMoves
  <2> QED BY <2>1, <2>2, <2>3 DEF LeaveBarrier
<1> QED BY <1>1, <1>3, NoRecord

LEMMA TaskEndFiles ==
  ASSUME CoreInv, FileInv, NEW t \in Threads,
         ImplicitTaskEndMaster(t) \/ ImplicitTaskEndWorker(t) \/ ParallelEnd(t)
  PROVE  FileInv' /\ LogsStep
<1>0. Types /\ UNCHANGED <<ids, tid, items, metafile, bid, offset, span>>
  BY DEF ImplicitTaskEndMaster, ImplicitTaskEndWorker, ParallelEnd, CoreInv, labels, files
<1>1. CASE ImplicitTaskEndMaster(t)
  <2>1. InRegion(t) /\ Frame(t).at = "joined" /\ MoveTo(t, "ended")
    BY <1>1 DEF ImplicitTaskEndMaster, At
  <2>2. PICK g : g = [Frame(t) EXCEPT !.at = "ended"]
    OBVIOUS
  <2>3. g \in Frames
    BY <1>0, <2>1, <2>2, TopFrame DEF Frames
  <2>4. SetTop(t, g) /\ tid[t] # -1
    BY <1>0, <2>1, <2>2, MoveIsSetTop, HasTid
  <2>5. BegunInv'
    BY <1>0, <2>1, <2>3, <2>4, BegunMoves
  <2> QED BY <1>0, <2>5, NoRecord
<1>2. CASE ImplicitTaskEndWorker(t)
  <2>1. BegunInv'
    BY <1>0, <1>2 DEF ImplicitTaskEndWorker, FileInv, BegunInv
  <2> QED BY <1>0, <2>1, NoRecord
<1>3. CASE ParallelEnd(t)
  <2>1. InRegion(t) /\ Frame(t).at = "ended" /\ LeaveRegion(t)
    BY <1>3 DEF ParallelEnd, At
  <2>2. tid[t] # -1
    BY <2>1, HasTid
  <2>3. BegunInv'
    BY <1>0, <2>1, <2>2, BegunMoves
  <2> QED BY <1>0, <2>3, NoRecord
<1> QED BY <1>1, <1>2, <1>3

LEMMA ParallelBeginFiles ==
  ASSUME CoreInv, FileInv, NEW t \in Threads, NEW team \in SUBSET program.threads,
         NEW requested \in 1 .. Cardinality(program.threads),
         NEW barriers \in 0 .. program.barriers,
         ParallelBegin(t, team, requested, barriers)
  PROVE  FileInv' /\ LogsStep
<1>r. PICK r : r = Len(regions) + 1
  OBVIOUS
<1>g. PICK g : g = [region |-> r, phase |-> 0, at |-> "begun", ptr |-> ParallelPtr(r)]
  OBVIOUS
<1>n. PICK num : num = OmpThreadNum(t)
  OBVIOUS
<1>1. /\ Running(t) /\ Types /\ UNCHANGED <<ids, tid, items, metafile, bid>>
      /\ frames' = [u \in Threads |-> IF u \in team THEN Append(frames[u], g) ELSE frames[u]]
      /\ \/ /\ offset' = [offset EXCEPT ![t] = IF span[t] # 0 THEN @ + span[t]
                                               ELSE num + requested]
            /\ span' = [span EXCEPT ![t] = requested]
         \/ UNCHANGED <<offset, span>>
  BY <1>r, <1>g, <1>n DEF ParallelBegin, CoreInv, labels, files
<1>2. requested \in Nat /\ team \in SUBSET Threads
  <2>1. program.threads \in SUBSET Threads /\ IsFiniteSet(Threads)
    BY <1>1, ThreadsAssumption DEF Types
  <2>2. PICK T : T = program.threads
    OBVIOUS
  <2>3. IsFiniteSet(T)
    BY <2>1, <2>2, FS_Subset
  <2>4. Cardinality(T) \in Nat
    BY <2>3, FS_CardinalityType
  <2> QED BY <2>1, <2>2, <2>4
<1>3. num \in Nat
  <2>1. InRegion(t) => Region(t) \in 1 .. Len(regions)
    BY <1>1, RunningThread
  <2>2. \A q \in 1 .. Len(regions) : Num(q, t) \in Nat
    BY <1>1, NumType
  <2> QED BY <1>n, <2>1, <2>2 DEF OmpThreadNum
<1>4. offset' \in [Threads -> Nat] /\ span' \in [Threads -> Nat]
  <2>1. offset[t] \in Nat /\ span[t] \in Nat /\ offset[t] + span[t] \in Nat
        /\ num + requested \in Nat
    BY <1>2, <1>3 DEF FileInv, FileTypes
  <2>2. offset \in [Threads -> Nat] /\ span \in [Threads -> Nat]
    BY DEF FileInv, FileTypes
  <2> QED BY <1>1, <1>2, <2>1, <2>2
<1>5. g \in Frames /\ g.at = "begun"
  <2>1. r \in Nat
    BY <1>r, <1>1, RegionTypes
  <2> QED BY <1>g, <2>1 DEF Frames, ParallelPtr, Ptrs
<1>6. BegunInv'
  <2> SUFFICES ASSUME NEW u \in Threads, NEW k \in 1 .. Len(frames'[u]),
                      frames'[u][k].at # "begun"
               PROVE  tid'[u] # -1
    BY DEF BegunInv
  <2>1. /\ u \notin team => frames'[u] = frames[u]
        /\ u \in team => /\ Len(frames'[u]) = Len(frames[u]) + 1
                         /\ frames'[u][Len(frames[u]) + 1] = g
        /\ \A j \in 1 .. Len(frames[u]) : frames'[u][j] = frames[u][j]
    BY <1>1, <1>2, <1>5, TeamStarts
  <2>2. Len(frames[u]) \in Nat
    BY <1>1, FrameTypes
  <2>3. k \in 1 .. Len(frames[u]) \/ (u \in team /\ k = Len(frames[u]) + 1)
    BY <2>1, <2>2
  <2> QED BY <1>1, <1>5, <2>1, <2>3 DEF FileInv, BegunInv
<1>7. TidInv' /\ LogsStep
  BY <1>1, FilesKept DEF LogsStep
<1> QED BY <1>1, <1>4, <1>6, <1>7 DEF FileInv, FileTypes, Tids

LEMMA InitFiles == Init => FileInv
<1> SUFFICES ASSUME Init PROVE FileInv
  OBVIOUS
<1>1. FileTypes
  BY DEF Init, FileTypes
<1>2. /\ Begun = {} /\ \A t \in Threads : tid[t] = -1 /\ frames[t] = << >>
      /\ \A i \in Tids : metafile[i] = << >>
  BY DEF Init, Begun
<1>3. ids = Cardinality(Begun)
  BY <1>2, FS_EmptySet DEF Init
<1>4. TidInv /\ BegunInv
  BY <1>2, <1>3 DEF TidInv, BegunInv
<1> QED BY <1>1, <1>4 DEF FileInv

LEMMA FileStep == CoreInv /\ FileInv /\ [Next]_vars => FileInv' /\ [LogsStep]_vars
<1> SUFFICES ASSUME CoreInv, FileInv, [Next]_vars PROVE FileInv' /\ [LogsStep]_vars
  OBVIOUS
<1>1. CASE UNCHANGED vars
  <2>1. UNCHANGED <<frames, ids, tid, items, metafile, bid, offset, span>>
    BY <1>1 DEF vars, openmp, labels, files
  <2>2. BegunInv'
    BY <2>1 DEF FileInv, BegunInv
  <2> QED BY <1>1, <2>1, <2>2, NoRecord
<1>2. CASE Next
  <2>1. PICK t \in Threads :
          \/ ThreadBegin(t)
          \/ StoreItem(t)
          \/ \E team \in SUBSET program.threads,
                requested \in 1 .. Cardinality(program.threads),
                barriers \in 0 .. program.barriers :
               ParallelBegin(t, team, requested, barriers)
          \/ ImplicitTaskBegin(t)
          \/ ArriveAtBarrier(t)
          \/ Taskwait(t)
          \/ LeaveBarrier(t)
          \/ ImplicitTaskEndMaster(t)
          \/ ImplicitTaskEndWorker(t)
          \/ ParallelEnd(t)
    BY <1>2 DEF Next
  <2>2. CASE ThreadBegin(t)
    BY <2>2, ThreadBeginFiles
  <2>3. CASE StoreItem(t)
    BY <2>3, StoreItemFiles
  <2>4. CASE \E team \in SUBSET program.threads,
                requested \in 1 .. Cardinality(program.threads),
                barriers \in 0 .. program.barriers :
               ParallelBegin(t, team, requested, barriers)
    BY <2>4, ParallelBeginFiles
  <2>5. CASE ImplicitTaskBegin(t)
    BY <2>5, ImplicitTaskBeginFiles
  <2>6. CASE ArriveAtBarrier(t)
    BY <2>6, ArriveAtBarrierFiles
  <2>7. CASE Taskwait(t)
    BY <2>7, TaskwaitFiles
  <2>8. CASE LeaveBarrier(t)
    BY <2>8, LeaveBarrierFiles
  <2>9. CASE ImplicitTaskEndMaster(t) \/ ImplicitTaskEndWorker(t) \/ ParallelEnd(t)
    BY <2>9, TaskEndFiles
  <2> QED BY <2>1, <2>2, <2>3, <2>4, <2>5, <2>6, <2>7, <2>8, <2>9
<1> QED BY <1>1, <1>2

(* No two threads share a tid, hence a file, and no thread without a tid   *)
(* is past the begin of a task, however thread_begin interleaves.          *)
THEOREM FilesInvariance == Spec => []FileInv
<1>1. Init => CoreInv /\ FileInv
  BY InitCore, InitFiles
<1>2. CoreInv /\ FileInv /\ [Next]_vars => (CoreInv /\ FileInv)'
  BY CoreStep, FileStep
<1> QED BY <1>1, <1>2, PTL DEF Spec

(* The files of every thread are the interval log of that thread: each     *)
(* step of the process is, for each thread, a step of IntervalLog or none  *)
(* at all.                                                                 *)
THEOREM FilesAreLogs == Spec => ThreadLogs
<1>1. Init => \A t \in Threads : Log(t)!Init
  BY DEF Init, Log!Init, FileIntervals
<1>2. CoreInv /\ FileInv /\ [Next]_vars =>
        [\A t \in Threads :
           Log(t)!Next \/ UNCHANGED <<Len(items[t]), FileIntervals(t)>>]_vars
  BY FileStep DEF LogsStep
<1> QED BY <1>1, <1>2, Invariance, FilesInvariance, PTL DEF Spec, ThreadLogs

-----------------------------------------------------------------------------
(* Ranges.  What the steps of a thread inside a region do to its frames.   *)
Moves(t) ==
  \/ ImplicitTaskBegin(t)
  \/ ArriveAtBarrier(t)
  \/ LeaveBarrier(t)
  \/ ImplicitTaskEndMaster(t)
  \/ ParallelEnd(t)

LEMMA MoveShape ==
  ASSUME CoreInv, NEW t \in Threads, Moves(t)
  PROVE  /\ InRegion(t)
         /\ LeaveRegion(t) \/ \E g \in Frames : SetTop(t, g) /\ g.region = Region(t)
<1>1. InRegion(t) /\ Types
  BY DEF Moves, ImplicitTaskBegin, ArriveAtBarrier, LeaveBarrier, ImplicitTaskEndMaster,
         ParallelEnd, At, CoreInv
<1>f. PICK f : f = Frame(t)
  OBVIOUS
<1>2. /\ Len(frames[t]) \in 1 .. Len(frames[t]) /\ f = frames[t][Len(frames[t])]
      /\ f \in Frames /\ f.region = Region(t) /\ f.region \in Nat /\ f.phase \in Nat
  BY <1>f, <1>1, TopFrame DEF Region, Frames
<1>3. ASSUME NEW place \in {"barrier", "joined", "ended"}, MoveTo(t, place)
      PROVE  \E g \in Frames : SetTop(t, g) /\ g.region = Region(t)
  <2>1. PICK g : g = [f EXCEPT !.at = place]
    OBVIOUS
  <2>2. g \in Frames /\ g.region = Region(t)
    BY <1>2, <2>1 DEF Frames
  <2>3. SetTop(t, g)
    BY <1>f, <1>1, <1>3, <2>1, MoveIsSetTop
  <2> QED BY <2>2, <2>3
<1>4. CASE ImplicitTaskBegin(t)
  <2>p. PICK ptr : ptr = TaskPtr(Region(t), t)
    OBVIOUS
  <2>1. PICK g : g = [f EXCEPT !.at = "user", !.ptr = ptr]
    OBVIOUS
  <2>2. ptr \in Ptrs
    BY <1>2, <2>p DEF TaskPtr, Ptrs
  <2>3. g \in Frames /\ g.region = Region(t)
    BY <1>2, <2>1, <2>2 DEF Frames
  <2>4. frames' = [frames EXCEPT ![t][Len(frames[t])].at = "user",
                                 ![t][Len(frames[t])].ptr = ptr]
    BY <1>4, <2>p DEF ImplicitTaskBegin
  <2>5. SetTop(t, g)
    BY <1>1, <1>2, <2>1, <2>4 DEF SetTop, Types
  <2> QED BY <1>1, <2>3, <2>5
<1>5. CASE ArriveAtBarrier(t)
  BY <1>1, <1>3, <1>5 DEF ArriveAtBarrier
<1>6. CASE LeaveBarrier(t)
  <2>1. CASE frames' = [frames EXCEPT ![t][Len(frames[t])].at = "user",
                                      ![t][Len(frames[t])].phase = @ + 1]
    <3>1. PICK g : g = [f EXCEPT !.at = "user", !.phase = f.phase + 1]
      OBVIOUS
    <3>2. f.phase + 1 \in Nat
      BY <1>2
    <3>3. g \in Frames /\ g.region = Region(t)
      BY <1>2, <3>1, <3>2 DEF Frames
    <3>4. SetTop(t, g)
      BY <1>1, <1>2, <2>1, <3>1 DEF SetTop, Types
    <3> QED BY <1>1, <3>3, <3>4
  <2>2. CASE MoveTo(t, "joined")
    BY <1>1, <1>3, <2>2
  <2>3. CASE LeaveRegion(t)
    BY <1>1, <2>3
  <2> QED BY <1>6, <2>1, <2>2, <2>3 DEF LeaveBarrier
<1>7. CASE ImplicitTaskEndMaster(t)
  BY <1>1, <1>3, <1>7 DEF ImplicitTaskEndMaster
<1>8. CASE ParallelEnd(t)
  BY <1>1, <1>8 DEF ParallelEnd
<1> QED BY <1>4, <1>5, <1>6, <1>7, <1>8 DEF Moves

(* No frame is new or of another region.                                   *)
LEMMA MoveFrames ==
  ASSUME CoreInv, NEW t \in Threads, Moves(t)
  PROVE  /\ \A u \in Threads : u # t => frames'[u] = frames[u]
         /\ \A u \in Threads : \A k \in 1 .. Len(frames'[u]) :
              k \in 1 .. Len(frames[u]) /\ frames'[u][k].region = frames[u][k].region
<1>1. InRegion(t) /\ Types
  BY MoveShape DEF CoreInv
<1>2. Len(frames[t]) \in Nat /\ Region(t) = frames[t][Len(frames[t])].region
  BY <1>1, FrameTypes DEF Region, Frame
<1>3. CASE LeaveRegion(t)
  <2>1. /\ Len(frames'[t]) = Len(frames[t]) - 1
        /\ \A k \in 1 .. Len(frames[t]) - 1 : frames'[t][k] = frames[t][k]
        /\ \A u \in Threads : u # t => frames'[u] = frames[u]
    BY <1>1, <1>3, TopLeft
  <2>2. \A k \in 1 .. Len(frames'[t]) :
          k \in 1 .. Len(frames[t]) /\ frames'[t][k].region = frames[t][k].region
    BY <1>2, <2>1
  <2> QED BY <2>1, <2>2
<1>4. ASSUME NEW g \in Frames, SetTop(t, g), g.region = Region(t)
      PROVE  /\ \A u \in Threads : u # t => frames'[u] = frames[u]
             /\ \A u \in Threads : \A k \in 1 .. Len(frames'[u]) :
                  k \in 1 .. Len(frames[u]) /\ frames'[u][k].region = frames[u][k].region
  <2>1. /\ Len(frames'[t]) = Len(frames[t]) /\ frames'[t][Len(frames[t])] = g
        /\ \A k \in 1 .. Len(frames[t]) : k # Len(frames[t]) => frames'[t][k] = frames[t][k]
        /\ \A u \in Threads : u # t => frames'[u] = frames[u]
    BY <1>1, <1>4, TopSet
  <2>2. \A k \in 1 .. Len(frames'[t]) :
          k \in 1 .. Len(frames[t]) /\ frames'[t][k].region = frames[t][k].region
    BY <1>2, <1>4, <2>1
  <2> QED BY <2>1, <2>2
<1> QED BY <1>3, <1>4, MoveShape

(* The counter of a thread in a region.                                    *)
LEMMA LevelOf ==
  ASSUME CoreInv, RangeInv, NEW t \in Threads, InRegion(t)
  PROVE  /\ Depth(t) \in 1 .. program.levels /\ program.levels \in Nat
         /\ Depth(t) >= Len(frames[t]) /\ Len(frames[t]) \in Nat
         /\ Frame(t).at \in {"user", "barrier", "joined"} => status[t] = Depth(t)
         /\ Frame(t).at # "begun" => late[t] = {}
<1>1. /\ Types /\ StatusOK(t) /\ LateOK(t) /\ program.levels \in Nat
  BY ThreadsAssumption DEF CoreInv, StatusInv, LateInv, Types
<1>n. PICK n : n = Len(frames[t])
  OBVIOUS
<1>2. n \in 1 .. n /\ Frame(t) = frames[t][n] /\ n \in Nat
  BY <1>n, <1>1, TopFrame, FrameTypes
<1>3. FrameOK(t, n)
  BY <1>n, <1>2 DEF CoreInv, FramesInv
<1>4. Region(t) \in 1 .. Len(regions) /\ Region(t) = frames[t][n].region
  BY <1>2, <1>3 DEF FrameOK, Region
<1>5. Depth(t) = regions[Region(t)].level
  BY DEF Depth
<1>6. /\ regions[Region(t)].level \in Nat /\ regions[Region(t)].level >= 1
      /\ regions[Region(t)].level <= program.levels
  BY <1>1, <1>4, RegionTypes DEF CoreInv, RegionsInv, RangeInv
<1>7. regions[Region(t)].level >= n
  BY <1>n, <1>2, <1>4 DEF RangeInv
<1>8. Frame(t).at # "begun" => late[t] = {}
  BY <1>n, <1>1, <1>2 DEF LateOK
<1>9. Frame(t).at \in {"user", "barrier", "joined"} => status[t] = Depth(t)
  BY <1>1, <1>5 DEF StatusOK
<1> QED BY <1>n, <1>1, <1>2, <1>5, <1>6, <1>7, <1>8, <1>9

LEMMA MoveRange ==
  ASSUME CoreInv, RangeInv, NEW t \in Threads, Moves(t), UNCHANGED program
  PROVE  RangeInv'
<1>1. /\ \A u \in Threads : u # t => frames'[u] = frames[u]
      /\ \A u \in Threads : \A k \in 1 .. Len(frames'[u]) :
           k \in 1 .. Len(frames[u]) /\ frames'[u][k].region = frames[u][k].region
  BY MoveFrames
<1>2. InRegion(t) /\ Types
  BY MoveShape DEF CoreInv
<1>3. /\ Depth(t) \in 1 .. program.levels /\ program.levels \in Nat
      /\ Frame(t).at \in {"user", "barrier", "joined"} => status[t] = Depth(t)
      /\ Frame(t).at # "begun" => late[t] = {}
  BY <1>2, LevelOf
<1>4. status[t] \in 0 .. program.levels
  BY DEF RangeInv
<1>5. /\ Len(regions') = Len(regions)
      /\ \A q \in 1 .. Len(regions) : regions'[q].level = regions[q].level
  <2>1. CASE ParallelEnd(t)
    <3>1. PICK r : r = Region(t)
      OBVIOUS
    <3>2. regions' = [regions EXCEPT ![r].ended = TRUE]
      BY <2>1, <3>1 DEF ParallelEnd
    <3>3. regions \in Seq(RegionRecords) /\ \A q \in 1 .. Len(regions) : regions[q] \in RegionRecords
      BY <1>2, RegionTypes DEF Types
    <3>4. PICK x : x = [regions[r] EXCEPT !.ended = TRUE]
      OBVIOUS
    <3>5. regions[r] \in RegionRecords => x.level = regions[r].level
      BY <3>4 DEF RegionRecords
    <3>6. regions' = [regions EXCEPT ![r] = x]
      BY <3>2, <3>4
    <3>7. Len(regions') = Len(regions)
          /\ \A q \in 1 .. Len(regions) : regions'[q] = IF q = r THEN x ELSE regions[q]
      BY <3>3, <3>6
    <3> QED BY <3>3, <3>5, <3>7
  <2>2. CASE UNCHANGED regions
    BY <2>2
  <2> QED BY <2>1, <2>2 DEF Moves, ImplicitTaskBegin, ArriveAtBarrier, LeaveBarrier,
                            ImplicitTaskEndMaster
<1>6. ASSUME NEW u \in Threads, NEW k \in 1 .. Len(frames'[u])
      PROVE  regions'[frames'[u][k].region].level >= k
  <2>1. k \in 1 .. Len(frames[u]) /\ frames'[u][k].region = frames[u][k].region
    BY <1>1
  <2>2. FrameOK(u, k)
    BY <2>1 DEF CoreInv, FramesInv
  <2>3. frames[u][k].region \in 1 .. Len(regions)
    BY <2>2 DEF FrameOK
  <2> QED BY <1>5, <2>1, <2>3 DEF RangeInv
<1>7. /\ \A u \in Threads : u # t => status'[u] = status[u] /\ late'[u] = late[u]
      /\ status'[t] \in 0 .. program.levels
      /\ late'[t] # {} => status'[t] >= 1
  <2>1. status \in [Threads -> Int] /\ late \in [Threads -> SUBSET Ptrs]
    BY <1>2 DEF Types
  <2>2. CASE ImplicitTaskBegin(t)
    <3>1. At(t, "begun") /\ Live(ParallelPtr(Region(t)))
          /\ Deref(ParallelPtr(Region(t))).level = Depth(t)
      BY <2>2, DerefsOfThreads DEF ImplicitTaskBegin, DerefsExact
    <3>2. /\ status' = [status EXCEPT ![t] = Depth(t)] /\ late' = late /\ late[t] = {}
      BY <2>2, <3>1 DEF ImplicitTaskBegin
    <3> QED BY <1>3, <2>1, <3>2
  <2>3. CASE ArriveAtBarrier(t)
    <3>1. UNCHANGED <<status, late>>
      BY <2>3 DEF ArriveAtBarrier
    <3> QED BY <1>4, <3>1 DEF RangeInv
  <2>4. CASE LeaveBarrier(t)
    <3>1. /\ Frame(t).at = "barrier" /\ status' = status
          /\ \/ late' = late
             \/ late' = [late EXCEPT ![t] = {Frame(t).ptr}]
      BY <2>4 DEF LeaveBarrier, At
    <3>2. status'[t] >= 1
      BY <1>3, <3>1
    <3> QED BY <1>4, <2>1, <3>1, <3>2
  <2>5. CASE ImplicitTaskEndMaster(t)
    <3>1. /\ Frame(t).at = "joined" /\ status' = [status EXCEPT ![t] = @ - 1] /\ late' = late
      BY <2>5 DEF ImplicitTaskEndMaster, EndTask, At
    <3>2. late[t] = {} /\ status[t] = Depth(t)
      BY <1>3, <3>1
    <3>3. status'[t] = Depth(t) - 1
      BY <2>1, <3>1, <3>2
    <3> QED BY <1>3, <2>1, <3>1, <3>2, <3>3
  <2>6. CASE ParallelEnd(t)
    <3>1. UNCHANGED <<status, late>>
      BY <2>6 DEF ParallelEnd
    <3> QED BY <1>4, <3>1 DEF RangeInv
  <2> QED BY <2>2, <2>3, <2>4, <2>5, <2>6 DEF Moves
<1> QED BY <1>5, <1>6, <1>7 DEF RangeInv

LEMMA ParallelBeginRange ==
  ASSUME CoreInv, RangeInv, NEW t \in Threads, NEW team \in SUBSET program.threads,
         NEW requested \in 1 .. Cardinality(program.threads),
         NEW barriers \in 0 .. program.barriers,
         ParallelBegin(t, team, requested, barriers), UNCHANGED program
  PROVE  RangeInv'
<1>r. PICK r : r = Len(regions) + 1
  OBVIOUS
<1>g. PICK g : g = [region |-> r, phase |-> 0, at |-> "begun", ptr |-> ParallelPtr(r)]
  OBVIOUS
<1>x. PICK x : x = [team |-> team, master |-> t, barriers |-> barriers, ended |-> FALSE,
                    parent |-> Place(t).region, level |-> Depth(t) + 1]
  OBVIOUS
<1>1. /\ Running(t) /\ Types /\ regions' = Append(regions, x) /\ late' = late
      /\ \A u \in team : u # t => ~InRegion(u)
      /\ Depth(t) < program.levels /\ status' = [status EXCEPT ![t] = @ + 1]
      /\ frames' = [u \in Threads |-> IF u \in team THEN Append(frames[u], g) ELSE frames[u]]
  BY <1>r, <1>g, <1>x DEF ParallelBegin, CoreInv
<1>2. /\ status[t] = Depth(t) /\ Depth(t) \in Nat /\ late[t] = {}
      /\ ~InRegion(t) => Depth(t) = 0
  BY <1>1, RunningThread
<1>3. program.levels \in Nat /\ team \in SUBSET Threads
  BY <1>1, ThreadsAssumption DEF Types
<1>4. Len(regions) \in Nat /\ r \in Nat
  BY <1>r, <1>1, RegionTypes
<1>5. g \in Frames /\ g.region = r
  BY <1>g, <1>4 DEF Frames, ParallelPtr, Ptrs
<1>6. x.level = Depth(t) + 1 /\ x.level <= program.levels /\ x.level \in Nat
  BY <1>x, <1>1, <1>2, <1>3
<1>7. /\ Len(regions') = r /\ regions'[r] = x
      /\ \A q \in 1 .. Len(regions) : regions'[q] = regions[q]
  <2>1. regions \in Seq(RegionRecords)
    BY <1>1 DEF Types
  <2> QED BY <1>r, <1>1, <2>1
<1>8. /\ \A u \in Threads : u \notin team => frames'[u] = frames[u]
      /\ \A u \in team : /\ Len(frames'[u]) = Len(frames[u]) + 1
                         /\ frames'[u][Len(frames[u]) + 1] = g
      /\ \A u \in Threads : \A k \in 1 .. Len(frames[u]) : frames'[u][k] = frames[u][k]
  BY <1>1, <1>3, <1>5, TeamStarts
<1>9. \A q \in 1 .. Len(regions') : regions'[q].level <= program.levels
  <2>1. \A q \in 1 .. Len(regions') : q \in 1 .. Len(regions) \/ q = r
    BY <1>r, <1>4, <1>7
  <2> QED BY <1>6, <1>7, <2>1 DEF RangeInv
<1>10. ASSUME NEW u \in Threads, NEW k \in 1 .. Len(frames'[u])
       PROVE  regions'[frames'[u][k].region].level >= k
  <2>1. Len(frames[u]) \in Nat
    BY <1>1, FrameTypes
  <2>2. k \in 1 .. Len(frames[u]) \/ (u \in team /\ k = Len(frames[u]) + 1)
    BY <1>8, <2>1
  <2>3. CASE k \in 1 .. Len(frames[u])
    <3>1. FrameOK(u, k)
      BY <2>3 DEF CoreInv, FramesInv
    <3>2. frames[u][k].region \in 1 .. Len(regions)
      BY <3>1 DEF FrameOK
    <3>3. frames'[u][k] = frames[u][k] /\ regions'[frames[u][k].region] = regions[frames[u][k].region]
      BY <1>7, <1>8, <2>3, <3>2
    <3>4. regions[frames[u][k].region].level >= k
      BY <2>3 DEF RangeInv
    <3> QED BY <3>3, <3>4
  <2>4. CASE u \in team /\ k = Len(frames[u]) + 1
    <3>1. regions'[frames'[u][k].region].level = Depth(t) + 1
      BY <1>5, <1>6, <1>7, <1>8, <2>4
    <3>2. ~InRegion(u) => Len(frames[u]) = 0
      BY DEF InRegion
    <3>3. CASE InRegion(u)
      <4>1. u = t
        BY <1>1, <2>4, <3>3
      <4>2. Depth(t) >= Len(frames[t])
        BY <3>3, <4>1, LevelOf
      <4> QED BY <1>2, <2>1, <2>4, <3>1, <4>1, <4>2
    <3>4. CASE ~InRegion(u)
      BY <1>2, <2>4, <3>1, <3>2, <3>4
    <3> QED BY <3>3, <3>4
  <2> QED BY <2>2, <2>3, <2>4
<1>11. ASSUME NEW u \in Threads
       PROVE  status'[u] \in 0 .. program.levels /\ (late'[u] # {} => status'[u] >= 1)
  <2>1. status \in [Threads -> Int]
    BY <1>1 DEF Types
  <2>2. CASE u = t
    BY <1>1, <1>2, <1>3, <2>1, <2>2
  <2>3. CASE u # t
    BY <1>1, <2>1, <2>3 DEF RangeInv
  <2> QED BY <2>2, <2>3
<1> QED BY <1>1, <1>9, <1>10, <1>11 DEF RangeInv

LEMMA RangeStep == CoreInv /\ RangeInv /\ [Next]_vars => RangeInv'
<1> SUFFICES ASSUME CoreInv, RangeInv, [Next]_vars PROVE RangeInv'
  OBVIOUS
<1>1. ASSUME UNCHANGED <<program, regions, frames, late, status>> PROVE RangeInv'
  BY <1>1 DEF RangeInv
<1>2. CASE UNCHANGED vars
  BY <1>1, <1>2 DEF vars, openmp
<1>3. CASE Next
  <2>1. UNCHANGED program
    BY <1>3 DEF Next
  <2>2. PICK t \in Threads :
          \/ ThreadBegin(t) \/ StoreItem(t) \/ Taskwait(t)
          \/ \E team \in SUBSET program.threads,
                requested \in 1 .. Cardinality(program.threads),
                barriers \in 0 .. program.barriers :
               ParallelBegin(t, team, requested, barriers)
          \/ Moves(t)
          \/ ImplicitTaskEndWorker(t)
    BY <1>3 DEF Next, Moves
  <2>3. CASE ThreadBegin(t) \/ StoreItem(t) \/ Taskwait(t)
    BY <1>1, <2>1, <2>3 DEF ThreadBegin, StoreItem, Taskwait, openmp
  <2>4. CASE \E team \in SUBSET program.threads,
                requested \in 1 .. Cardinality(program.threads),
                barriers \in 0 .. program.barriers :
               ParallelBegin(t, team, requested, barriers)
    BY <2>1, <2>4, ParallelBeginRange
  <2>5. CASE Moves(t)
    BY <2>1, <2>5, MoveRange
  <2>6. CASE ImplicitTaskEndWorker(t)
    <3>1. /\ late[t] # {} /\ status' = [status EXCEPT ![t] = @ - 1]
          /\ late' = [late EXCEPT ![t] = {}] /\ UNCHANGED <<regions, frames>>
      BY <2>6 DEF ImplicitTaskEndWorker, EndTask
    <3>2. status \in [Threads -> Int] /\ late \in [Threads -> SUBSET Ptrs]
      BY DEF CoreInv, Types
    <3>3. status[t] \in 0 .. program.levels /\ status[t] >= 1 /\ program.levels \in Nat
      BY <3>1, ThreadsAssumption DEF RangeInv, CoreInv, Types
    <3>4. status'[t] \in 0 .. program.levels /\ late'[t] = {}
      BY <3>1, <3>2, <3>3
    <3>5. \A u \in Threads : u # t => status'[u] = status[u] /\ late'[u] = late[u]
      BY <3>1, <3>2
    <3> QED BY <2>1, <3>1, <3>4, <3>5 DEF RangeInv
  <2> QED BY <2>2, <2>3, <2>4, <2>5, <2>6
<1> QED BY <1>2, <1>3

LEMMA InitRange == Init => RangeInv
<1> SUFFICES ASSUME Init PROVE RangeInv
  OBVIOUS
<1>1. program.levels \in Nat
  BY ThreadsAssumption DEF Init
<1>2. /\ Len(regions) = 0
      /\ \A t \in Threads : Len(frames[t]) = 0 /\ status[t] = 0 /\ late[t] = {}
  BY DEF Init
<1> QED BY <1>1, <1>2 DEF RangeInv

(* The ranges hold in every state.                                         *)
THEOREM RangesInvariance == Spec => []RangeInv
  BY InitRange, RangeStep, Invariance, PTL DEF Spec

(* Types and ranges: __sword_status__ is never negative and never exceeds  *)
(* the nesting of the program, and tids stay within the threads.           *)
THEOREM TypeCorrect == Spec => []TypeOK
<1>1. CoreInv /\ FileInv /\ RangeInv => TypeOK
  <2> SUFFICES ASSUME CoreInv, FileInv, RangeInv PROVE TypeOK
    OBVIOUS
  <2>1. Types /\ FileTypes
    BY DEF CoreInv, FileInv
  <2>2. ids \in 0 .. Cardinality(Threads)
    BY TidRange
  <2>3. ASSUME NEW t \in Threads
        PROVE  /\ tid[t] \in {-1} \cup Tids /\ status[t] \in 0 .. program.levels
               /\ bid[t] \in Nat /\ offset[t] \in Nat /\ span[t] \in Nat
    BY <2>1, TidRange DEF Begun, FileTypes, RangeInv
  <2>4. ASSUME NEW t \in Threads PROVE Len(frames[t]) <= program.levels
    <3>1. CASE InRegion(t)
      <4>1. /\ Depth(t) \in 1 .. program.levels /\ program.levels \in Nat
            /\ Depth(t) >= Len(frames[t]) /\ Len(frames[t]) \in Nat
        BY <3>1, LevelOf
      <4> QED BY <4>1
    <3>2. CASE ~InRegion(t)
      <4>1. Len(frames[t]) = 0 /\ program.levels \in Nat
        BY <2>1, <3>2, ThreadsAssumption DEF InRegion, Types
      <4> QED BY <4>1
    <3> QED BY <3>1, <3>2
  <2>5. ASSUME NEW t \in Threads PROVE late[t] \subseteq [region : Nat, owner : Threads]
    <3> SUFFICES ASSUME NEW p \in late[t] PROVE p \in [region : Nat, owner : Threads]
      OBVIOUS
    <3>1. p \in Ptrs /\ p.owner = t
      BY <2>1, Owners DEF Types
    <3> QED BY <3>1 DEF Ptrs
  <2>6. ASSUME NEW d \in heap
        PROVE  d.parallel_id \in Nat /\ d.parent_parallel_id \in Nat /\ d.level \in Nat
    <3>1. d.ptr.region \in 1 .. Len(regions) /\ d = ObjectOf(d.ptr)
      BY DEF CoreInv, HeapInv
    <3>2. PICK r : r = d.ptr.region
      OBVIOUS
    <3>3. r \in Nat /\ regions[r].parent \in Nat /\ regions[r].level \in Nat
      BY <2>1, <3>1, <3>2, RegionTypes
    <3>4. d.parallel_id = r /\ d.parent_parallel_id = regions[r].parent
          /\ d.level = regions[r].level
      BY <3>1, <3>2 DEF ObjectOf
    <3> QED BY <3>3, <3>4
  <2> QED BY <2>2, <2>3, <2>4, <2>5, <2>6 DEF TypeOK
<1> QED BY <1>1, RangesInvariance, Invariance, FilesInvariance, PTL

-----------------------------------------------------------------------------
(* What the analyzer makes of the files of a program without inner regions *)
(* and taskwaits: every record of a barrier spans items of one phase.      *)

(* The records of a thread's file.                                         *)
FileOf(t) == IF tid[t] = -1 THEN << >> ELSE metafile[tid[t]]

(* Record k of file m is one of a barrier: the first record of a region is *)
(* the cut at the begin of the task.                                       *)
OfBarrier(m, k) == \E j \in 1 .. k - 1 : m[j].pid = m[k].pid

LastHi(m) == IF m = << >> THEN 0 ELSE m[Len(m)].hi

Covers(m, k, i) == m[k].lo < i /\ i <= m[k].hi

(* A record of a barrier spans items of its phase, a cut what was stored   *)
(* outside of regions; every item up to the last record is in one.         *)
RecordOK(m, its, k) ==
  /\ m[k].hi <= Len(its)
  /\ ~OfBarrier(m, k) => m[k].bid = 0
  /\ \A i \in 1 .. Len(its) : Covers(m, k, i) =>
       IF OfBarrier(m, k) THEN its[i] = [region |-> m[k].pid, phase |-> m[k].bid]
       ELSE its[i].region = 0
  /\ \A j \in 1 .. k - 1 :
       m[j].pid = m[k].pid /\ OfBarrier(m, j) => m[j].bid < m[k].bid

RecordsOK(m, its) ==
  /\ \A k \in 1 .. Len(m) : RecordOK(m, its, k)
  /\ \A i \in 1 .. Len(its) : i <= LastHi(m) => \E k \in 1 .. Len(m) : Covers(m, k, i)

OpenOK(t) ==
  \A i \in 1 .. Len(items[t]) : i > LastHi(FileOf(t)) =>
    /\ ~InRegion(t) \/ Frame(t).at \in {"begun", "user"}
    /\ IF At(t, "user") THEN items[t][i] = Place(t) ELSE items[t][i].region = 0

PidsOK(t) ==
  LET m == FileOf(t) IN
  /\ \A k \in 1 .. Len(m) : m[k].pid \in 1 .. Len(regions)
  /\ At(t, "begun") => \A k \in 1 .. Len(m) : m[k].pid # Region(t)
  /\ InRegion(t) /\ Frame(t).at # "begun" =>
       /\ \E k \in 1 .. Len(m) : m[k].pid = Region(t)
       /\ bid[t] = arrived[Region(t)][t]
       /\ \A k \in 1 .. Len(m) :
            m[k].pid = Region(t) /\ OfBarrier(m, k) => m[k].bid < bid[t]
  /\ \A r \in 1 .. program.regions : arrived[r][t] > 0 =>
       \E k \in 1 .. Len(m) : OfBarrier(m, k) /\ m[k].pid = r /\ m[k].bid = 0

Flat == program.levels = 1 /\ program.taskwaits = 0

AnalysisOK(t) == RecordsOK(FileOf(t), items[t]) /\ OpenOK(t) /\ PidsOK(t)

AnalysisInv == taskwaits \in Nat /\ (Flat => \A t \in Threads : AnalysisOK(t))

Places == [region : Nat, phase : Nat]

LEMMA LastHiType ==
  ASSUME NEW m \in Seq(Records)
  PROVE  /\ LastHi(m) \in Nat /\ Len(m) \in Nat
         /\ \A k \in 1 .. Len(m) : /\ m[k] \in Records /\ m[k].lo \in Nat /\ m[k].hi \in Nat
                                   /\ m[k].pid \in Nat /\ m[k].bid \in Nat
<1>1. \A k \in 1 .. Len(m) : m[k] \in Records
  BY ElementOfSeq
<1>2. \A x \in Records : x.lo \in Nat /\ x.hi \in Nat /\ x.pid \in Nat /\ x.bid \in Nat
  BY DEF Records
<1>3. m # << >> => Len(m) \in 1 .. Len(m)
  OBVIOUS
<1>4. Len(m) \in Nat
  OBVIOUS
<1>5. LastHi(m) \in Nat
  BY <1>1, <1>2, <1>3 DEF LastHi
<1> QED BY <1>1, <1>2, <1>4, <1>5

(* A file grows by a record that ends with the last item.                  *)
LEMMA RecordAppended ==
  ASSUME NEW m \in Seq(Records), NEW its \in Seq(Places), RecordsOK(m, its),
         NEW rec \in Records, rec.lo = LastHi(m), rec.hi = Len(its),
         NEW a \in Seq(Records), a = Append(m, rec),
         \/ /\ rec.bid = 0 /\ \A k \in 1 .. Len(m) : m[k].pid # rec.pid
            /\ \A i \in 1 .. Len(its) : i > LastHi(m) => its[i].region = 0
         \/ /\ \E k \in 1 .. Len(m) : m[k].pid = rec.pid
            /\ \A i \in 1 .. Len(its) : i > LastHi(m) =>
                 its[i] = [region |-> rec.pid, phase |-> rec.bid]
            /\ \A k \in 1 .. Len(m) : m[k].pid = rec.pid /\ OfBarrier(m, k) =>
                 m[k].bid < rec.bid
  PROVE  /\ RecordsOK(a, its) /\ LastHi(a) = Len(its)
         /\ Len(a) = Len(m) + 1 /\ a[Len(m) + 1] = rec
         /\ \A k \in 1 .. Len(m) : a[k] = m[k] /\ OfBarrier(a, k) = OfBarrier(m, k)
         /\ OfBarrier(a, Len(m) + 1) = \E k \in 1 .. Len(m) : m[k].pid = rec.pid
<1>n. PICK n : n = Len(m)
  OBVIOUS
<1>1. /\ n \in Nat /\ Len(a) = n + 1 /\ a[n + 1] = rec /\ a # << >>
      /\ \A k \in 1 .. n : a[k] = m[k]
  BY <1>n, AppendProperties
<1>2. /\ LastHi(m) \in Nat /\ rec.hi \in Nat /\ Len(its) \in Nat
      /\ \A k \in 1 .. n : m[k].lo \in Nat /\ m[k].hi \in Nat
  BY <1>n, LastHiType
<1>3. LastHi(a) = Len(its)
  BY <1>1 DEF LastHi
<1>4. \A k \in 1 .. n : OfBarrier(a, k) = OfBarrier(m, k)
  <2>1. \A k \in 1 .. n : \A j \in 1 .. k - 1 : a[j] = m[j]
    BY <1>1
  <2> QED BY <1>1, <2>1 DEF OfBarrier
<1>5. OfBarrier(a, n + 1) = \E k \in 1 .. n : m[k].pid = rec.pid
  <2>1. 1 .. (n + 1) - 1 = 1 .. n
    BY <1>1
  <2> QED BY <1>1, <2>1 DEF OfBarrier
<1>6. ASSUME NEW k \in 1 .. n PROVE RecordOK(a, its, k)
  <2>1. RecordOK(m, its, k)
    BY <1>n DEF RecordsOK
  <2>2. \A j \in 1 .. k - 1 : j \in 1 .. n
    BY <1>1
  <2> QED BY <1>1, <1>4, <2>1, <2>2 DEF RecordOK, Covers
<1>7. RecordOK(a, its, n + 1)
  <2>1. \A j \in 1 .. (n + 1) - 1 : j \in 1 .. n
    BY <1>1
  <2>2. \A i \in 1 .. Len(its) : Covers(a, n + 1, i) => i > LastHi(m)
    BY <1>1, <1>2 DEF Covers
  <2>3. a[n + 1].hi <= Len(its)
    BY <1>1, <1>2
  <2>4. CASE \E k \in 1 .. n : m[k].pid = rec.pid
    <3>1. /\ \A i \in 1 .. Len(its) : i > LastHi(m) =>
                 its[i] = [region |-> rec.pid, phase |-> rec.bid]
          /\ \A k \in 1 .. n : m[k].pid = rec.pid /\ OfBarrier(m, k) => m[k].bid < rec.bid
      BY <1>n, <2>4
    <3>2. OfBarrier(a, n + 1)
      BY <1>5, <2>4
    <3> QED BY <1>1, <1>4, <2>1, <2>2, <2>3, <3>1, <3>2 DEF RecordOK
  <2>5. CASE ~\E k \in 1 .. n : m[k].pid = rec.pid
    <3>1. rec.bid = 0 /\ \A i \in 1 .. Len(its) : i > LastHi(m) => its[i].region = 0
      BY <1>n, <2>5
    <3>2. ~OfBarrier(a, n + 1)
      BY <1>5, <2>5
    <3>3. \A j \in 1 .. n : a[j].pid # a[n + 1].pid
      BY <1>1, <2>5
    <3> QED BY <1>1, <2>1, <2>2, <2>3, <3>1, <3>2, <3>3 DEF RecordOK
  <2> QED BY <2>4, <2>5
<1>8. ASSUME NEW i \in 1 .. Len(its) PROVE \E k \in 1 .. n + 1 : Covers(a, k, i)
  <2>1. CASE i <= LastHi(m)
    <3>1. PICK k \in 1 .. n : Covers(m, k, i)
      BY <1>n, <2>1 DEF RecordsOK
    <3>2. k \in 1 .. n + 1
      BY <1>1
    <3> QED BY <1>1, <3>1, <3>2 DEF Covers
  <2>2. CASE ~(i <= LastHi(m))
    <3>1. LastHi(m) < i /\ i <= Len(its)
      BY <1>2, <2>2
    <3>2. n + 1 \in 1 .. n + 1
      BY <1>1
    <3> QED BY <1>1, <3>1, <3>2 DEF Covers
  <2> QED BY <2>1, <2>2
<1>9. \A k \in 1 .. n + 1 : k \in 1 .. n \/ k = n + 1
  BY <1>1
<1>10. RecordsOK(a, its)
  BY <1>1, <1>6, <1>7, <1>8, <1>9 DEF RecordsOK
<1> QED BY <1>n, <1>1, <1>3, <1>4, <1>5, <1>10

(* An item more leaves the records as they are.                            *)
LEMMA ItemAppended ==
  ASSUME NEW m \in Seq(Records), NEW its \in Seq(Places), RecordsOK(m, its),
         NEW x \in Places, NEW a \in Seq(Places), a = Append(its, x)
  PROVE  /\ RecordsOK(m, a) /\ Len(a) = Len(its) + 1 /\ a[Len(its) + 1] = x
         /\ \A i \in 1 .. Len(its) : a[i] = its[i]
         /\ LastHi(m) <= Len(its)
<1>1. /\ Len(its) \in Nat /\ Len(a) = Len(its) + 1 /\ a[Len(its) + 1] = x
      /\ \A i \in 1 .. Len(its) : a[i] = its[i]
  BY AppendProperties
<1>2. /\ LastHi(m) \in Nat /\ Len(m) \in Nat
      /\ \A k \in 1 .. Len(m) : m[k].lo \in Nat /\ m[k].hi \in Nat
  BY LastHiType
<1>3. \A k \in 1 .. Len(m) : m[k].hi <= Len(its)
  BY DEF RecordsOK, RecordOK
<1>4. LastHi(m) <= Len(its)
  <2>1. m # << >> => Len(m) \in 1 .. Len(m)
    OBVIOUS
  <2> QED BY <1>1, <1>3, <2>1 DEF LastHi
<1>5. ASSUME NEW k \in 1 .. Len(m), NEW i \in 1 .. Len(a), Covers(m, k, i)
      PROVE  i \in 1 .. Len(its) /\ a[i] = its[i]
  BY <1>1, <1>2, <1>3, <1>5 DEF Covers
<1>6. ASSUME NEW k \in 1 .. Len(m) PROVE RecordOK(m, a, k)
  <2>1. RecordOK(m, its, k) /\ m[k].hi <= Len(a)
    BY <1>1, <1>2, <1>3 DEF RecordsOK
  <2> QED BY <1>5, <2>1 DEF RecordOK
<1>7. ASSUME NEW i \in 1 .. Len(a), i <= LastHi(m) PROVE \E k \in 1 .. Len(m) : Covers(m, k, i)
  <2>1. i \in 1 .. Len(its)
    BY <1>1, <1>2, <1>4, <1>7
  <2> QED BY <1>7, <2>1 DEF RecordsOK
<1>8. RecordsOK(m, a)
  BY <1>6, <1>7 DEF RecordsOK
<1> QED BY <1>1, <1>4, <1>8

LEMMA FileOfType ==
  ASSUME FileInv, NEW t \in Threads
  PROVE  FileOf(t) \in Seq(Records) /\ items[t] \in Seq(Places) /\ bid[t] \in Nat
<1>1. tid[t] # -1 => tid[t] \in Tids
  BY TidRange DEF Begun
<1>2. metafile \in [Tids -> Seq(Records)] /\ items[t] \in Seq(Places) /\ bid[t] \in Nat
  BY DEF FileInv, FileTypes, Places
<1> QED BY <1>1, <1>2 DEF FileOf

(* What is said of the regions in a thread's file is kept by a step that   *)
(* leaves the file and the thread's place alone.                           *)
LEMMA PidsKept ==
  ASSUME NEW u \in Threads, PidsOK(u), FileOf(u)' = FileOf(u), bid'[u] = bid[u],
         UNCHANGED program,
         \A r \in 1 .. program.regions : arrived'[r][u] = arrived[r][u],
         InRegion(u) => Region(u) \in 1 .. program.regions,
         InRegion(u)' = InRegion(u), Frame(u)' = Frame(u), Region(u)' = Region(u),
         At(u, "begun")' = At(u, "begun"),
         Len(regions) \in Nat, Len(regions') \in Nat, Len(regions') >= Len(regions)
  PROVE  PidsOK(u)'
<1>m. PICK m : m = FileOf(u) /\ m = FileOf(u)'
  OBVIOUS
<1>1. \A k \in 1 .. Len(m) : m[k].pid \in 1 .. Len(regions')
  BY <1>m DEF PidsOK
<1>2. At(u, "begun")' => \A k \in 1 .. Len(m) : m[k].pid # Region(u)'
  BY <1>m DEF PidsOK
<1>3. InRegion(u)' /\ Frame(u)'.at # "begun" =>
        /\ \E k \in 1 .. Len(m) : m[k].pid = Region(u)'
        /\ bid'[u] = arrived'[Region(u)'][u]
        /\ \A k \in 1 .. Len(m) : m[k].pid = Region(u)' /\ OfBarrier(m, k) => m[k].bid < bid'[u]
  BY <1>m DEF PidsOK
<1>4. \A r \in 1 .. program'.regions : arrived'[r][u] > 0 =>
        \E k \in 1 .. Len(m) : OfBarrier(m, k) /\ m[k].pid = r /\ m[k].bid = 0
  BY <1>m DEF PidsOK
<1> QED BY <1>m, <1>1, <1>2, <1>3, <1>4 DEF PidsOK

(* A thread that a step does not concern.                                  *)
LEMMA AnalysisKept ==
  ASSUME NEW u \in Threads, AnalysisOK(u), FileOf(u)' = FileOf(u), items'[u] = items[u],
         frames'[u] = frames[u], bid'[u] = bid[u], UNCHANGED program,
         \A r \in 1 .. program.regions : arrived'[r][u] = arrived[r][u],
         InRegion(u) => Region(u) \in 1 .. program.regions,
         Len(regions) \in Nat, Len(regions') \in Nat, Len(regions') >= Len(regions)
  PROVE  AnalysisOK(u)'
<1>1. /\ InRegion(u)' = InRegion(u) /\ Frame(u)' = Frame(u) /\ Region(u)' = Region(u)
      /\ Place(u)' = Place(u)
      /\ At(u, "begun")' = At(u, "begun") /\ At(u, "user")' = At(u, "user")
  BY DEF InRegion, Frame, Region, Place, At
<1>2. RecordsOK(FileOf(u), items[u])'
  <2>1. RecordsOK(FileOf(u), items[u])
    BY DEF AnalysisOK
  <2>2. RecordsOK(FileOf(u)', items'[u])
    BY <2>1
  <2> QED BY <2>2
<1>3. OpenOK(u)'
  BY <1>1 DEF AnalysisOK, OpenOK, LastHi
<1>4. PidsOK(u)'
  BY <1>1, PidsKept DEF AnalysisOK
<1> QED BY <1>2, <1>3, <1>4 DEF AnalysisOK

(* The file that a record is written to, and the others.                   *)
LEMMA FileWritten ==
  ASSUME FileInv, NEW t \in Threads, tid[t] # -1,
         NEW data, data.parallel_id \in Nat, data.parent_parallel_id \in Nat,
         data.level \in Nat, NEW b \in Nat, NEW off \in Nat, NEW spn \in Nat,
         WriteRecord(t, data, b, off, spn), UNCHANGED tid
  PROVE  /\ \E rec \in Records :
              /\ FileOf(t)' = Append(FileOf(t), rec)
              /\ rec.pid = data.parallel_id /\ rec.bid = b
              /\ rec.lo = LastHi(FileOf(t)) /\ rec.hi = Len(items[t])
         /\ \A u \in Threads : u # t => FileOf(u)' = FileOf(u)
<1>i. PICK i : i = tid[t]
  OBVIOUS
<1>k. PICK mark : mark = Mark(t)
  OBVIOUS
<1>h. PICK hi : hi = Len(items[t])
  OBVIOUS
<1>c. PICK rec : rec = [pid |-> data.parallel_id, ppid |-> data.parent_parallel_id,
                        bid |-> b, offset |-> off, span |-> spn, level |-> data.level,
                        lo |-> mark, hi |-> hi]
  OBVIOUS
<1>1. metafile' = [metafile EXCEPT ![i] = Append(@, rec)]
  BY <1>i, <1>k, <1>h, <1>c DEF WriteRecord
<1>2. FileOf(t) = metafile[i] /\ mark = LastHi(FileOf(t))
  BY <1>i, <1>k DEF FileOf, Mark, LastHi
<1>3. hi \in Nat /\ mark \in Nat /\ items[t] \in Seq(Places)
  BY <1>h, <1>2, FileOfType, LastHiType
<1>4. rec \in Records /\ rec.pid = data.parallel_id /\ rec.bid = b /\ rec.lo = mark /\ rec.hi = hi
  BY <1>c, <1>3 DEF Records
<1>5. i \in Tids /\ metafile \in [Tids -> Seq(Records)]
  BY <1>i, TidRange DEF Begun, FileInv, FileTypes
<1>6. metafile'[i] = Append(metafile[i], rec) /\ \A j \in Tids : j # i => metafile'[j] = metafile[j]
  BY <1>1, <1>5
<1>7. FileOf(t)' = Append(FileOf(t), rec)
  BY <1>i, <1>2, <1>6 DEF FileOf
<1>8. ASSUME NEW u \in Threads, u # t PROVE FileOf(u)' = FileOf(u)
  <2>1. tid[u] # -1 => tid[u] \in Tids /\ tid[u] # i
    BY <1>i, <1>8, TidRange DEF Begun, FileInv, TidInv
  <2> QED BY <1>6, <2>1 DEF FileOf
<1> QED BY <1>h, <1>2, <1>4, <1>7, <1>8

(* In a program without inner regions a thread is in one region at most.   *)
LEMMA FlatThread ==
  ASSUME CoreInv, RangeInv, Flat, NEW t \in Threads
  PROVE  /\ InRegion(t) => /\ Len(frames[t]) = 1 /\ Depth(t) = 1 /\ Frame(t) = frames[t][1]
                           /\ Region(t) \in 1 .. Len(regions)
                           /\ Region(t) \in 1 .. program.regions
                           /\ FrameOK(t, 1) /\ Frame(t) \in Frames
         /\ Len(regions) \in Nat
<1>1. Types
  BY DEF CoreInv
<1>2. ASSUME InRegion(t)
      PROVE  /\ Len(frames[t]) = 1 /\ Depth(t) = 1 /\ Frame(t) = frames[t][1]
             /\ FrameOK(t, 1) /\ Frame(t) \in Frames
  <2>1. /\ Len(frames[t]) >= 1 /\ Frame(t) \in Frames /\ Frame(t) = frames[t][Len(frames[t])]
    BY <1>1, <1>2, TopFrame
  <2>2. Depth(t) \in 1 .. 1 /\ Depth(t) >= Len(frames[t]) /\ Len(frames[t]) \in Nat
    BY <1>2, LevelOf DEF Flat
  <2>n. PICK n : n = Len(frames[t])
    OBVIOUS
  <2>d. PICK d : d = Depth(t)
    OBVIOUS
  <2>3. n >= 1 /\ d \in 1 .. 1 /\ d >= n /\ n \in Nat
    BY <2>1, <2>2, <2>n, <2>d
  <2>4. n = 1 /\ d = 1
    BY <2>3
  <2>5. Len(frames[t]) = 1 /\ Depth(t) = 1
    BY <2>n, <2>d, <2>4
  <2>6. FrameOK(t, 1)
    BY <2>5 DEF CoreInv, FramesInv
  <2> QED BY <2>1, <2>5, <2>6
<1>3. InRegion(t) => Region(t) \in 1 .. Len(regions) /\ Region(t) \in 1 .. program.regions
  BY <1>1, <1>2, RegionTypes DEF FrameOK, Region
<1> QED BY <1>1, <1>2, <1>3, RegionTypes

LEMMA ThreadBeginAnalysis ==
  ASSUME CoreInv, FileInv, RangeInv, Flat, \A t \in Threads : AnalysisOK(t),
         NEW t \in Threads, ThreadBegin(t), UNCHANGED program
  PROVE  \A u \in Threads : AnalysisOK(u)'
<1>1. /\ tid[t] = -1 /\ tid' = [tid EXCEPT ![t] = ids]
      /\ UNCHANGED <<bid, items, metafile, frames, arrived, regions>>
  BY DEF ThreadBegin, files, openmp
<1>2. tid \in [Threads -> Int]
  BY DEF FileInv, FileTypes
<1>3. ASSUME NEW u \in Threads PROVE FileOf(u)' = FileOf(u)
  <2>1. CASE u # t
    BY <1>1, <1>2, <2>1 DEF FileOf
  <2>2. CASE u = t
    <3>1. ids \in Nat /\ ids < Cardinality(Threads) /\ Cardinality(Threads) \in Nat
      BY <1>1, TidRange DEF Begun
    <3>2. metafile[ids] = << >>
      BY <3>1 DEF FileInv, TidInv, Tids
    <3> QED BY <1>1, <1>2, <2>2, <3>1, <3>2 DEF FileOf
  <2> QED BY <2>1, <2>2
<1> QED BY <1>1, <1>3, FlatThread, AnalysisKept

LEMMA StoreItemAnalysis ==
  ASSUME CoreInv, FileInv, RangeInv, Flat, \A t \in Threads : AnalysisOK(t),
         NEW t \in Threads, StoreItem(t), UNCHANGED program
  PROVE  \A u \in Threads : AnalysisOK(u)'
<1>p. PICK place : place = Place(t)
  OBVIOUS
<1>m. PICK m : m = FileOf(t)
  OBVIOUS
<1>s. PICK its : its = items[t]
  OBVIOUS
<1>1. /\ Running(t) /\ items' = [items EXCEPT ![t] = Append(@, place)]
      /\ UNCHANGED <<frames, tid, bid, arrived, regions, metafile>>
  BY <1>p DEF StoreItem, openmp
<1>2. \A u \in Threads : FileOf(u)' = FileOf(u)
  BY <1>1 DEF FileOf
<1>3. place \in Places /\ (~InRegion(t) => place.region = 0)
  <2>1. Place(t).region \in Nat
    BY <1>1, RunningThread
  <2>2. Place(t).phase \in Nat
    BY FlatThread DEF Place, Frames
  <2> QED BY <1>p, <2>1, <2>2 DEF Place, Places
<1>4. items \in [Threads -> Seq(Places)] /\ m \in Seq(Records) /\ its \in Seq(Places)
  BY <1>m, <1>s, FileOfType DEF FileInv, FileTypes, Places
<1>5. items'[t] = Append(its, place) /\ \A u \in Threads : u # t => items'[u] = items[u]
  BY <1>s, <1>1, <1>4
<1>6. RecordsOK(m, its)
  BY <1>m, <1>s DEF AnalysisOK
<1>a. PICK a : a = items'[t]
  OBVIOUS
<1>b. a = Append(its, place)
  BY <1>a, <1>5
<1>7. /\ RecordsOK(m, a) /\ Len(a) = Len(its) + 1 /\ a[Len(its) + 1] = place
      /\ \A i \in 1 .. Len(its) : a[i] = its[i]
  <2>1. m \in Seq(Records) /\ its \in Seq(Places) /\ place \in Places
    BY <1>3, <1>4
  <2>2. a \in Seq(Places)
    BY <1>b, <2>1
  <2>3. RecordsOK(m, a)
    BY <1>6, <1>b, <2>1, <2>2, ItemAppended
  <2>4. /\ Len(a) = Len(its) + 1 /\ a[Len(its) + 1] = place
        /\ \A i \in 1 .. Len(its) : a[i] = its[i]
    BY <1>b, <2>1, AppendProperties
  <2> QED BY <2>3, <2>4
<1>8. ASSUME NEW u \in Threads, u # t PROVE AnalysisOK(u)'
  BY <1>1, <1>2, <1>5, <1>8, FlatThread, AnalysisKept
<1>9. AnalysisOK(t)'
  <2>1. /\ InRegion(t)' = InRegion(t) /\ Frame(t)' = Frame(t) /\ Region(t)' = Region(t)
        /\ Place(t)' = Place(t)
        /\ At(t, "begun")' = At(t, "begun") /\ At(t, "user")' = At(t, "user")
    BY <1>1 DEF InRegion, Frame, Region, Place, At
  <2>2. RecordsOK(FileOf(t), items[t])'
    BY <1>a, <1>m, <1>2, <1>7
  <2>3. PidsOK(t)'
    <3>1. PidsOK(t) /\ UNCHANGED program
      BY DEF AnalysisOK, StoreItem, openmp
    <3>2. /\ Len(regions) \in Nat /\ Len(regions') = Len(regions)
          /\ InRegion(t) => Region(t) \in 1 .. program.regions
      BY <1>1, FlatThread
    <3> QED BY <1>1, <1>2, <2>1, <3>1, <3>2, PidsKept
  <2>4. OpenOK(t)'
    <3> SUFFICES ASSUME NEW i \in 1 .. Len(a), i > LastHi(m)
                 PROVE  /\ ~InRegion(t) \/ Frame(t).at \in {"begun", "user"}
                        /\ IF At(t, "user") THEN a[i] = Place(t) ELSE a[i].region = 0
      BY <1>a, <1>m, <1>2, <2>1 DEF OpenOK, LastHi
    <3>1. CASE i \in 1 .. Len(its)
      BY <1>m, <1>s, <1>7, <3>1 DEF AnalysisOK, OpenOK
    <3>2. CASE i = Len(its) + 1
      BY <1>p, <1>1, <1>3, <1>7, <3>2 DEF Running, At
    <3>3. Len(its) \in Nat
      BY <1>4
    <3> QED BY <1>7, <3>1, <3>2, <3>3
  <2> QED BY <2>2, <2>3, <2>4 DEF AnalysisOK
<1> QED BY <1>8, <1>9

LEMMA ParallelBeginAnalysis ==
  ASSUME CoreInv, FileInv, RangeInv, Flat, \A t \in Threads : AnalysisOK(t),
         NEW t \in Threads, NEW team \in SUBSET program.threads,
         NEW requested \in 1 .. Cardinality(program.threads),
         NEW barriers \in 0 .. program.barriers,
         ParallelBegin(t, team, requested, barriers), UNCHANGED program
  PROVE  \A u \in Threads : AnalysisOK(u)'
<1>r. PICK r : r = Len(regions) + 1
  OBVIOUS
<1>g. PICK g : g = [region |-> r, phase |-> 0, at |-> "begun", ptr |-> ParallelPtr(r)]
  OBVIOUS
<1>x. PICK x : x = [team |-> team, master |-> t, barriers |-> barriers, ended |-> FALSE,
                    parent |-> Place(t).region, level |-> Depth(t) + 1]
  OBVIOUS
<1>1. /\ Running(t) /\ Types /\ regions' = Append(regions, x) /\ Depth(t) < program.levels
      /\ \A u \in team : u # t => ~InRegion(u)
      /\ frames' = [u \in Threads |-> IF u \in team THEN Append(frames[u], g) ELSE frames[u]]
      /\ UNCHANGED <<arrived, tid, bid, items, metafile>>
  BY <1>r, <1>g, <1>x DEF ParallelBegin, CoreInv, files
<1>2. ~InRegion(t)
  BY <1>1, FlatThread DEF Flat
<1>3. Len(regions) \in Nat /\ r \in Nat /\ Len(regions') = r /\ team \in SUBSET Threads
  <2>1. regions \in Seq(RegionRecords) /\ team \in SUBSET Threads
    BY <1>1, ThreadsAssumption DEF Types
  <2> QED BY <1>r, <1>1, <2>1
<1>4. g \in Frames /\ g.region = r /\ g.at = "begun"
  BY <1>g, <1>3 DEF Frames, ParallelPtr, Ptrs
<1>5. /\ \A u \in Threads : u \notin team => frames'[u] = frames[u]
      /\ \A u \in team : /\ Len(frames'[u]) = Len(frames[u]) + 1 /\ frames'[u] # << >>
                         /\ frames'[u][Len(frames[u]) + 1] = g
  <2>1. Types /\ team \in SUBSET Threads /\ g \in Frames
        /\ frames' = [u \in Threads |-> IF u \in team THEN Append(frames[u], g) ELSE frames[u]]
    BY <1>1, <1>3, <1>4
  <2> QED BY <2>1, TeamStarts
<1>6. \A u \in Threads : FileOf(u)' = FileOf(u)
  BY <1>1 DEF FileOf
<1>7. Len(regions') \in Nat /\ Len(regions') >= Len(regions)
  BY <1>r, <1>3
<1>8. ASSUME NEW u \in Threads, u \notin team PROVE AnalysisOK(u)'
  BY <1>1, <1>3, <1>5, <1>6, <1>7, <1>8, FlatThread, AnalysisKept
<1>9. ASSUME NEW u \in team PROVE AnalysisOK(u)'
  <2>0. u \in Threads /\ ~InRegion(u) /\ AnalysisOK(u)
    BY <1>1, <1>2, <1>3
  <2>1. InRegion(u)' /\ Frame(u)' = g /\ Region(u)' = r
    BY <1>4, <1>5 DEF InRegion, Frame, Region
  <2>2. ~At(u, "user")' /\ ~At(u, "user")
    BY <1>4, <2>0, <2>1 DEF At
  <2>3. RecordsOK(FileOf(u), items[u])'
    BY <1>1, <1>6, <2>0 DEF AnalysisOK
  <2>4. OpenOK(u)'
    BY <1>1, <1>4, <1>6, <2>0, <2>1, <2>2 DEF AnalysisOK, OpenOK
  <2>5. \A k \in 1 .. Len(FileOf(u)) :
          FileOf(u)[k].pid \in 1 .. Len(regions') /\ FileOf(u)[k].pid # r
    BY <1>r, <1>3, <2>0 DEF AnalysisOK, PidsOK
  <2>6. \A q \in 1 .. program.regions : arrived[q][u] > 0 =>
          \E k \in 1 .. Len(FileOf(u)) :
            OfBarrier(FileOf(u), k) /\ FileOf(u)[k].pid = q /\ FileOf(u)[k].bid = 0
    BY <2>0 DEF AnalysisOK, PidsOK
  <2>m. PICK m : m = FileOf(u)
    OBVIOUS
  <2>7. FileOf(u)' = m /\ Frame(u)'.at = "begun" /\ program' = program /\ arrived' = arrived
    BY <1>1, <1>4, <1>6, <2>m, <2>0, <2>1
  <2>8. \A k \in 1 .. Len(m) : m[k].pid \in 1 .. Len(regions') /\ m[k].pid # Region(u)'
    BY <2>m, <2>1, <2>5
  <2>9. \A q \in 1 .. program.regions : arrived[q][u] > 0 =>
          \E k \in 1 .. Len(m) : OfBarrier(m, k) /\ m[k].pid = q /\ m[k].bid = 0
    BY <2>m, <2>6
  <2>10. PidsOK(u)'
    BY <2>7, <2>8, <2>9 DEF PidsOK
  <2> QED BY <2>3, <2>4, <2>10 DEF AnalysisOK
<1> QED BY <1>8, <1>9

LEMMA ImplicitTaskBeginAnalysis ==
  ASSUME CoreInv, FileInv, RangeInv, Flat, \A t \in Threads : AnalysisOK(t),
         NEW t \in Threads, ImplicitTaskBegin(t), UNCHANGED program
  PROVE  \A u \in Threads : AnalysisOK(u)'
<1>r. PICK r : r = Region(t)
  OBVIOUS
<1>d. PICK data : data = Deref(ParallelPtr(r))
  OBVIOUS
<1>s. PICK size : size = Cardinality(regions[r].team)
  OBVIOUS
<1>n. PICK num : num = Num(r, t)
  OBVIOUS
<1>m. PICK m : m = FileOf(t)
  OBVIOUS
<1>i. PICK its : its = items[t]
  OBVIOUS
<1>1. /\ At(t, "begun") /\ InRegion(t) /\ Frame(t).at = "begun" /\ tid[t] # -1 /\ Types
      /\ UNCHANGED <<tid, items, arrived, regions>>
      /\ data.level = 1 =>
           bid' = [bid EXCEPT ![t] = 0] /\ WriteRecord(t, data, 0, num, size)
  BY <1>r, <1>d, <1>s, <1>n DEF ImplicitTaskBegin, At, CoreInv
<1>2. /\ data.parallel_id \in Nat /\ data.parent_parallel_id \in Nat /\ data.level \in Nat
      /\ r \in 1 .. Len(regions)
  BY <1>r, <1>d, <1>1, DataTypes
<1>3. data.parallel_id = r /\ data.level = 1
  BY <1>r, <1>d, <1>1, DerefsOfThreads, FlatThread DEF DerefsExact
<1>4. size \in Nat /\ num \in Nat
  BY <1>s, <1>n, <1>1, <1>2, NumType
<1>5. /\ \E rec \in Records : /\ FileOf(t)' = Append(FileOf(t), rec)
                              /\ rec.pid = data.parallel_id /\ rec.bid = 0
                              /\ rec.lo = LastHi(FileOf(t)) /\ rec.hi = Len(items[t])
      /\ \A u \in Threads : u # t => FileOf(u)' = FileOf(u)
  BY <1>1, <1>2, <1>3, <1>4, FileWritten
<1>6. PICK rec \in Records : /\ FileOf(t)' = Append(m, rec) /\ rec.pid = r /\ rec.bid = 0
                             /\ rec.lo = LastHi(m) /\ rec.hi = Len(its)
  BY <1>m, <1>i, <1>3, <1>5
<1>a. PICK a : a = FileOf(t)'
  OBVIOUS
<1>7. m \in Seq(Records) /\ its \in Seq(Places) /\ a = Append(m, rec) /\ a \in Seq(Records)
  BY <1>a, <1>m, <1>i, <1>6, FileOfType
<1>8. bid'[t] = 0 /\ \A u \in Threads : u # t => bid'[u] = bid[u]
  BY <1>1, <1>3 DEF FileInv, FileTypes
<1>9. InRegion(t)' /\ Region(t)' = r /\ At(t, "user")' /\ Frame(t)'.at = "user"
      /\ \A u \in Threads : u # t => frames'[u] = frames[u]
  <2>p. PICK ptr : ptr = TaskPtr(r, t)
    OBVIOUS
  <2>n. PICK n : n = Len(frames[t])
    OBVIOUS
  <2>1. PICK g : g = [Frame(t) EXCEPT !.at = "user", !.ptr = ptr]
    OBVIOUS
  <2>2. Len(frames[t]) \in 1 .. Len(frames[t]) /\ Frame(t) = frames[t][Len(frames[t])]
        /\ Frame(t) \in Frames
    BY <1>1, TopFrame
  <2>3. TaskPtr(r, t) \in Ptrs
    BY <1>1, <1>2, RegionTypes DEF TaskPtr, Ptrs
  <2>4. g \in Frames /\ g.at = "user" /\ g.region = r
    BY <1>r, <2>p, <2>1, <2>2, <2>3 DEF Frames, Region
  <2>x. frames' = [frames EXCEPT ![t][n].at = "user", ![t][n].ptr = ptr]
    BY <1>r, <2>p, <2>n DEF ImplicitTaskBegin
  <2>y. n \in 1 .. n /\ Frame(t) = frames[t][n]
    BY <2>n, <2>2
  <2>5. SetTop(t, g)
    <3>1. n \in Nat /\ frames \in [Threads -> Seq(Frames)]
      BY <1>1, <2>n, FrameTypes DEF Types
    <3> QED BY <2>n, <2>1, <2>x, <2>y, <3>1 DEF SetTop
  <2>6. /\ Len(frames'[t]) = Len(frames[t]) /\ frames'[t] # << >>
        /\ frames'[t][Len(frames[t])] = g
        /\ \A u \in Threads : u # t => frames'[u] = frames[u]
    BY <1>1, <2>4, <2>5, TopSet
  <2> QED BY <2>4, <2>6 DEF InRegion, Region, Frame, At
<1>10. ASSUME NEW u \in Threads, u # t PROVE AnalysisOK(u)'
  BY <1>1, <1>5, <1>8, <1>9, <1>10, FlatThread, AnalysisKept
<1>11. AnalysisOK(t)'
  <2>1. RecordsOK(m, its) /\ OpenOK(t) /\ PidsOK(t)
    BY <1>m, <1>i DEF AnalysisOK
  <2>2. \A i \in 1 .. Len(its) : i > LastHi(m) => its[i].region = 0
    BY <1>m, <1>i, <1>1, <2>1 DEF OpenOK, At
  <2>3. \A k \in 1 .. Len(m) : m[k].pid # rec.pid /\ m[k].pid \in 1 .. Len(regions)
    BY <1>m, <1>r, <1>1, <1>6, <2>1 DEF PidsOK
  <2>x. /\ rec.bid = 0 /\ \A k \in 1 .. Len(m) : m[k].pid # rec.pid
        /\ \A i \in 1 .. Len(its) : i > LastHi(m) => its[i].region = 0
    BY <1>6, <2>2, <2>3
  <2>y. /\ RecordsOK(m, its) /\ rec.lo = LastHi(m) /\ rec.hi = Len(its)
        /\ m \in Seq(Records) /\ its \in Seq(Places) /\ a = Append(m, rec) /\ a \in Seq(Records)
    BY <1>6, <1>7, <2>1
  <2>4. RecordsOK(a, its)
    BY <2>x, <2>y, RecordAppended
  <2>6. /\ Len(a) = Len(m) + 1 /\ a[Len(m) + 1] = rec /\ Len(m) \in Nat
        /\ \A k \in 1 .. Len(m) : a[k] = m[k]
    BY <1>7, AppendProperties
  <2>5. LastHi(a) = Len(its)
    BY <2>y, <2>6 DEF LastHi
  <2>7. \A k \in 1 .. Len(m) : OfBarrier(a, k) = OfBarrier(m, k)
    <3>1. \A k \in 1 .. Len(m) : \A j \in 1 .. k - 1 : a[j] = m[j]
      BY <2>6
    <3> QED BY <2>6, <3>1 DEF OfBarrier
  <2>8. ~OfBarrier(a, Len(m) + 1)
    <3>1. \A j \in 1 .. (Len(m) + 1) - 1 : j \in 1 .. Len(m)
      BY <2>6
    <3> QED BY <2>3, <2>6, <3>1 DEF OfBarrier
  <2>9. RecordsOK(FileOf(t), items[t])'
    BY <1>a, <1>i, <1>1, <2>4
  <2>10. OpenOK(t)'
    <3>1. ASSUME NEW i \in 1 .. Len(its), i > Len(its) PROVE FALSE
      BY <1>7, <3>1
    <3> QED BY <1>a, <1>i, <1>1, <2>5, <3>1 DEF OpenOK
  <2>11. \A k \in 1 .. Len(a) : k \in 1 .. Len(m) \/ k = Len(m) + 1
    BY <2>6
  <2>12. \A k \in 1 .. Len(m) : k \in 1 .. Len(a)
    BY <2>6
  <2>13. Len(m) + 1 \in 1 .. Len(a)
    BY <2>6
  <2>14. \A k \in 1 .. Len(a) : a[k].pid \in 1 .. Len(regions)
    BY <1>2, <1>6, <2>3, <2>6, <2>11
  <2>15. \E k \in 1 .. Len(a) : a[k].pid = r
    BY <1>6, <2>6, <2>13
  <2>16. arrived[r][t] = 0
    BY <1>r, <1>1, FlatThread DEF FrameOK, ArrivedOf, Region
  <2>17. \A k \in 1 .. Len(a) : ~(a[k].pid = r /\ OfBarrier(a, k))
    BY <1>6, <2>3, <2>6, <2>8, <2>11
  <2>18. ASSUME NEW q \in 1 .. program.regions, arrived[q][t] > 0
         PROVE  \E k \in 1 .. Len(a) : OfBarrier(a, k) /\ a[k].pid = q /\ a[k].bid = 0
    <3>1. PICK k \in 1 .. Len(m) : OfBarrier(m, k) /\ m[k].pid = q /\ m[k].bid = 0
      BY <1>m, <2>1, <2>18 DEF PidsOK
    <3> QED BY <2>6, <2>7, <2>12, <3>1
  <2>19. PidsOK(t)'
    BY <1>a, <1>1, <1>8, <1>9, <2>14, <2>15, <2>16, <2>17, <2>18 DEF PidsOK, At
  <2> QED BY <2>9, <2>10, <2>19 DEF AnalysisOK
<1> QED BY <1>10, <1>11

LEMMA ArriveAtBarrierAnalysis ==
  ASSUME CoreInv, FileInv, RangeInv, Flat, \A t \in Threads : AnalysisOK(t),
         NEW t \in Threads, ArriveAtBarrier(t), UNCHANGED program
  PROVE  \A u \in Threads : AnalysisOK(u)'
<1>r. PICK r : r = Region(t)
  OBVIOUS
<1>d. PICK data : data = Deref(Frame(t).ptr)
  OBVIOUS
<1>b. PICK b : b = bid[t]
  OBVIOUS
<1>o. PICK off : off = offset[t]
  OBVIOUS
<1>s. PICK spn : spn = span[t]
  OBVIOUS
<1>m. PICK m : m = FileOf(t)
  OBVIOUS
<1>i. PICK its : its = items[t]
  OBVIOUS
<1>1. /\ At(t, "user") /\ InRegion(t) /\ Frame(t).at = "user" /\ Types
      /\ MoveTo(t, "barrier") /\ UNCHANGED <<tid, items, regions>>
      /\ WriteRecord(t, data, b, off, spn) /\ bid' = [bid EXCEPT ![t] = b + 1]
      /\ arrived' = [arrived EXCEPT ![r][t] = @ + 1]
  BY <1>r, <1>d, <1>b, <1>o, <1>s DEF ArriveAtBarrier, SyncRegion, At, CoreInv
<1>2. /\ data.parallel_id \in Nat /\ data.parent_parallel_id \in Nat /\ data.level \in Nat
      /\ r \in 1 .. Len(regions) /\ r \in 1 .. program.regions /\ tid[t] # -1
  BY <1>r, <1>d, <1>1, DataTypes, HasTid, FlatThread
<1>3. data.parallel_id = r
  BY <1>r, <1>d, <1>1, DerefsOfThreads DEF DerefsExact, Running
<1>4. b \in Nat /\ off \in Nat /\ spn \in Nat
  BY <1>b, <1>o, <1>s DEF FileInv, FileTypes
<1>5. /\ \E rec \in Records : /\ FileOf(t)' = Append(FileOf(t), rec)
                              /\ rec.pid = data.parallel_id /\ rec.bid = b
                              /\ rec.lo = LastHi(FileOf(t)) /\ rec.hi = Len(items[t])
      /\ \A u \in Threads : u # t => FileOf(u)' = FileOf(u)
  BY <1>1, <1>2, <1>4, FileWritten
<1>6. PICK rec \in Records : /\ FileOf(t)' = Append(m, rec) /\ rec.pid = r /\ rec.bid = b
                             /\ rec.lo = LastHi(m) /\ rec.hi = Len(its)
  BY <1>m, <1>i, <1>3, <1>5
<1>a. PICK a : a = FileOf(t)'
  OBVIOUS
<1>7. m \in Seq(Records) /\ its \in Seq(Places) /\ a = Append(m, rec) /\ a \in Seq(Records)
  BY <1>a, <1>m, <1>i, <1>6, FileOfType
<1>8. bid'[t] = b + 1 /\ \A u \in Threads : u # t => bid'[u] = bid[u]
  BY <1>1 DEF FileInv, FileTypes
<1>9. /\ arrived'[r][t] = arrived[r][t] + 1 /\ arrived[r][t] \in Nat
      /\ \A q \in 1 .. program.regions : q # r => arrived'[q][t] = arrived[q][t]
      /\ \A u \in Threads : u # t => \A q \in 1 .. program.regions : arrived'[q][u] = arrived[q][u]
  <2>1. arrived \in [1 .. program.regions -> [Threads -> Nat]]
    BY <1>1 DEF Types
  <2> QED BY <1>1, <1>2, <2>1
<1>10. /\ InRegion(t)' /\ Region(t)' = r /\ Frame(t)'.at = "barrier"
       /\ \A u \in Threads : u # t => frames'[u] = frames[u]
  <2>1. PICK g : g = [Frame(t) EXCEPT !.at = "barrier"]
    OBVIOUS
  <2>2. g \in Frames /\ g.at = "barrier" /\ g.region = r
    BY <1>r, <1>1, <2>1, TopFrame DEF Frames, Region
  <2>3. SetTop(t, g)
    BY <1>1, <2>1, MoveIsSetTop
  <2>4. /\ Len(frames'[t]) = Len(frames[t]) /\ frames'[t] # << >>
        /\ frames'[t][Len(frames[t])] = g
        /\ \A u \in Threads : u # t => frames'[u] = frames[u]
    BY <1>1, <2>2, <2>3, TopSet
  <2> QED BY <2>2, <2>4 DEF InRegion, Region, Frame
<1>11. ASSUME NEW u \in Threads, u # t PROVE AnalysisOK(u)'
  BY <1>1, <1>5, <1>8, <1>9, <1>10, <1>11, FlatThread, AnalysisKept
<1>12. AnalysisOK(t)'
  <2>1. RecordsOK(m, its) /\ OpenOK(t) /\ PidsOK(t)
    BY <1>m, <1>i DEF AnalysisOK
  <2>2. /\ \E k \in 1 .. Len(m) : m[k].pid = r
        /\ b = arrived[r][t]
        /\ \A k \in 1 .. Len(m) : m[k].pid = r /\ OfBarrier(m, k) => m[k].bid < b
        /\ \A k \in 1 .. Len(m) : m[k].pid \in 1 .. Len(regions)
        /\ \A q \in 1 .. program.regions : arrived[q][t] > 0 =>
             \E k \in 1 .. Len(m) : OfBarrier(m, k) /\ m[k].pid = q /\ m[k].bid = 0
    BY <1>m, <1>r, <1>b, <1>1, <2>1 DEF PidsOK
  <2>3. Place(t) = [region |-> r, phase |-> b]
    <3>1. arrived[r][t] = Frame(t).phase
      BY <1>r, <1>1, FlatThread DEF FrameOK, ArrivedOf, Region
    <3> QED BY <1>r, <1>1, <2>2, <3>1 DEF Place
  <2>4. \A i \in 1 .. Len(its) : i > LastHi(m) => its[i] = [region |-> r, phase |-> b]
    BY <1>m, <1>i, <1>1, <2>1, <2>3 DEF OpenOK
  <2>x. /\ \E k \in 1 .. Len(m) : m[k].pid = rec.pid
        /\ \A i \in 1 .. Len(its) : i > LastHi(m) =>
             its[i] = [region |-> rec.pid, phase |-> rec.bid]
        /\ \A k \in 1 .. Len(m) : m[k].pid = rec.pid /\ OfBarrier(m, k) => m[k].bid < rec.bid
    BY <1>6, <2>2, <2>4
  <2>y. /\ RecordsOK(m, its) /\ rec.lo = LastHi(m) /\ rec.hi = Len(its)
        /\ m \in Seq(Records) /\ its \in Seq(Places) /\ a = Append(m, rec) /\ a \in Seq(Records)
    BY <1>6, <1>7, <2>1
  <2>5. RecordsOK(a, its)
    BY <2>x, <2>y, RecordAppended
  <2>6. /\ Len(a) = Len(m) + 1 /\ a[Len(m) + 1] = rec /\ Len(m) \in Nat
        /\ \A k \in 1 .. Len(m) : a[k] = m[k]
    BY <1>7, AppendProperties
  <2>7. LastHi(a) = Len(its)
    BY <2>y, <2>6 DEF LastHi
  <2>8. \A k \in 1 .. Len(m) : OfBarrier(a, k) = OfBarrier(m, k)
    <3>1. \A k \in 1 .. Len(m) : \A j \in 1 .. k - 1 : a[j] = m[j]
      BY <2>6
    <3> QED BY <2>6, <3>1 DEF OfBarrier
  <2>9. OfBarrier(a, Len(m) + 1)
    <3>1. \A j \in 1 .. Len(m) : j \in 1 .. (Len(m) + 1) - 1
      BY <2>6
    <3> QED BY <2>x, <2>6, <3>1 DEF OfBarrier
  <2>10. RecordsOK(FileOf(t), items[t])'
    BY <1>a, <1>i, <1>1, <2>5
  <2>11. OpenOK(t)'
    <3>1. ASSUME NEW i \in 1 .. Len(its), i > Len(its) PROVE FALSE
      BY <1>7, <3>1
    <3> QED BY <1>a, <1>i, <1>1, <2>7, <3>1 DEF OpenOK
  <2>12. \A k \in 1 .. Len(a) : k \in 1 .. Len(m) \/ k = Len(m) + 1
    BY <2>6
  <2>13. /\ \A k \in 1 .. Len(m) : k \in 1 .. Len(a)
         /\ Len(m) + 1 \in 1 .. Len(a)
    BY <2>6
  <2>14. \A k \in 1 .. Len(a) : a[k].pid \in 1 .. Len(regions)
    BY <1>2, <1>6, <2>2, <2>6, <2>12
  <2>15. \E k \in 1 .. Len(a) : a[k].pid = r
    BY <1>6, <2>6, <2>13
  <2>16. b + 1 = arrived'[r][t]
    BY <1>9, <2>2
  <2>17. ASSUME NEW k \in 1 .. Len(a), a[k].pid = r, OfBarrier(a, k) PROVE a[k].bid < b + 1
    <3>1. CASE k \in 1 .. Len(m)
      <4>1. m[k].bid < b /\ a[k] = m[k] /\ m[k].bid \in Nat
        BY <1>7, <2>2, <2>6, <2>8, <2>17, <3>1, LastHiType
      <4> QED BY <1>4, <4>1
    <3>2. CASE k = Len(m) + 1
      BY <1>4, <1>6, <2>6, <3>2
    <3> QED BY <2>12, <3>1, <3>2
  <2>18. ASSUME NEW q \in 1 .. program.regions, arrived'[q][t] > 0
         PROVE  \E k \in 1 .. Len(a) : OfBarrier(a, k) /\ a[k].pid = q /\ a[k].bid = 0
    <3>1. CASE arrived[q][t] > 0
      <4>1. PICK k \in 1 .. Len(m) : OfBarrier(m, k) /\ m[k].pid = q /\ m[k].bid = 0
        BY <2>2, <3>1
      <4> QED BY <2>6, <2>8, <2>13, <4>1
    <3>2. CASE ~(arrived[q][t] > 0)
      <4>1. q = r
        BY <1>9, <2>18, <3>2
      <4>2. rec.bid = 0
        BY <1>4, <1>6, <2>2, <3>2, <4>1
      <4> QED BY <1>6, <2>6, <2>9, <2>13, <4>1, <4>2
    <3> QED BY <3>1, <3>2
  <2>19. PidsOK(t)'
    <3>1. /\ FileOf(t)' = a /\ bid'[t] = b + 1 /\ InRegion(t)' /\ Region(t)' = r
          /\ Frame(t)'.at = "barrier" /\ program' = program /\ regions' = regions
      BY <1>a, <1>1, <1>8, <1>10
    <3> QED BY <3>1, <2>14, <2>15, <2>16, <2>17, <2>18 DEF PidsOK, At
  <2> QED BY <2>10, <2>11, <2>19 DEF AnalysisOK
<1> QED BY <1>11, <1>12

(* The steps in which a thread moves on without a record.                  *)
LEMMA MoveAnalysis ==
  ASSUME CoreInv, FileInv, RangeInv, Flat, \A t \in Threads : AnalysisOK(t),
         NEW t \in Threads, UNCHANGED <<program, arrived, tid, bid, items, metafile>>,
         Moves(t), Frame(t).at \in {"barrier", "joined", "ended"},
         Len(regions') = Len(regions),
         LeaveRegion(t) \/ \E g \in Frames : SetTop(t, g) /\ g.region = Region(t) /\ g.at # "begun"
  PROVE  \A u \in Threads : AnalysisOK(u)'
<1>m. PICK m : m = FileOf(t)
  OBVIOUS
<1>r. PICK r : r = Region(t)
  OBVIOUS
<1>1. InRegion(t) /\ Types
  BY MoveShape DEF CoreInv
<1>2. /\ \A u \in Threads : FileOf(u)' = FileOf(u)
      /\ \A u \in Threads : u # t => frames'[u] = frames[u]
  BY MoveFrames DEF FileOf
<1>3. Len(regions) \in Nat /\ Len(frames[t]) = 1
  BY <1>1, FlatThread
<1>4. ASSUME NEW u \in Threads, u # t PROVE AnalysisOK(u)'
  BY <1>2, <1>3, <1>4, FlatThread, AnalysisKept
<1>5. AnalysisOK(t)'
  <2>1. RecordsOK(m, items[t]) /\ OpenOK(t) /\ PidsOK(t)
    BY <1>m DEF AnalysisOK
  <2>2. RecordsOK(FileOf(t), items[t])'
    BY <1>m, <1>2, <2>1
  <2>3. \A i \in 1 .. Len(items[t]) : ~(i > LastHi(m))
    BY <1>m, <1>1, <2>1 DEF OpenOK
  <2>4. OpenOK(t)'
    BY <1>m, <1>2, <2>3 DEF OpenOK
  <2>5. ~InRegion(t)' \/ (InRegion(t)' /\ Region(t)' = r /\ Frame(t)'.at # "begun")
    <3>1. CASE LeaveRegion(t)
      <4>1. frames' \in [Threads -> Seq(Frames)] /\ Len(frames'[t]) = Len(frames[t]) - 1
        BY <1>1, <3>1, TopLeft
      <4>2. frames'[t] \in Seq(Frames) /\ Len(frames'[t]) = 0
        BY <1>3, <4>1
      <4>3. frames'[t] = << >>
        BY <4>2
      <4> QED BY <4>3 DEF InRegion
    <3>2. ASSUME NEW g \in Frames, SetTop(t, g), g.region = Region(t), g.at # "begun"
          PROVE  InRegion(t)' /\ Region(t)' = r /\ Frame(t)'.at # "begun"
      <4>1. /\ Len(frames'[t]) = Len(frames[t]) /\ frames'[t] # << >>
            /\ frames'[t][Len(frames[t])] = g
        BY <1>1, <3>2, TopSet
      <4> QED BY <1>r, <3>2, <4>1 DEF InRegion, Region, Frame
    <3> QED BY <3>1, <3>2
  <2>6. /\ \E k \in 1 .. Len(m) : m[k].pid = r
        /\ bid[t] = arrived[r][t]
        /\ \A k \in 1 .. Len(m) : m[k].pid = r /\ OfBarrier(m, k) => m[k].bid < bid[t]
        /\ \A k \in 1 .. Len(m) : m[k].pid \in 1 .. Len(regions)
        /\ \A q \in 1 .. program.regions : arrived[q][t] > 0 =>
             \E k \in 1 .. Len(m) : OfBarrier(m, k) /\ m[k].pid = q /\ m[k].bid = 0
    BY <1>m, <1>r, <1>1, <2>1 DEF PidsOK
  <2>7. PidsOK(t)'
    <3>1. FileOf(t)' = m /\ program' = program /\ bid' = bid /\ arrived' = arrived
      BY <1>m, <1>2
    <3> QED BY <3>1, <2>5, <2>6 DEF PidsOK, At
  <2> QED BY <2>2, <2>4, <2>7 DEF AnalysisOK
<1> QED BY <1>4, <1>5

LEMMA LeavesAnalysis ==
  ASSUME CoreInv, FileInv, RangeInv, Flat, \A t \in Threads : AnalysisOK(t),
         NEW t \in Threads, LeaveBarrier(t) \/ ImplicitTaskEndMaster(t) \/ ParallelEnd(t),
         UNCHANGED program
  PROVE  \A u \in Threads : AnalysisOK(u)'
<1>1. /\ InRegion(t) /\ Types /\ Moves(t) /\ Frame(t).at \in {"barrier", "joined", "ended"}
      /\ UNCHANGED <<arrived, tid, bid, items, metafile>>
  BY DEF Moves, LeaveBarrier, ImplicitTaskEndMaster, ParallelEnd, At, CoreInv, files
<1>f. PICK f : f = Frame(t)
  OBVIOUS
<1>2. /\ Len(frames[t]) \in 1 .. Len(frames[t]) /\ f = frames[t][Len(frames[t])]
      /\ f \in Frames /\ f.region = Region(t) /\ f.phase \in Nat
  BY <1>f, <1>1, TopFrame DEF Region, Frames
<1>3. ASSUME NEW place \in {"joined", "ended"}, MoveTo(t, place)
      PROVE  \E g \in Frames : SetTop(t, g) /\ g.region = Region(t) /\ g.at # "begun"
  <2>1. PICK g : g = [f EXCEPT !.at = place]
    OBVIOUS
  <2>2. g \in Frames /\ g.region = Region(t) /\ g.at # "begun"
    BY <1>2, <2>1 DEF Frames
  <2>3. SetTop(t, g)
    BY <1>f, <1>1, <1>3, <2>1, MoveIsSetTop
  <2> QED BY <2>2, <2>3
<1>4. Len(regions') = Len(regions)
  <2>1. PICK r : r = Region(t)
    OBVIOUS
  <2>2. regions \in Seq(RegionRecords)
    BY <1>1 DEF Types
  <2>3. CASE regions' = regions
    BY <2>3
  <2>4. CASE regions' = [regions EXCEPT ![r].ended = TRUE]
    BY <2>2, <2>4
  <2> QED BY <2>1, <2>3, <2>4 DEF LeaveBarrier, ImplicitTaskEndMaster, ParallelEnd
<1>5. LeaveRegion(t)
        \/ \E g \in Frames : SetTop(t, g) /\ g.region = Region(t) /\ g.at # "begun"
  <2>1. CASE frames' = [frames EXCEPT ![t][Len(frames[t])].at = "user",
                                      ![t][Len(frames[t])].phase = @ + 1]
    <3>1. PICK g : g = [f EXCEPT !.at = "user", !.phase = f.phase + 1]
      OBVIOUS
    <3>2. f.phase + 1 \in Nat
      BY <1>2
    <3>3. g \in Frames /\ g.region = Region(t) /\ g.at # "begun"
      BY <1>2, <3>1, <3>2 DEF Frames
    <3>4. SetTop(t, g)
      BY <1>1, <1>2, <2>1, <3>1 DEF SetTop, Types
    <3> QED BY <3>3, <3>4
  <2>2. CASE LeaveBarrier(t)
    BY <1>3, <2>1, <2>2 DEF LeaveBarrier
  <2>3. CASE ImplicitTaskEndMaster(t)
    BY <1>3, <2>3 DEF ImplicitTaskEndMaster
  <2>4. CASE ParallelEnd(t)
    BY <2>4 DEF ParallelEnd
  <2> QED BY <2>2, <2>3, <2>4
<1> QED BY <1>1, <1>4, <1>5, MoveAnalysis

LEMMA AnalysisStep ==
  CoreInv /\ FileInv /\ RangeInv /\ AnalysisInv /\ [Next]_vars => AnalysisInv'
<1> SUFFICES ASSUME CoreInv, FileInv, RangeInv, AnalysisInv, [Next]_vars PROVE AnalysisInv'
  OBVIOUS
<1>1. taskwaits' \in Nat
  <2>1. CASE UNCHANGED taskwaits
    BY <2>1 DEF AnalysisInv
  <2>2. ASSUME NEW t \in Threads, Taskwait(t) PROVE taskwaits' \in Nat
    BY <2>2 DEF AnalysisInv, Taskwait
  <2>3. ASSUME NEW t \in Threads,
               \/ ThreadBegin(t) \/ StoreItem(t) \/ ImplicitTaskBegin(t) \/ ArriveAtBarrier(t)
               \/ LeaveBarrier(t) \/ ImplicitTaskEndMaster(t) \/ ImplicitTaskEndWorker(t)
               \/ ParallelEnd(t)
        PROVE  UNCHANGED taskwaits
    BY <2>3, Zenon DEF openmp, ThreadBegin, StoreItem, ImplicitTaskBegin, ArriveAtBarrier,
       LeaveBarrier, ImplicitTaskEndMaster, ImplicitTaskEndWorker, ParallelEnd
  <2>4. ASSUME NEW t \in Threads, NEW team, NEW requested, NEW barriers,
               ParallelBegin(t, team, requested, barriers)
        PROVE  UNCHANGED taskwaits
    BY <2>4 DEF ParallelBegin
  <2>5. CASE UNCHANGED vars
    BY <2>1, <2>5 DEF vars, openmp
  <2>6. CASE Next
    BY <2>1, <2>2, <2>3, <2>4, <2>6 DEF Next
  <2> QED BY <2>5, <2>6
<1>2. UNCHANGED program
  BY DEF Next, vars
<1>3. ASSUME Flat PROVE \A u \in Threads : AnalysisOK(u)'
  <2>1. \A t \in Threads : AnalysisOK(t)
    BY <1>3 DEF AnalysisInv
  <2>2. ASSUME UNCHANGED <<tid, metafile, items, frames, bid, arrived, regions>>
        PROVE  \A u \in Threads : AnalysisOK(u)'
    <3>1. \A u \in Threads : FileOf(u)' = FileOf(u)
      BY <2>2 DEF FileOf
    <3> QED BY <1>2, <1>3, <2>1, <2>2, <3>1, FlatThread, AnalysisKept
  <2>3. CASE UNCHANGED vars
    BY <2>2, <2>3 DEF vars, openmp, files
  <2>4. CASE Next
    <3>1. PICK t \in Threads :
            \/ ThreadBegin(t) \/ StoreItem(t) \/ Taskwait(t)
            \/ \E team \in SUBSET program.threads,
                  requested \in 1 .. Cardinality(program.threads),
                  barriers \in 0 .. program.barriers :
                 ParallelBegin(t, team, requested, barriers)
            \/ ImplicitTaskBegin(t) \/ ArriveAtBarrier(t)
            \/ LeaveBarrier(t) \/ ImplicitTaskEndMaster(t) \/ ParallelEnd(t)
            \/ ImplicitTaskEndWorker(t)
      BY <2>4 DEF Next
    <3>2. CASE ThreadBegin(t)
      BY <1>2, <1>3, <2>1, <3>2, ThreadBeginAnalysis
    <3>3. CASE StoreItem(t)
      BY <1>2, <1>3, <2>1, <3>3, StoreItemAnalysis
    <3>4. CASE Taskwait(t)
      BY <1>3, <3>4 DEF Taskwait, Flat, AnalysisInv
    <3>5. CASE \E team \in SUBSET program.threads,
                  requested \in 1 .. Cardinality(program.threads),
                  barriers \in 0 .. program.barriers :
                 ParallelBegin(t, team, requested, barriers)
      BY <1>2, <1>3, <2>1, <3>5, ParallelBeginAnalysis
    <3>6. CASE ImplicitTaskBegin(t)
      BY <1>2, <1>3, <2>1, <3>6, ImplicitTaskBeginAnalysis
    <3>7. CASE ArriveAtBarrier(t)
      BY <1>2, <1>3, <2>1, <3>7, ArriveAtBarrierAnalysis
    <3>8. CASE LeaveBarrier(t) \/ ImplicitTaskEndMaster(t) \/ ParallelEnd(t)
      BY <1>2, <1>3, <2>1, <3>8, LeavesAnalysis
    <3>9. CASE ImplicitTaskEndWorker(t)
      BY <2>2, <3>9 DEF ImplicitTaskEndWorker, files
    <3> QED BY <3>1, <3>2, <3>3, <3>4, <3>5, <3>6, <3>7, <3>8, <3>9
  <2> QED BY <2>3, <2>4
<1>4. Flat' = Flat
  BY <1>2 DEF Flat
<1> QED BY <1>1, <1>3, <1>4 DEF AnalysisInv

LEMMA InitAnalysis == Init => AnalysisInv
<1> SUFFICES ASSUME Init, NEW t \in Threads PROVE taskwaits \in Nat /\ AnalysisOK(t)
  BY DEF AnalysisInv, Init
<1>1. FileOf(t) = << >> /\ items[t] = << >> /\ frames[t] = << >> /\ taskwaits = 0
  BY DEF Init, FileOf
<1>2. Len(FileOf(t)) = 0 /\ Len(items[t]) = 0 /\ ~InRegion(t)
  BY <1>1 DEF InRegion
<1>3. \A r \in 1 .. program.regions : arrived[r][t] = 0
  BY DEF Init
<1>4. RecordsOK(FileOf(t), items[t])
  BY <1>2 DEF RecordsOK
<1>5. OpenOK(t)
  BY <1>2 DEF OpenOK
<1>6. PidsOK(t)
  BY <1>2, <1>3 DEF PidsOK, At
<1> QED BY <1>1, <1>4, <1>5, <1>6 DEF AnalysisOK

-----------------------------------------------------------------------------
(* What the analyzer loads for a thread whose region r is closed.          *)
LEMMA LoadedOfPhase ==
  ASSUME FileInv, NEW t \in Threads, tid[t] # -1, AnalysisOK(t),
         NEW r \in 1 .. program.regions, arrived[r][t] > 0, NEW b,
         NEW i \in 1 .. Len(items[t]), i \in Loaded(t, r, b)
  PROVE  items[t][i] = [region |-> r, phase |-> b]
<1>m. PICK m : m = metafile[tid[t]]
  OBVIOUS
<1>s. PICK its : its = items[t]
  OBVIOUS
<1>1. FileOf(t) = m /\ m \in Seq(Records) /\ its \in Seq(Places)
  BY <1>m, <1>s, FileOfType DEF FileOf
<1>2. /\ Len(m) \in Nat
      /\ \A k \in 1 .. Len(m) : m[k].lo \in Nat /\ m[k].hi \in Nat /\ m[k].bid \in Nat
  BY <1>1, LastHiType
<1>3. RecordsOK(m, its) /\ PidsOK(t)
  BY <1>s, <1>1 DEF AnalysisOK
<1>4. PICK k \in 1 .. Len(m) :
        /\ m[k].pid = r /\ m[k].bid = b /\ i \in m[k].lo + 1 .. m[k].hi
        /\ \A j \in 1 .. Len(m) : m[j].pid = r /\ m[j].bid = b => j <= k
  BY <1>m DEF Loaded, Picked
<1>5. Covers(m, k, i) /\ i \in 1 .. Len(its)
  BY <1>s, <1>2, <1>4 DEF Covers
<1>6. RecordOK(m, its, k)
  BY <1>3 DEF RecordsOK
<1>7. CASE OfBarrier(m, k)
  BY <1>s, <1>4, <1>5, <1>6, <1>7 DEF RecordOK
<1>8. CASE ~OfBarrier(m, k)
  <2>1. b = 0
    BY <1>4, <1>6, <1>8 DEF RecordOK
  <2>2. PICK j \in 1 .. Len(m) : OfBarrier(m, j) /\ m[j].pid = r /\ m[j].bid = 0
    BY <1>1, <1>3 DEF PidsOK
  <2>3. j <= k /\ j # k
    BY <1>4, <1>8, <2>1, <2>2
  <2>4. j \in 1 .. k - 1
    BY <1>2, <2>3
  <2>5. m[j].bid < m[k].bid
    BY <1>4, <1>6, <2>2, <2>4 DEF RecordOK
  <2> QED BY <1>4, <2>1, <2>2, <2>5
<1> QED BY <1>7, <1>8

(* What a thread stored in region r is loaded when the region has ended.   *)
LEMMA PhaseLoaded ==
  ASSUME CoreInv, FileInv, RangeInv, Flat, NEW t \in Threads, AnalysisOK(t),
         NEW r \in 1 .. Len(regions), tid[t] # -1, t \in regions[r].team, Closed(r),
         NEW i \in 1 .. Len(items[t]), items[t][i].region = r
  PROVE  items[t][i].phase \in Bids /\ i \in Loaded(t, r, items[t][i].phase)
<1>m. PICK m : m = metafile[tid[t]]
  OBVIOUS
<1>s. PICK its : its = items[t]
  OBVIOUS
<1>1. FileOf(t) = m /\ m \in Seq(Records) /\ its \in Seq(Places)
  BY <1>m, <1>s, FileOfType DEF FileOf
<1>2. /\ Len(m) \in Nat /\ LastHi(m) \in Nat
      /\ \A k \in 1 .. Len(m) : m[k].lo \in Nat /\ m[k].hi \in Nat /\ m[k].bid \in Nat
  BY <1>1, LastHiType
<1>3. RecordsOK(m, its) /\ OpenOK(t) /\ i \in 1 .. Len(its) /\ r # 0 /\ its[i].region = r
  BY <1>s, <1>1 DEF AnalysisOK
<1>4. i <= LastHi(m)
  <2> SUFFICES ASSUME i > LastHi(m) PROVE FALSE
    BY <1>1, <1>2
  <2>1. At(t, "user") /\ its[i] = Place(t) /\ InRegion(t)
    BY <1>s, <1>1, <1>3 DEF OpenOK, At
  <2>2. Region(t) = r
    BY <1>3, <2>1 DEF Place
  <2>3. arrived[r][t] = Frame(t).phase /\ Frame(t).phase <= regions[r].barriers
    BY <2>1, <2>2, FlatThread DEF FrameOK, ArrivedOf, Region, At
  <2>4. arrived[r][t] > regions[r].barriers
    BY DEF Closed
  <2>5. regions[r].barriers \in Nat /\ Frame(t).phase \in Nat
    BY <2>1, FlatThread, RegionTypes DEF CoreInv, Frames
  <2> QED BY <2>3, <2>4, <2>5
<1>5. PICK k \in 1 .. Len(m) : Covers(m, k, i)
  BY <1>3, <1>4 DEF RecordsOK
<1>6. RecordOK(m, its, k)
  BY <1>3 DEF RecordsOK
<1>7. OfBarrier(m, k) /\ its[i] = [region |-> m[k].pid, phase |-> m[k].bid]
  BY <1>3, <1>5, <1>6 DEF RecordOK
<1>b. PICK b : b = m[k].bid
  OBVIOUS
<1>8. m[k].pid = r /\ its[i].phase = b
  BY <1>3, <1>7, <1>b
<1>9. ASSUME NEW j \in 1 .. Len(m), m[j].pid = r, m[j].bid = b PROVE j <= k
  <2> SUFFICES ASSUME ~(j <= k) PROVE FALSE
    OBVIOUS
  <2>1. k \in 1 .. j - 1
    BY <1>2
  <2>2. RecordOK(m, its, j)
    BY <1>3 DEF RecordsOK
  <2>3. m[k].bid < m[j].bid
    BY <1>7, <1>8, <1>9, <2>1, <2>2 DEF RecordOK
  <2> QED BY <1>2, <1>9, <1>b, <2>3
<1>10. i \in m[k].lo + 1 .. m[k].hi
  BY <1>2, <1>3, <1>5 DEF Covers
<1>11. k \in Picked(tid[t], r, b)
  BY <1>m, <1>b, <1>8, <1>9 DEF Picked
<1>12. i \in Loaded(t, r, b)
  BY <1>m, <1>10, <1>11 DEF Loaded
<1>13. tid[t] \in Tids
  BY TidRange DEF Begun
<1>14. b \in Bids
  BY <1>m, <1>b, <1>13 DEF Bids
<1> QED BY <1>s, <1>8, <1>12, <1>14

LEMMA LoadedIffConcurrent ==
  CoreInv /\ FileInv /\ RangeInv /\ AnalysisInv => ComparedIffConcurrent
<1> SUFFICES ASSUME CoreInv, FileInv, RangeInv, AnalysisInv, Flat,
                    NEW r \in 1 .. Len(regions), regions[r].ended,
                    NEW t \in regions[r].team, NEW u \in regions[r].team,
                    NEW i \in 1 .. Len(items[t]), NEW j \in 1 .. Len(items[u])
             PROVE  Compared(r, t, i, u, j)
                      <=> items[t][i] = items[u][j] /\ items[t][i].region = r
  BY DEF ComparedIffConcurrent, Flat
<1>1. Types /\ Closed(r) /\ r \in 1 .. program.regions /\ t \in Threads /\ u \in Threads
  BY RegionTypes DEF CoreInv, RegionsInv
<1>2. AnalysisOK(t) /\ AnalysisOK(u)
  BY <1>1 DEF AnalysisInv
<1>3. ASSUME NEW w \in regions[r].team PROVE arrived[r][w] > 0 /\ tid[w] # -1
  <2>0. w \in Threads /\ AnalysisOK(w)
    BY <1>1, RegionTypes DEF AnalysisInv
  <2>1. arrived[r][w] > regions[r].barriers /\ regions[r].barriers \in Nat
        /\ arrived[r][w] \in Nat
    BY <1>1, <2>0, RegionTypes DEF Closed, Types
  <2>2. arrived[r][w] > 0
    BY <2>1
  <2>3. \E k \in 1 .. Len(FileOf(w)) : FileOf(w)[k].pid = r
    BY <1>1, <2>0, <2>2 DEF AnalysisOK, PidsOK
  <2>4. tid[w] = -1 => Len(FileOf(w)) = 0
    BY DEF FileOf
  <2> QED BY <2>2, <2>3, <2>4
<1>4. ASSUME Compared(r, t, i, u, j)
      PROVE  items[t][i] = items[u][j] /\ items[t][i].region = r
  <2>1. PICK b \in Bids : i \in Loaded(t, r, b) /\ j \in Loaded(u, r, b)
    BY <1>4 DEF Compared
  <2>2. items[t][i] = [region |-> r, phase |-> b]
    BY <1>1, <1>2, <1>3, <2>1, LoadedOfPhase
  <2>3. items[u][j] = [region |-> r, phase |-> b]
    BY <1>1, <1>2, <1>3, <2>1, LoadedOfPhase
  <2> QED BY <2>2, <2>3
<1>5. ASSUME items[t][i] = items[u][j], items[t][i].region = r
      PROVE  Compared(r, t, i, u, j)
  <2>b. PICK b : b = items[t][i].phase
    OBVIOUS
  <2>1. b \in Bids /\ i \in Loaded(t, r, b)
    BY <1>1, <1>2, <1>3, <1>5, <2>b, PhaseLoaded
  <2>2. j \in Loaded(u, r, b)
    BY <1>1, <1>2, <1>3, <1>5, <2>b, PhaseLoaded
  <2> QED BY <2>1, <2>2 DEF Compared
<1> QED BY <1>4, <1>5

(* The race analyzer compares two accesses of threads of one team if and   *)
(* only if they were made in the same phase of the region, for programs    *)
(* without inner regions and taskwaits: a record that replaces another in  *)
(* traces[tid] always is the one of the barrier.                           *)
THEOREM ComparisonsAreExact == Spec => []ComparedIffConcurrent
<1>1. Spec => []AnalysisInv
  BY InitAnalysis, AnalysisStep, Invariance, FilesInvariance, RangesInvariance, PTL DEF Spec
<1> QED BY <1>1, LoadedIffConcurrent, Invariance, FilesInvariance, RangesInvariance, PTL
=============================================================================
