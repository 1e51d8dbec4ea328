-------------------------- MODULE TraceBufferProofs --------------------------
(***************************************************************************)
(* Theorems about TraceBuffer, for every size of the buffer, every set of  *)
(* accesses and locks and every bound.                                     *)
(***************************************************************************)
EXTENDS TraceBuffer, FiniteSetTheorems, TLAPS

-----------------------------------------------------------------------------
(* The inductive invariant, part by part.                                  *)

(* One dump at a time, and it is the one the future stands for; a dump of  *)
(* a partly filled buffer keeps the thread parked until it has finished.   *)
OneDump ==
  /\ DumpsExclusive
  /\ \A j \in running :
       /\ j.id = fut /\ j.b = cur
       /\ j.n < NUM_OF_ACCESSES => pc = "record"

(* How full the buffer is where the thread is parked, and how much a dump  *)
(* is given of it.                                                         *)
Parked ==
  /\ pc = "full" => idx = NUM_OF_ACCESSES
  /\ pc = "flush" => idx > 0
  /\ pc = "record" => idx = 0
  /\ idx <= Len(log)
  /\ \A j \in running : Len(j.given) = j.n

(* Where the items are that have left the buffer: in the file, or in the   *)
(* dump that is about to append them.                                      *)
Accounting ==
  /\ pc # "ended" /\ running = {} =>
       /\ ItemOf(Len(datafile)) = Len(log) - idx
       /\ offset_end = PosOf(Len(datafile))
  /\ \A j \in running :
       /\ j.first + j.n = Len(log) - idx
       /\ j.stage # "written" => j.first = ItemOf(Len(datafile))
       /\ pc # "ended" /\ j.stage # "written" => offset_end = PosOf(Len(datafile))
       /\ pc # "ended" /\ j.stage = "written" =>
            /\ ItemOf(Len(datafile)) = Len(log) - idx
            /\ offset_end + BlockSize(j.n) = PosOf(Len(datafile))

(* Slot s of a buffer may hold item v when items were given from slot 1 as *)
(* first + 1, ..., first + n and the log has len items.                    *)
SlotFits(v, first, s, n, len) ==
  /\ v <= len
  /\ \/ v = first + s
     \/ n = NUM_OF_ACCESSES /\ v = first + n + s

(* The set S of items may stand where item first + k belongs.              *)
Fits(S, first, k, n, len) ==
  /\ \A v \in S : v <= len
  /\ \/ S = {first + k}
     \/ /\ n = NUM_OF_ACCESSES
        /\ S \subseteq (first + 1 .. first + k) \cup (first + n + 1 .. first + n + k)
        /\ \E v \in S : v > first + n

(* What the buffer, the running dump and the blocks hold.                  *)
Contents ==
  /\ \A s \in 0 .. idx - 1 : bufs[cur][s] = Len(log) - idx + s + 1
  /\ \A j \in running :
       /\ j.stage = "compress" => \A s \in 1 .. j.n :
            /\ j.given[s] = j.first + s
            /\ SlotFits(bufs[j.b][s - 1], j.first, s, j.n, Len(log))
       /\ j.stage # "compress" => \A k \in 1 .. j.n :
            Fits(j.data[k], j.first, k, j.n, Len(log))
  /\ \A i \in 1 .. Len(datafile) : \A k \in 1 .. datafile[i].n :
       Fits(datafile[i].data[k], datafile[i].first, k, datafile[i].n, Len(log))

(* Blocks lie one after the other, in bytes and in items.                  *)
Ordered ==
  \A i, j \in 1 .. Len(datafile) : i < j =>
    /\ datafile[i].pos + BlockSize(datafile[i].n) <= datafile[j].pos
    /\ datafile[i].first + datafile[i].n <= datafile[j].first

(* The open interval begins between two blocks.                            *)
OpenInterval ==
  /\ \E m \in 0 .. Len(datafile) : offset_begin = PosOf(m) /\ Mark = ItemOf(m)
  /\ Mark <= Len(log) - idx

(* The parts of the invariant that type correctness needs.                 *)
TypeInv == TypeOK /\ Parked

(* What the two files say about each other.                                *)
FileInv == Ordered /\ IntervalsOnFile /\ NoForeignItems

IInv ==
  /\ TypeInv
  /\ OneDump
  /\ Accounting
  /\ Contents
  /\ OpenInterval
  /\ FileInv

-----------------------------------------------------------------------------
(* Type correctness.                                                       *)

(* Positions in the file are natural numbers.                              *)
LEMMA PosType ==
  ASSUME datafile \in Seq(Blocks)
  PROVE  \A k \in 0 .. Len(datafile) : PosOf(k) \in Nat /\ ItemOf(k) \in Nat
<1> SUFFICES ASSUME NEW k \in 0 .. Len(datafile)
             PROVE  PosOf(k) \in Nat /\ ItemOf(k) \in Nat
  OBVIOUS
<1>1. CASE k = 0
  BY <1>1 DEF PosOf, ItemOf
<1>2. CASE k # 0
  <2>1. datafile[k] \in Blocks
    BY <1>2
  <2>2. datafile[k].pos \in Nat /\ datafile[k].first \in Nat /\ datafile[k].n \in Nat
    BY <2>1 DEF Blocks
  <2>3. HEADER \in Nat
    BY ConstantsAssumption
  <2> QED BY <1>2, <2>2, <2>3 DEF PosOf, ItemOf, BlockSize
<1> QED BY <1>1, <1>2

(* What the types say of the files and the log.                            *)
LEMMA FileTypes ==
  ASSUME TypeInv
  PROVE  /\ datafile \in Seq(Blocks) /\ Len(datafile) \in Nat
         /\ log \in Seq(Items) /\ Len(log) \in Nat
         /\ \A k \in 1 .. Len(datafile) : datafile[k] \in Blocks
<1>1. datafile \in Seq(Blocks) /\ log \in Seq(Items)
  BY DEF TypeInv, TypeOK
<1> QED BY <1>1

(* The number of items before the last record is one.                      *)
LEMMA MarkType == metafile \in Seq(Records) => Mark \in Nat
<1> SUFFICES ASSUME metafile \in Seq(Records), metafile # << >>
             PROVE  metafile[Len(metafile)].hi \in Nat
  BY DEF Mark
<1>1. metafile[Len(metafile)] \in Records
  OBVIOUS
<1> QED BY <1>1 DEF Records

(* The initial state has its types.                                        *)
LEMMA TypeInit == Init => TypeInv
  BY ConstantsAssumption DEF Init, TypeInv, TypeOK, Parked, Slots, Jobs

(* What compression may leave in a slot are items the buffer held.         *)
LEMMA MayHoldType ==
  ASSUME TypeInv, NEW j \in running, NEW k \in 1 .. j.n
  PROVE  MayHold(j, k) \in SUBSET Nat
<1>1. /\ j \in Jobs /\ Len(j.given) = j.n /\ j.given \in Seq(Nat)
      /\ j.n \in 1 .. NUM_OF_ACCESSES /\ j.b \in {1, 2}
  BY DEF TypeInv, TypeOK, Parked, Jobs
<1>2. ASSUME NEW s \in 1 .. k
      PROVE  j.given[s] \in Nat /\ bufs[j.b][s - 1] \in Nat
  <2>1. s \in 1 .. j.n /\ s - 1 \in Slots
    BY <1>1, ConstantsAssumption DEF Slots
  <2>2. j.given[s] \in Nat
    BY <1>1, <2>1
  <2>3. bufs[j.b][s - 1] \in Nat
    BY <1>1, <2>1 DEF TypeInv, TypeOK
  <2> QED BY <2>2, <2>3
<1> QED BY <1>2 DEF MayHold

(* A step of a dump keeps the types: it reads only slots of the buffer.    *)
LEMMA TypeDump == TypeInv /\ Dump => TypeInv'
<1> SUFFICES ASSUME TypeInv, NEW j \in running,
                    DumpCompress(j) \/ DumpWrite(j) \/ DumpFinish(j)
             PROVE  TypeInv'
  BY DEF Dump
<1> USE ConstantsAssumption
<1> j \in Jobs
  BY DEF TypeInv, TypeOK
<1>1. CASE DumpCompress(j)
  <2> DEFINE d == [k \in 1 .. j.n |-> MayHold(j, k)]
             jj == [j EXCEPT !.data = d, !.stage = "compressed"]
  <2>1. j.n \in Nat /\ d \in Seq(SUBSET Nat)
    BY MayHoldType DEF Jobs
  <2> HIDE DEF d
  <2>2. jj \in Jobs /\ jj.given = j.given /\ jj.n = j.n
    BY <2>1 DEF Jobs
  <2>3. running' = (running \ {j}) \cup {jj}
    BY <1>1 DEF DumpCompress, d
  <2> QED BY <1>1, <2>2, <2>3 DEF DumpCompress, TypeInv, TypeOK, Parked,
                                  threadVars, fileVars, history
<1>2. CASE DumpWrite(j)
  <2>1. PosOf(Len(datafile)) \in Nat
    BY PosType DEF TypeInv, TypeOK
  <2>2. BlockOf(j) \in Blocks
    BY <2>1 DEF BlockOf, Blocks, Jobs
  <2>3. datafile' \in Seq(Blocks)
    <3>1. datafile \in Seq(Blocks)
      BY DEF TypeInv, TypeOK
    <3>2. Append(datafile, BlockOf(j)) \in Seq(Blocks)
      BY <2>2, <3>1
    <3> QED BY <1>2, <3>1, <3>2 DEF DumpWrite
  <2>4. /\ [j EXCEPT !.stage = "written"] \in Jobs
        /\ [j EXCEPT !.stage = "written"].given = j.given
        /\ [j EXCEPT !.stage = "written"].n = j.n
    BY DEF Jobs
  <2> QED BY <1>2, <2>3, <2>4 DEF DumpWrite, TypeInv, TypeOK, Parked,
                                  threadVars, history
<1>3. CASE DumpFinish(j)
  <2>1. offset_end' \in Nat
    <3>1. offset_end \in Nat /\ j.n \in Nat /\ HEADER \in Nat
      BY ConstantsAssumption DEF TypeInv, TypeOK, Jobs
    <3> QED BY <1>3, <3>1 DEF DumpFinish, BlockSize
  <2>2. /\ running' \subseteq running
        /\ UNCHANGED <<pc, op, threadVars, fut, datafile, offset_begin, metafile, history>>
    BY <1>3 DEF DumpFinish
  <2>3. Parked'
    BY <2>2 DEF TypeInv, Parked, threadVars, history
  <2>4. TypeOK'
    BY <2>1, <2>2 DEF TypeInv, TypeOK, threadVars, history
  <2> QED BY <2>3, <2>4 DEF TypeInv
<1> QED BY <1>1, <1>2, <1>3

(* What a dump is given is a sequence of items.                            *)
LEMMA BufferedType ==
  ASSUME TypeInv, NEW n \in 1 .. NUM_OF_ACCESSES
  PROVE  BufferedItems(n) \in Seq(Nat) /\ Len(BufferedItems(n)) = n
<1>1. ASSUME NEW s \in 1 .. n PROVE bufs[cur][s - 1] \in Nat
  <2>1. s - 1 \in Slots
    BY ConstantsAssumption DEF Slots
  <2> QED BY <2>1 DEF TypeInv, TypeOK
<1>2. n \in Nat
  OBVIOUS
<1> QED BY <1>1, <1>2 DEF BufferedItems

(* So does a thread that goes on after a wait.                             *)
LEMMA TypeResume == TypeInv /\ Resume => TypeInv'
<1> SUFFICES ASSUME TypeInv, Resume PROVE TypeInv'
  OBVIOUS
<1> USE ConstantsAssumption
<1>0. ASSUME NEW n \in 1 .. NUM_OF_ACCESSES, n <= Len(log), StartDump(n)
      PROVE  /\ fut' \in Nat /\ running' \subseteq Jobs
             /\ \A j \in running' : Len(j.given) = j.n
             /\ idx' = 0 /\ set' = {} /\ cur' = cur
  <2> DEFINE g == BufferedItems(n)
             j == [id |-> fut + 1, b |-> cur, first |-> Len(log) - n, n |-> n,
                   given |-> g, data |-> << >>, stage |-> "compress"]
  <2>1. g \in Seq(Nat) /\ Len(g) = n
    BY <1>0, BufferedType
  <2> HIDE DEF g
  <2>2. j \in Jobs /\ Len(j.given) = j.n
    BY <1>0, <2>1 DEF TypeInv, TypeOK, Jobs
  <2>3. running' = running \cup {j}
    BY <1>0 DEF StartDump, g
  <2> QED BY <1>0, <2>2, <2>3 DEF StartDump, SWAP_BUFFER, TypeInv, TypeOK, Parked
<1>1. CASE DumpFull
  <2>1. NUM_OF_ACCESSES <= Len(log)
    BY <1>1 DEF DumpFull, TypeInv, Parked
  <2>2. /\ fut' \in Nat /\ running' \subseteq Jobs
        /\ \A j \in running' : Len(j.given) = j.n
        /\ idx' = 0 /\ set' = {} /\ cur' = cur
    BY <1>0, <1>1, <2>1 DEF DumpFull
  <2> QED BY <1>1, <2>2 DEF DumpFull, TypeInv, TypeOK, Parked, fileVars, history
<1>2. CASE DumpNoCheck
  <2>1. idx \in 1 .. NUM_OF_ACCESSES /\ idx <= Len(log)
    BY <1>2 DEF DumpNoCheck, TypeInv, TypeOK, Parked
  <2>2. /\ fut' \in Nat /\ running' \subseteq Jobs
        /\ \A j \in running' : Len(j.given) = j.n
        /\ idx' = 0 /\ set' = {} /\ cur' = cur
    BY <1>0, <1>2, <2>1 DEF DumpNoCheck
  <2> QED BY <1>2, <2>2 DEF DumpNoCheck, TypeInv, TypeOK, Parked, fileVars,
                            history
<1>3. CASE WriteRecord
  <2>1. Mark \in Nat
    BY MarkType DEF TypeInv, TypeOK
  <2>2. metafile' \in Seq(Records)
    BY <1>3, <2>1 DEF WriteRecord, TypeInv, TypeOK, Records
  <2> QED BY <1>3, <2>2 DEF WriteRecord, TypeInv, TypeOK, Parked
<1> QED BY <1>1, <1>2, <1>3 DEF Resume

(* Storing an item keeps the types.                                        *)
LEMMA TypeStore ==
  ASSUME TypeInv, pc = "user", NEW item \in Items, StoreItem(item)
  PROVE  /\ pc' \in {"user", "full"} /\ idx' \in 0 .. NUM_OF_ACCESSES
         /\ bufs' \in [{1, 2} -> [Slots -> Nat]]
         /\ log' \in Seq(Items) /\ Len(log') = Len(log) + 1
         /\ pc' # "full" => idx' < NUM_OF_ACCESSES
         /\ pc' = "full" => idx' = NUM_OF_ACCESSES
         /\ idx' <= Len(log')
<1> USE ConstantsAssumption
<1>1. idx \in Slots /\ cur \in {1, 2}
  BY DEF TypeInv, TypeOK, Slots
<1> QED BY <1>1 DEF StoreItem, TypeInv, TypeOK, Parked

(* And so does every handler.                                              *)
LEMMA TypeHandler == TypeInv /\ Handler => TypeInv'
<1> SUFFICES ASSUME TypeInv, Handler PROVE TypeInv'
  OBVIOUS
<1> USE ConstantsAssumption
<1>1. ASSUME NEW a \in Accesses, SaveAccess(a) PROVE TypeInv'
  <2> DEFINE item == [kind |-> "data_access", what |-> a, held |-> held]
  <2>1. item \in Items /\ [what |-> a, held |-> held]
                             \in [what : Accesses, held : SUBSET Locks]
    BY DEF TypeInv, TypeOK, Items
  <2>2. performed' \subseteq [what : Accesses, held : SUBSET Locks]
    BY <1>1, <2>1 DEF SaveAccess, TypeInv, TypeOK
  <2>3. CASE hash_value[a] \notin set /\ StoreItem(item)
    BY <1>1, <2>1, <2>2, <2>3, TypeStore
    DEF SaveAccess, TypeInv, TypeOK, Parked, fileVars
  <2>4. CASE UNCHANGED <<pc, idx, bufs, set, log>>
    BY <1>1, <2>2, <2>4 DEF SaveAccess, TypeInv, TypeOK, Parked, fileVars
  <2> QED BY <1>1, <2>3, <2>4 DEF SaveAccess
<1>2. ASSUME NEW l \in Locks, MutexAcquired(l) \/ MutexReleased(l)
      PROVE TypeInv'
  <2> DEFINE item(k) == [kind |-> k, what |-> l, held |-> held]
  <2>1. item("mutex_acquired") \in Items /\ item("mutex_released") \in Items
    BY DEF TypeInv, TypeOK, Items
  <2>2. CASE MutexAcquired(l)
    BY <2>1, <2>2, TypeStore
    DEF MutexAcquired, TypeInv, TypeOK, Parked, fileVars
  <2>3. CASE MutexReleased(l)
    BY <2>1, <2>3, TypeStore
    DEF MutexReleased, TypeInv, TypeOK, Parked, fileVars
  <2> QED BY <1>2, <2>2, <2>3
<1>3. CASE ImplicitTaskBegin
  BY <1>3 DEF ImplicitTaskBegin, EnterCut, TypeInv, TypeOK, Parked, fileVars,
              history
<1>4. CASE SyncRegionBegin
  BY <1>4 DEF SyncRegionBegin, EnterCut, TypeInv, TypeOK, Parked, threadVars,
              fileVars, history
<1>5. CASE ImplicitTaskEnd
  BY <1>5 DEF ImplicitTaskEnd, TypeInv, TypeOK, Parked, fileVars, history
<1>6. CASE ThreadEnd
  BY <1>6 DEF ThreadEnd, TypeInv, TypeOK, Parked, threadVars, fileVars, history
<1> QED BY <1>1, <1>2, <1>3, <1>4, <1>5, <1>6 DEF Handler

(* Every step keeps the types.                                             *)
LEMMA TypeStep == TypeInv /\ [Next]_vars => TypeInv'
<1>1. TypeInv /\ UNCHANGED vars => TypeInv'
  BY DEF vars, threadVars, fileVars, history, TypeInv, TypeOK, Parked
<1> QED BY <1>1, TypeDump, TypeResume, TypeHandler DEF Next

(* The runtime's buffer is never indexed past its end, and every offset,   *)
(* record and block has its type, whatever the program does.               *)
THEOREM TypeCorrect == Spec => []TypeOK
<1>1. TypeInv => TypeOK
  BY DEF TypeInv
<1> QED BY <1>1, TypeInit, TypeStep, PTL DEF Spec

-----------------------------------------------------------------------------
(* The inductive invariant.                                                *)

(* It holds initially.                                                     *)
LEMMA IInvInit == Init => IInv
<1> SUFFICES ASSUME Init PROVE IInv
  OBVIOUS
<1>1. TypeInv
  BY TypeInit
<1>2. OneDump /\ Accounting /\ Contents /\ OpenInterval
  BY DEF Init, OneDump, DumpsExclusive, Accounting, Contents, OpenInterval,
         PosOf, ItemOf, Mark
<1>3. FileInv
  BY DEF Init, FileInv, Ordered, IntervalsOnFile, BlocksContiguous,
         NoForeignItems
<1> QED BY <1>1, <1>2, <1>3 DEF IInv

(* What the files say is kept by every step that leaves them alone.        *)
LEMMA FileInvUnchanged ==
  FileInv /\ UNCHANGED <<datafile, metafile>> => FileInv'
  BY DEF FileInv, Ordered, IntervalsOnFile, BlocksContiguous, NoForeignItems,
         PosOf, ItemOf

(* The beginning of the open interval too.                                 *)
LEMMA OpenIntervalUnchanged ==
  ASSUME TypeInv, OpenInterval, Len(log') - idx' >= Len(log) - idx,
         Len(log') \in Nat, idx' \in Nat,
         UNCHANGED <<datafile, metafile, offset_begin>>
  PROVE  OpenInterval'
<1>1. Mark \in Nat /\ Mark' = Mark
  BY MarkType DEF TypeInv, TypeOK, Mark
<1>2. Mark' <= Len(log') - idx'
  BY <1>1 DEF OpenInterval, TypeInv, TypeOK
<1>3. PICK m \in 0 .. Len(datafile) : offset_begin = PosOf(m) /\ Mark = ItemOf(m)
  BY DEF OpenInterval
<1>4. PosOf(m)' = PosOf(m) /\ ItemOf(m)' = ItemOf(m)
  BY DEF PosOf, ItemOf
<1> QED BY <1>1, <1>2, <1>3, <1>4 DEF OpenInterval

(* What compression may leave in a slot fits, when what it was given and   *)
(* what the buffer holds does.                                             *)
LEMMA MayHoldFits ==
  ASSUME IInv, NEW j \in running, j.stage = "compress", NEW k \in 1 .. j.n
  PROVE  Fits(MayHold(j, k), j.first, k, j.n, Len(log))
<1>1. /\ TypeInv /\ j \in Jobs /\ j.n \in Nat /\ j.first \in Nat
      /\ Len(log) \in Nat /\ idx \in Nat /\ k \in 1 .. j.n
  BY DEF IInv, TypeInv, TypeOK, Jobs
<1>2. j.first + j.n <= Len(log)
  <2>1. j.first + j.n = Len(log) - idx
    BY DEF IInv, Accounting
  <2> QED BY <1>1, <2>1
<1>3. \A s \in 1 .. k : /\ s \in 1 .. j.n /\ j.given[s] = j.first + s
                        /\ SlotFits(bufs[j.b][s - 1], j.first, s, j.n, Len(log))
  BY <1>1 DEF IInv, Contents
<1>4. CASE \E s \in 1 .. k : Overwritten(j, s)
  <2>1. MayHold(j, k) = UNION {{j.given[s], bufs[j.b][s - 1]} : s \in 1 .. k}
    BY <1>4 DEF MayHold
  <2>2. PICK s \in 1 .. k : bufs[j.b][s - 1] # j.given[s]
    BY <1>4 DEF Overwritten
  <2>3. j.n = NUM_OF_ACCESSES /\ bufs[j.b][s - 1] = j.first + j.n + s
    BY <1>3, <2>2 DEF SlotFits
  <2>4. bufs[j.b][s - 1] \in MayHold(j, k) /\ bufs[j.b][s - 1] > j.first + j.n
    BY <1>1, <2>1, <2>3
  <2>5. ASSUME NEW v \in MayHold(j, k)
        PROVE  /\ v <= Len(log)
               /\ v \in (j.first + 1 .. j.first + k)
                       \cup (j.first + j.n + 1 .. j.first + j.n + k)
    <3>1. PICK r \in 1 .. k : v = j.given[r] \/ v = bufs[j.b][r - 1]
      BY <2>1, <2>5
    <3>2. CASE v = j.first + r
      BY <1>1, <1>2, <3>2
    <3>3. CASE v = j.first + j.n + r /\ v <= Len(log)
      BY <1>1, <3>3
    <3>4. v = j.first + r \/ (v = j.first + j.n + r /\ v <= Len(log))
      <4>1. /\ j.given[r] = j.first + r
            /\ SlotFits(bufs[j.b][r - 1], j.first, r, j.n, Len(log))
        BY <1>3
      <4> QED BY <3>1, <4>1 DEF SlotFits
    <3> QED BY <3>2, <3>3, <3>4
  <2> QED BY <2>3, <2>4, <2>5 DEF Fits
<1>5. CASE ~ \E s \in 1 .. k : Overwritten(j, s)
  <2>1. MayHold(j, k) = {j.first + k}
    BY <1>1, <1>3, <1>5 DEF MayHold
  <2> QED BY <1>1, <1>2, <2>1 DEF Fits
<1> QED BY <1>4, <1>5

(* A dump that has compressed its buffer.                                  *)
LEMMA CompressStep ==
  ASSUME IInv, NEW j \in running, DumpCompress(j)
  PROVE  IInv'
<1> DEFINE d == [k \in 1 .. j.n |-> MayHold(j, k)]
           jj == [j EXCEPT !.data = d, !.stage = "compressed"]
<1>1. TypeInv /\ TypeInv' /\ j \in Jobs
  BY TypeDump DEF IInv, Dump, TypeInv, TypeOK
<1>2. running = {j} /\ running' = {jj}
  BY DEF IInv, OneDump, DumpsExclusive, DumpCompress
<1>3. UNCHANGED <<pc, op, threadVars, fut, fileVars, history>>
  BY DEF DumpCompress
<1>4. j.stage = "compress"
  BY DEF DumpCompress
<1>5. \A k \in 1 .. j.n : Fits(d[k], j.first, k, j.n, Len(log))
  BY <1>4, MayHoldFits
<1> HIDE DEF d
<1>6. /\ jj.id = j.id /\ jj.b = j.b /\ jj.n = j.n /\ jj.first = j.first
      /\ jj.stage = "compressed" /\ jj.data = d
  BY <1>1 DEF Jobs
<1> HIDE DEF jj
<1>7. OneDump'
  BY <1>2, <1>3, <1>6 DEF IInv, OneDump, DumpsExclusive, threadVars
<1>8. Accounting'
  BY <1>2, <1>3, <1>4, <1>6
  DEF IInv, Accounting, threadVars, fileVars, history, PosOf, ItemOf
<1>9. Contents'
  BY <1>2, <1>3, <1>5, <1>6
  DEF IInv, Contents, Fits, threadVars, fileVars, history
<1>10. OpenInterval' /\ FileInv'
  BY <1>1, <1>3, FileInvUnchanged, OpenIntervalUnchanged
  DEF IInv, threadVars, fileVars, history, TypeInv, TypeOK
<1> QED BY <1>1, <1>7, <1>8, <1>9, <1>10 DEF IInv

(* A dump that has appended its block: positions of older blocks stay, and *)
(* the new block is where the file ended.                                  *)
LEMMA AppendedBlock ==
  ASSUME TypeInv, NEW L, L = Len(datafile), NEW B \in Blocks,
         datafile' = Append(datafile, B)
  PROVE  /\ Len(datafile') = L + 1
         /\ \A k \in 1 .. L : datafile'[k] = datafile[k]
         /\ datafile'[L + 1] = B
         /\ \A k \in 0 .. L : PosOf(k)' = PosOf(k) /\ ItemOf(k)' = ItemOf(k)
         /\ PosOf(L + 1)' = B.pos + BlockSize(B.n)
         /\ ItemOf(L + 1)' = B.first + B.n
<1>1. datafile \in Seq(Blocks)
  BY DEF TypeInv, TypeOK
<1>2. /\ Len(datafile') = L + 1
      /\ L \in Nat
      /\ \A k \in 1 .. L : datafile'[k] = datafile[k]
      /\ datafile'[L + 1] = B
  BY <1>1
<1> QED BY <1>2 DEF PosOf, ItemOf, BlockSize

(* A sum is not below its parts.                                           *)
LEMMA SumGrows ==
  \A a, b, h, n \in Nat : a <= b => a <= b + n /\ (h # 0 => a < b + h + n)
OBVIOUS

(* A header alone makes a sum positive.                                    *)
LEMMA HeaderSum ==
  \A b, h, n \in Nat : 0 <= b + n /\ (h # 0 => 0 < b + h + n)
OBVIOUS

(* In an ordered file, positions grow with the block number, strictly in   *)
(* bytes.                                                                  *)
LEMMA PosMonotone ==
  ASSUME TypeInv, Ordered, BlocksContiguous,
         NEW k \in 0 .. Len(datafile), NEW m \in 0 .. Len(datafile), k < m
  PROVE  PosOf(k) < PosOf(m) /\ ItemOf(k) <= ItemOf(m)
<1> USE ConstantsAssumption
<1>1. /\ Len(datafile) \in Nat
      /\ m \in 1 .. Len(datafile) /\ datafile[m] \in Blocks
  BY DEF TypeInv, TypeOK
<1>2. /\ datafile[m].pos \in Nat /\ datafile[m].n \in Nat
      /\ datafile[m].first \in Nat
  BY <1>1 DEF Blocks
<1>3. PosOf(m) = datafile[m].pos + HEADER + datafile[m].n
      /\ ItemOf(m) = datafile[m].first + datafile[m].n
  <2>1. m # 0
    BY <1>1
  <2> QED BY <1>2, <2>1 DEF PosOf, ItemOf, BlockSize
<1>4. CASE k = 0
  <2>1. PosOf(k) = 0 /\ ItemOf(k) = 0
    BY <1>4 DEF PosOf, ItemOf
  <2>2. PosOf(k) < PosOf(m)
    BY <1>2, <1>3, <2>1, HeaderSum
  <2>3. ItemOf(k) <= ItemOf(m)
    BY <1>2, <1>3, <2>1, HeaderSum
  <2> QED BY <2>2, <2>3
<1>5. CASE k # 0
  <2>1. k \in 1 .. Len(datafile) /\ datafile[k] \in Blocks
    BY <1>5 DEF TypeInv, TypeOK
  <2>2. PosOf(k) \in Nat /\ ItemOf(k) \in Nat
    BY PosType DEF TypeInv, TypeOK
  <2>3. PosOf(k) <= datafile[m].pos /\ ItemOf(k) <= datafile[m].first
    BY <1>1, <1>5, <2>1 DEF Ordered, PosOf, ItemOf
  <2>4. PosOf(k) < datafile[m].pos + HEADER + datafile[m].n
    BY <1>2, <2>2, <2>3, SumGrows
  <2>5. ItemOf(k) <= datafile[m].first + datafile[m].n
    BY <1>2, <2>2, <2>3, SumGrows
  <2> QED BY <1>3, <2>4, <2>5
<1> QED BY <1>4, <1>5

(* A dump that has appended its block, or lost it on a closed stream.      *)
LEMMA WriteStep ==
  ASSUME IInv, NEW j \in running, DumpWrite(j)
  PROVE  IInv'
<1> USE ConstantsAssumption
<1> DEFINE jj == [j EXCEPT !.stage = "written"]
<1>0. PICK L : L = Len(datafile)
  OBVIOUS
<1>1. /\ TypeInv /\ TypeInv' /\ j \in Jobs
      /\ Ordered /\ BlocksContiguous /\ IntervalsOnFile /\ NoForeignItems
  BY TypeDump DEF IInv, Dump, TypeInv, TypeOK, FileInv, IntervalsOnFile
<1>2. running = {j} /\ running' = {jj}
  BY DEF IInv, OneDump, DumpsExclusive, DumpWrite
<1>3. UNCHANGED <<pc, op, threadVars, fut, offset_begin, offset_end, metafile,
                  history>>
  BY DEF DumpWrite
<1>4. j.stage = "compressed" /\ j.n \in Nat /\ j.first \in Nat
  BY <1>1 DEF DumpWrite, Jobs
<1>5. /\ jj.id = j.id /\ jj.b = j.b /\ jj.n = j.n /\ jj.first = j.first
      /\ jj.stage = "written" /\ jj.data = j.data
  BY <1>1 DEF Jobs
<1>6. OneDump'
  BY <1>2, <1>3, <1>4, <1>5 DEF IInv, OneDump, DumpsExclusive, threadVars
<1>7. CASE UNCHANGED datafile /\ pc = "ended"
  <2>1. Accounting'
    BY <1>2, <1>3, <1>4, <1>5, <1>7
    DEF IInv, Accounting, threadVars, history, PosOf, ItemOf
  <2>2. Contents'
    BY <1>2, <1>3, <1>4, <1>5, <1>7
    DEF IInv, Contents, Fits, threadVars, history
  <2>3. OpenInterval' /\ FileInv'
    BY <1>1, <1>3, <1>7, FileInvUnchanged, OpenIntervalUnchanged
    DEF IInv, threadVars, history, TypeInv, TypeOK
  <2> QED BY <1>1, <1>6, <2>1, <2>2, <2>3 DEF IInv
<1>8. CASE datafile' = Append(datafile, BlockOf(j))
  <2> DEFINE B == BlockOf(j)
  <2>1. PosOf(L) \in Nat /\ L \in Nat /\ ItemOf(L) \in Nat
    <3>1. datafile \in Seq(Blocks) /\ L \in Nat /\ L \in 0 .. Len(datafile)
      BY <1>0, <1>1, FileTypes
    <3> QED BY <3>1, PosType
  <2>2. /\ B \in Blocks /\ B.pos = PosOf(L) /\ B.n = j.n
        /\ B.data = j.data /\ B.first = j.first /\ j.first = ItemOf(L)
    BY <1>0, <1>1, <1>4, <2>1 DEF BlockOf, Blocks, Jobs, IInv, Accounting
  <2> HIDE DEF B
  <2>3. /\ Len(datafile') = L + 1
        /\ \A k \in 1 .. L : datafile'[k] = datafile[k]
        /\ datafile'[L + 1] = B
        /\ \A k \in 0 .. L : PosOf(k)' = PosOf(k) /\ ItemOf(k)' = ItemOf(k)
        /\ PosOf(L + 1)' = PosOf(L) + BlockSize(j.n)
        /\ ItemOf(L + 1)' = ItemOf(L) + j.n
    BY <1>0, <1>1, <1>8, <2>2, AppendedBlock DEF B
  <2>4. Accounting'
    <3>1. PosOf(Len(datafile))' = PosOf(L + 1)' /\ ItemOf(Len(datafile))' = ItemOf(L + 1)'
      BY <2>3 DEF PosOf, ItemOf
    <3>2. UNCHANGED <<pc, log, idx, offset_end>>
      BY <1>3 DEF threadVars, history
    <3>3. /\ j.first + j.n = Len(log) - idx
          /\ pc # "ended" => offset_end = PosOf(L)
      BY <1>0, <1>4 DEF IInv, Accounting
    <3> HIDE DEF jj
    <3> QED BY <1>2, <1>4, <1>5, <2>2, <2>3, <3>1, <3>2, <3>3 DEF Accounting
  <2>5. Contents'
    <3>1. \A k \in 1 .. j.n : Fits(j.data[k], j.first, k, j.n, Len(log))
      BY <1>4 DEF IInv, Contents
    <3>2. \A i \in 1 .. Len(datafile') : \A k \in 1 .. datafile'[i].n :
            Fits(datafile'[i].data[k], datafile'[i].first, k, datafile'[i].n, Len(log))
      BY <1>0, <2>1, <2>2, <2>3, <3>1 DEF IInv, Contents
    <3> QED BY <1>2, <1>3, <1>4, <1>5, <3>1, <3>2
            DEF IInv, Contents, Fits, threadVars, history
  <2>6. OpenInterval'
    <3>1. PICK m \in 0 .. L : offset_begin = PosOf(m) /\ Mark = ItemOf(m)
      BY <1>0 DEF IInv, OpenInterval
    <3>2. Mark' = Mark /\ m \in 0 .. Len(datafile') /\ Mark <= Len(log) - idx
      BY <1>3, <2>1, <2>3 DEF Mark, IInv, OpenInterval
    <3> QED BY <1>3, <2>3, <3>1, <3>2 DEF OpenInterval, threadVars, history
  <2>7. Ordered'
    <3> SUFFICES ASSUME NEW i \in 1 .. L + 1, NEW k \in 1 .. L + 1, i < k
                 PROVE  /\ datafile'[i].pos + BlockSize(datafile'[i].n)
                             <= datafile'[k].pos
                        /\ datafile'[i].first + datafile'[i].n
                             <= datafile'[k].first
      BY <2>3 DEF Ordered, BlockSize
    <3>1. CASE k <= L
      BY <1>0, <1>1, <2>1, <2>3, <3>1 DEF Ordered
    <3>2. CASE k = L + 1
      <4>1. i \in 1 .. L /\ datafile'[i] = datafile[i] /\ datafile'[k] = B
        BY <2>1, <2>3, <3>2
      <4>2. PosOf(i) = datafile[i].pos + BlockSize(datafile[i].n)
            /\ ItemOf(i) = datafile[i].first + datafile[i].n
        BY <4>1 DEF PosOf, ItemOf
      <4>3. PosOf(i) \in Nat /\ ItemOf(i) \in Nat
        BY <1>0, <1>1, <4>1, PosType DEF TypeInv, TypeOK
      <4>4. PosOf(i) <= PosOf(L) /\ ItemOf(i) <= ItemOf(L)
        <5>1. CASE i = L
          BY <2>1, <5>1
        <5>2. CASE i < L
          BY <1>0, <1>1, <2>1, <4>1, <4>3, <5>2, PosMonotone
        <5> QED BY <2>1, <4>1, <5>1, <5>2
      <4> QED BY <2>2, <4>1, <4>2, <4>4
    <3> QED BY <2>1, <3>1, <3>2
  <2>8. IntervalsOnFile'
    <3>1. BlocksContiguous'
      <4> SUFFICES ASSUME NEW i \in 1 .. L + 1
                   PROVE  /\ datafile'[i].pos = PosOf(i - 1)'
                          /\ datafile'[i].first = ItemOf(i - 1)'
        BY <2>3 DEF BlocksContiguous, PosOf, ItemOf
      <4>1. CASE i <= L
        BY <1>0, <1>1, <2>1, <2>3, <4>1 DEF BlocksContiguous
      <4>2. CASE i = L + 1
        BY <2>1, <2>2, <2>3, <4>2
      <4> QED BY <2>1, <4>1, <4>2
    <3>2. ASSUME NEW i \in 1 .. Len(metafile)
          PROVE  \E k, m \in 0 .. L + 1 :
                   /\ k <= m
                   /\ metafile[i].obegin = PosOf(k)' /\ metafile[i].lo = ItemOf(k)'
                   /\ metafile[i].oend = PosOf(m)' /\ metafile[i].hi = ItemOf(m)'
      <4>1. PICK k \in 0 .. L, m \in 0 .. L :
              /\ k <= m
              /\ metafile[i].obegin = PosOf(k) /\ metafile[i].lo = ItemOf(k)
              /\ metafile[i].oend = PosOf(m) /\ metafile[i].hi = ItemOf(m)
        BY <1>0, <1>1 DEF IntervalsOnFile
      <4>2. k \in 0 .. L + 1 /\ m \in 0 .. L + 1
        BY <2>1
      <4> QED BY <2>3, <4>1, <4>2
    <3> QED BY <1>3, <2>3, <3>1, <3>2 DEF IntervalsOnFile
  <2>9. NoForeignItems'
    <3> SUFFICES ASSUME NEW i \in 1 .. Len(metafile), NEW k \in 1 .. L + 1,
                        metafile[i].obegin <= datafile'[k].pos,
                        datafile'[k].pos < metafile[i].oend
                 PROVE  \A r \in 1 .. datafile'[k].n :
                          datafile'[k].data[r] \subseteq metafile[i].lo + 1 .. metafile[i].hi
      BY <1>3, <2>3 DEF NoForeignItems
    <3>1. CASE k <= L
      BY <1>0, <1>1, <2>1, <2>3, <3>1 DEF NoForeignItems
    <3>2. CASE k = L + 1
      <4>1. PICK m \in 0 .. L : metafile[i].oend = PosOf(m)
        BY <1>0, <1>1 DEF IntervalsOnFile
      <4>2. PosOf(m) <= PosOf(L) /\ PosOf(m) \in Nat
        <5>1. PosOf(m) \in Nat
          BY <1>0, <1>1, PosType DEF TypeInv, TypeOK
        <5>2. CASE m = L
          BY <2>1, <5>2
        <5>3. CASE m < L
          BY <1>0, <1>1, <2>1, <5>1, <5>3, PosMonotone
        <5> QED BY <2>1, <5>1, <5>2, <5>3
      <4> QED BY <2>1, <2>2, <2>3, <3>2, <4>1, <4>2
    <3> QED BY <2>1, <3>1, <3>2
  <2> QED BY <1>1, <1>6, <2>4, <2>5, <2>6, <2>7, <2>8, <2>9 DEF IInv, FileInv
<1> QED BY <1>7, <1>8 DEF DumpWrite

(* A dump that finishes: the end offset catches up with the file.          *)
LEMMA FinishStep ==
  ASSUME IInv, NEW j \in running, DumpFinish(j)
  PROVE  IInv'
<1> USE ConstantsAssumption
<1>1. TypeInv /\ TypeInv' /\ j \in Jobs
  BY TypeDump DEF IInv, Dump, TypeInv, TypeOK
<1>2. running = {j} /\ running' = {}
  BY DEF IInv, OneDump, DumpsExclusive, DumpFinish
<1>3. /\ UNCHANGED <<pc, op, threadVars, fut, datafile, offset_begin, metafile,
                     history>>
      /\ offset_end' = offset_end + BlockSize(j.n) /\ j.stage = "written"
  BY DEF DumpFinish
<1>4. OneDump'
  BY <1>2 DEF OneDump, DumpsExclusive
<1>5. Accounting'
  BY <1>2, <1>3 DEF IInv, Accounting, threadVars, history, PosOf, ItemOf
<1>6. Contents'
  BY <1>2, <1>3 DEF IInv, Contents, Fits, threadVars, history
<1>7. OpenInterval' /\ FileInv'
  BY <1>1, <1>3, FileInvUnchanged, OpenIntervalUnchanged
  DEF IInv, threadVars, history, TypeInv, TypeOK
<1> QED BY <1>1, <1>4, <1>5, <1>6, <1>7 DEF IInv

(* What fits are items.                                                    *)
LEMMA FitsNat ==
  ASSUME NEW S, NEW first \in Nat, NEW k \in Nat, NEW n \in Nat, NEW len,
         Fits(S, first, k, n, len)
  PROVE  S \subseteq Nat
BY DEF Fits

(* Storing an item: it goes behind the ones in the buffer, and if a dump   *)
(* is reading that slot, it is exactly one buffer later than the item the  *)
(* dump should find there.                                                 *)
LEMMA StoreStep ==
  ASSUME IInv, TypeInv', pc = "user", NEW item \in Items, StoreItem(item),
         UNCHANGED <<cur, fut, running, fileVars>>
  PROVE  IInv'
<1> USE ConstantsAssumption
<1>1. TypeInv
  BY DEF IInv
<1>2. /\ idx \in 0 .. NUM_OF_ACCESSES - 1 /\ idx \in Nat /\ Len(log) \in Nat
      /\ Len(log') = Len(log) + 1 /\ idx' = idx + 1
      /\ cur \in {1, 2} /\ bufs \in [{1, 2} -> [Slots -> Nat]]
      /\ pc' \in {"user", "full"}
  <2>1. Len(log) \in Nat /\ Len(log') = Len(log) + 1 /\ pc' \in {"user", "full"}
    BY <1>1, FileTypes, TypeStore
  <2>2. idx \in 0 .. NUM_OF_ACCESSES - 1 /\ idx \in Nat
    BY <1>1 DEF TypeInv, TypeOK
  <2>3. cur \in {1, 2} /\ bufs \in [{1, 2} -> [Slots -> Nat]] /\ idx' = idx + 1
    BY <1>1 DEF TypeInv, TypeOK, StoreItem
  <2> QED BY <2>1, <2>2, <2>3
<1>3. /\ bufs'[cur][idx] = Len(log) + 1
      /\ \A s \in Slots : s # idx => bufs'[cur][s] = bufs[cur][s]
  BY <1>2 DEF StoreItem, Slots
<1>4. \A j \in running : /\ j \in Jobs /\ j.b = cur
                         /\ j.n = NUM_OF_ACCESSES
                         /\ j.first + j.n = Len(log) - idx
                         /\ j.first \in Nat
  <2> SUFFICES ASSUME NEW j \in running
               PROVE  /\ j \in Jobs /\ j.b = cur
                      /\ j.n = NUM_OF_ACCESSES
                      /\ j.first + j.n = Len(log) - idx
                      /\ j.first \in Nat
    OBVIOUS
  <2>1. j \in Jobs
    BY <1>1 DEF TypeInv, TypeOK
  <2>2. j.n \in 1 .. NUM_OF_ACCESSES /\ j.first \in Nat
    BY <2>1 DEF Jobs
  <2>3. j.b = cur /\ (j.n < NUM_OF_ACCESSES => pc = "record")
    BY DEF IInv, OneDump
  <2>4. j.first + j.n = Len(log) - idx
    BY DEF IInv, Accounting
  <2> QED BY <2>1, <2>2, <2>3, <2>4
<1>5. OneDump'
  BY <1>4 DEF IInv, OneDump, DumpsExclusive
<1>6. Accounting'
  BY <1>2, <1>4 DEF IInv, Accounting, fileVars, PosOf, ItemOf
<1>7. Contents'
  <2>1. \A s \in 0 .. idx' - 1 : bufs'[cur][s] = Len(log') - idx' + s + 1
    <3> SUFFICES ASSUME NEW s \in 0 .. idx
                 PROVE  bufs'[cur][s] = Len(log) - idx + s + 1
      BY <1>2
    <3>1. s \in Slots /\ s \in Nat
      BY <1>2 DEF Slots
    <3>2. CASE s = idx
      BY <1>2, <1>3, <3>2
    <3>3. CASE s # idx
      BY <1>2, <1>3, <3>1, <3>3 DEF IInv, Contents
    <3> QED BY <3>2, <3>3
  <2>2. ASSUME NEW S, NEW first \in Nat, NEW k \in Nat, NEW n \in Nat,
               Fits(S, first, k, n, Len(log)), S \subseteq Nat
        PROVE  Fits(S, first, k, n, Len(log'))
    <3>1. \A v \in S : v <= Len(log')
      BY <1>2, <2>2 DEF Fits
    <3> QED BY <2>2, <3>1 DEF Fits
  <2>3. ASSUME NEW j \in running, j.stage # "compress", NEW k \in 1 .. j.n
        PROVE  Fits(j.data[k], j.first, k, j.n, Len(log'))
    <3>1. Fits(j.data[k], j.first, k, j.n, Len(log)) /\ j.n \in Nat
      BY <1>4, <2>3, ConstantsAssumption DEF IInv, Contents
    <3> QED BY <1>4, <2>2, <3>1, FitsNat
  <2>4. ASSUME NEW j \in running, j.stage = "compress", NEW s \in 1 .. j.n
        PROVE  /\ j.given[s] = j.first + s
               /\ SlotFits(bufs'[j.b][s - 1], j.first, s, j.n, Len(log'))
    <3>1. s - 1 \in Slots /\ j.b = cur /\ j.n = NUM_OF_ACCESSES /\ s \in Nat
      BY <1>4 DEF Slots
    <3>2. /\ j.given[s] = j.first + s
          /\ SlotFits(bufs[j.b][s - 1], j.first, s, j.n, Len(log))
      BY <2>4 DEF IInv, Contents
    <3>3. CASE s - 1 = idx
      <4>1. bufs'[j.b][s - 1] = Len(log) + 1
        BY <1>3, <3>1, <3>3
      <4>2. j.first + j.n = Len(log) - idx /\ j.first \in Nat
        BY <1>4, <3>1
      <4>3. Len(log) + 1 = j.first + j.n + s
        BY <1>2, <3>1, <3>3, <4>2
      <4> QED BY <1>2, <3>1, <3>2, <4>1, <4>3 DEF SlotFits
    <3>4. CASE s - 1 # idx
      <4>1. bufs'[j.b][s - 1] = bufs[j.b][s - 1]
        BY <1>3, <3>1, <3>4
      <4>2. bufs[j.b][s - 1] \in Nat
        BY <1>2, <3>1
      <4> QED BY <1>2, <3>2, <4>1, <4>2 DEF SlotFits
    <3> QED BY <3>3, <3>4
  <2>5. ASSUME NEW i \in 1 .. Len(datafile), NEW k \in 1 .. datafile[i].n
        PROVE  Fits(datafile[i].data[k], datafile[i].first, k, datafile[i].n,
                    Len(log'))
    <3>1. datafile[i] \in Blocks
      BY <1>1 DEF TypeInv, TypeOK
    <3>2. datafile[i].first \in Nat /\ datafile[i].n \in Nat /\ k \in Nat
      BY <3>1 DEF Blocks
    <3>3. Fits(datafile[i].data[k], datafile[i].first, k, datafile[i].n, Len(log))
      BY DEF IInv, Contents
    <3> QED BY <2>2, <3>2, <3>3, FitsNat
  <2> QED BY <2>1, <2>3, <2>4, <2>5 DEF Contents, Fits, SlotFits, fileVars
<1>8. OpenInterval' /\ FileInv'
  BY <1>1, <1>2, FileInvUnchanged, OpenIntervalUnchanged DEF IInv, fileVars
<1> QED BY <1>5, <1>6, <1>7, <1>8 DEF IInv

(* A handler that stores nothing only moves the thread.                    *)
LEMMA MoveStep ==
  ASSUME IInv, TypeInv', pc = "user",
         UNCHANGED <<cur, idx, bufs, fut, running, fileVars, log>>
  PROVE  IInv'
<1>1. TypeInv
  BY DEF IInv
<1>2. \A j \in running : j.n = NUM_OF_ACCESSES /\ j.n \in Nat
  BY <1>1, ConstantsAssumption DEF IInv, OneDump, TypeInv, TypeOK, Jobs
<1>3. OneDump'
  BY <1>2 DEF IInv, OneDump, DumpsExclusive
<1>4. Accounting'
  BY DEF IInv, Accounting, fileVars, PosOf, ItemOf
<1>5. Contents'
  BY DEF IInv, Contents, Fits, fileVars
<1>6. OpenInterval' /\ FileInv'
  BY <1>1, FileInvUnchanged, OpenIntervalUnchanged
  DEF IInv, fileVars, TypeInv, TypeOK
<1> QED BY <1>3, <1>4, <1>5, <1>6 DEF IInv

(* The handlers.                                                           *)
LEMMA HandlerStep == IInv /\ Handler => IInv'
<1> SUFFICES ASSUME IInv, Handler PROVE IInv'
  OBVIOUS
<1>0. TypeInv /\ TypeInv' /\ held \subseteq Locks
  BY TypeHandler DEF IInv, TypeInv, TypeOK
<1>1. ASSUME NEW a \in Accesses, SaveAccess(a) PROVE IInv'
  <2> DEFINE item == [kind |-> "data_access", what |-> a, held |-> held]
  <2>1. item \in Items
    BY <1>0 DEF Items
  <2>2. CASE StoreItem(item)
    BY <1>0, <1>1, <2>1, <2>2, StoreStep DEF SaveAccess
  <2>3. CASE UNCHANGED <<pc, idx, bufs, set, log>>
    BY <1>0, <1>1, <2>3, MoveStep DEF SaveAccess
  <2> QED BY <1>1, <2>2, <2>3 DEF SaveAccess
<1>2. ASSUME NEW l \in Locks, MutexAcquired(l) \/ MutexReleased(l)
      PROVE IInv'
  <2> DEFINE item(k) == [kind |-> k, what |-> l, held |-> held]
  <2>1. item("mutex_acquired") \in Items /\ item("mutex_released") \in Items
    BY <1>0 DEF Items
  <2>2. CASE MutexAcquired(l)
    BY <1>0, <2>1, <2>2, StoreStep DEF MutexAcquired
  <2>3. CASE MutexReleased(l)
    BY <1>0, <2>1, <2>3, StoreStep DEF MutexReleased
  <2> QED BY <1>2, <2>2, <2>3
<1>3. CASE ImplicitTaskBegin
  BY <1>0, <1>3, MoveStep DEF ImplicitTaskBegin, history
<1>4. CASE SyncRegionBegin
  BY <1>0, <1>4, MoveStep DEF SyncRegionBegin, threadVars, history
<1>5. CASE ImplicitTaskEnd
  BY <1>0, <1>5, MoveStep DEF ImplicitTaskEnd, history
<1>6. CASE ThreadEnd
  BY <1>0, <1>6, MoveStep DEF ThreadEnd, threadVars, history
<1> QED BY <1>1, <1>2, <1>3, <1>4, <1>5, <1>6 DEF Handler

(* Starting a dump of the items in the buffer.                             *)
LEMMA StartStep ==
  ASSUME IInv, TypeInv', running = {}, pc # "ended",
         NEW n \in 1 .. NUM_OF_ACCESSES, n = idx, StartDump(n),
         pc' \in {"user", "record"}, n < NUM_OF_ACCESSES => pc' = "record",
         UNCHANGED <<bufs, fileVars, log>>
  PROVE  IInv'
<1> USE ConstantsAssumption
<1> DEFINE g == BufferedItems(n)
           j == [id |-> fut + 1, b |-> cur, first |-> Len(log) - n, n |-> n,
                 given |-> g, data |-> << >>, stage |-> "compress"]
<1>1. TypeInv /\ Len(log) \in Nat /\ n \in Nat /\ n <= Len(log)
  BY DEF IInv, TypeInv, TypeOK, Parked
<1>2. /\ running' = {j} /\ fut' = fut + 1 /\ idx' = 0 /\ cur' = cur
  BY DEF StartDump, SWAP_BUFFER
<1>3. /\ j.id = fut + 1 /\ j.b = cur /\ j.first = Len(log) - n /\ j.n = n
      /\ j.given = g /\ j.stage = "compress"
  OBVIOUS
<1>4. /\ ItemOf(Len(datafile)) = Len(log) - n
      /\ offset_end = PosOf(Len(datafile))
  BY DEF IInv, Accounting
<1> HIDE DEF j
<1>5. OneDump'
  BY <1>1, <1>2, <1>3 DEF OneDump, DumpsExclusive
<1>6. Accounting'
  BY <1>1, <1>2, <1>3, <1>4 DEF Accounting, fileVars, PosOf, ItemOf
<1>7. Contents'
  <2>1. ASSUME NEW s \in 1 .. n
        PROVE  /\ j.given[s] = j.first + s
               /\ SlotFits(bufs[cur][s - 1], j.first, s, n, Len(log))
    <3>1. bufs[cur][s - 1] = Len(log) - n + (s - 1) + 1
      <4>1. s - 1 \in 0 .. idx - 1
        BY <1>1
      <4> QED BY <4>1 DEF IInv, Contents
    <3>2. j.given[s] = bufs[cur][s - 1]
      BY <1>3 DEF BufferedItems
    <3>3. bufs[cur][s - 1] = j.first + s /\ j.first + s <= Len(log)
      BY <1>1, <1>3, <3>1
    <3> QED BY <3>2, <3>3 DEF SlotFits
  <2>2. \A i \in 1 .. Len(datafile) : \A k \in 1 .. datafile[i].n :
          Fits(datafile[i].data[k], datafile[i].first, k, datafile[i].n, Len(log))
    BY DEF IInv, Contents
  <2>3. /\ running' = {j} /\ idx' = 0 /\ UNCHANGED <<bufs, datafile, log>>
        /\ j.b = cur /\ j.n = n /\ j.stage = "compress"
    BY <1>2, <1>3 DEF fileVars
  <2>4. \A q \in running' :
          /\ q.stage = "compress" => \A s \in 1 .. q.n :
               /\ q.given[s] = q.first + s
               /\ SlotFits(bufs[q.b][s - 1], q.first, s, q.n, Len(log))
          /\ q.stage # "compress" => \A k \in 1 .. q.n :
               Fits(q.data[k], q.first, k, q.n, Len(log))
    BY <2>1, <2>3
  <2>5. \A s \in 0 .. idx' - 1 : bufs'[cur'][s] = Len(log') - idx' + s + 1
    BY <2>3
  <2> QED BY <2>2, <2>3, <2>4, <2>5 DEF Contents, Fits, SlotFits
<1>8. OpenInterval' /\ FileInv'
  BY <1>1, <1>2, FileInvUnchanged, OpenIntervalUnchanged
  DEF IInv, fileVars, TypeInv, TypeOK
<1> QED BY <1>5, <1>6, <1>7, <1>8 DEF IInv

(* Items that fit a block of the open interval lie in that interval.       *)
LEMMA FitsAbove ==
  ASSUME NEW S, NEW first \in Nat, NEW q \in Nat \ {0}, NEW n \in Nat,
         NEW len \in Nat, NEW mark \in Nat, mark <= first,
         Fits(S, first, q, n, len)
  PROVE  S \subseteq mark + 1 .. len
<1> SUFFICES ASSUME NEW v \in S PROVE v \in mark + 1 .. len
  OBVIOUS
<1>1. v <= len /\ (v \in first + 1 .. first + q \/ v \in first + n + 1 .. first + n + q)
  BY DEF Fits
<1> QED BY <1>1

(* Writing a record: the dump has finished and the buffer is empty, so the *)
(* end of the file is the end of the interval.                             *)
LEMMA RecordStep ==
  ASSUME IInv, WriteRecord
  PROVE  IInv'
<1> USE ConstantsAssumption
<1> DEFINE r == [bid |-> bid, obegin |-> offset_begin, oend |-> offset_end,
                 lo |-> Mark, hi |-> Len(log)]
<1>0. PICK L : L = Len(datafile)
  OBVIOUS
<1>1. TypeInv /\ TypeInv' /\ L \in Nat /\ Len(log) \in Nat
  <2>1. TypeInv
    BY DEF IInv
  <2>2. TypeInv'
    BY <2>1, TypeResume DEF Resume
  <2> QED BY <1>0, <2>1, <2>2, FileTypes
<1>2. running = {} /\ pc = "record" /\ idx = 0
  BY DEF IInv, WriteRecord, OneDump, FutureReady, TypeInv, Parked
<1>3. /\ metafile' = Append(metafile, r) /\ offset_begin' = offset_end
      /\ pc' = "user"
      /\ UNCHANGED <<status, idx, cur, bufs, set, fut, running, datafile,
                     offset_end, log, held>>
  BY DEF WriteRecord
<1>4. offset_end = PosOf(L) /\ ItemOf(L) = Len(log)
  BY <1>0, <1>1, <1>2 DEF IInv, Accounting
<1>5. PICK m0 \in 0 .. L : offset_begin = PosOf(m0) /\ Mark = ItemOf(m0)
  BY <1>0 DEF IInv, OpenInterval
<1>6. /\ r.obegin = offset_begin /\ r.oend = offset_end
      /\ r.lo = Mark /\ r.hi = Len(log)
  OBVIOUS
<1> HIDE DEF r
<1>7. /\ Len(metafile') = Len(metafile) + 1 /\ Len(metafile) \in Nat
      /\ \A i \in 1 .. Len(metafile) : metafile'[i] = metafile[i]
      /\ metafile'[Len(metafile) + 1] = r
      /\ metafile' # << >>
  <2>1. metafile \in Seq(Records)
    BY <1>1 DEF TypeInv, TypeOK
  <2> QED BY <1>3, <2>1
<1>8. Mark' = Len(log)
  BY <1>6, <1>7 DEF Mark
<1>9. \A k \in 0 .. L : PosOf(k)' = PosOf(k) /\ ItemOf(k)' = ItemOf(k)
  BY <1>3 DEF PosOf, ItemOf
<1>10. OneDump' /\ Accounting' /\ Contents'
  <2>1. PosOf(Len(datafile))' = PosOf(L) /\ ItemOf(Len(datafile))' = ItemOf(L)
    BY <1>0, <1>3 DEF PosOf, ItemOf
  <2>2. OneDump' /\ Accounting'
    BY <1>1, <1>2, <1>3, <1>4, <2>1 DEF OneDump, DumpsExclusive, Accounting
  <2>3. Contents'
    BY <1>2, <1>3 DEF IInv, Contents
  <2> QED BY <2>2, <2>3
<1>11. OpenInterval'
  BY <1>0, <1>1, <1>2, <1>3, <1>4, <1>8, <1>9 DEF OpenInterval
<1>12. Ordered /\ BlocksContiguous /\ IntervalsOnFile /\ NoForeignItems
  BY DEF IInv, FileInv, IntervalsOnFile
<1>13. Ordered' /\ BlocksContiguous'
  BY <1>3, <1>12 DEF Ordered, BlocksContiguous, PosOf, ItemOf
<1>14. IntervalsOnFile'
  <2>1. ASSUME NEW i \in 1 .. Len(metafile')
        PROVE  \E k, m \in 0 .. L :
                 /\ k <= m
                 /\ metafile'[i].obegin = PosOf(k) /\ metafile'[i].lo = ItemOf(k)
                 /\ metafile'[i].oend = PosOf(m) /\ metafile'[i].hi = ItemOf(m)
    <3>1. CASE i <= Len(metafile)
      BY <1>0, <1>7, <1>12, <3>1 DEF IntervalsOnFile
    <3>2. CASE i = Len(metafile) + 1
      BY <1>1, <1>4, <1>5, <1>6, <1>7, <3>2
    <3> QED BY <1>7, <3>1, <3>2
  <2> QED BY <1>0, <1>3, <1>9, <1>13, <2>1 DEF IntervalsOnFile
<1>15. NoForeignItems'
  <2> SUFFICES ASSUME NEW i \in 1 .. Len(metafile'), NEW k \in 1 .. L,
                      metafile'[i].obegin <= datafile[k].pos,
                      datafile[k].pos < metafile'[i].oend
               PROVE  \A q \in 1 .. datafile[k].n :
                        datafile[k].data[q] \subseteq metafile'[i].lo + 1 .. metafile'[i].hi
    BY <1>0, <1>3 DEF NoForeignItems
  <2>1. CASE i <= Len(metafile)
    BY <1>0, <1>7, <1>12, <2>1 DEF NoForeignItems
  <2>2. CASE i = Len(metafile) + 1
    <3>1. /\ datafile[k] \in Blocks /\ datafile \in Seq(Blocks)
      BY <1>0, <1>1, FileTypes
    <3>2. /\ datafile[k].pos \in Nat /\ datafile[k].n \in Nat
          /\ datafile[k].first \in Nat
      BY <3>1 DEF Blocks
    <3>3. PosOf(m0) <= datafile[k].pos
      BY <1>5, <1>6, <1>7, <2>2
    <3>4. /\ PosOf(k) = datafile[k].pos + HEADER + datafile[k].n
          /\ PosOf(k) \in Nat /\ PosOf(m0) \in Nat
          /\ ItemOf(m0) \in Nat /\ ItemOf(k - 1) \in Nat
      <4>1. PosOf(k) = datafile[k].pos + HEADER + datafile[k].n
        <5>1. k # 0 /\ HEADER \in Nat
          BY <1>1
        <5> HIDE ConstantsAssumption
        <5> QED BY <3>2, <5>1 DEF PosOf, BlockSize
      <4>2. k \in 0 .. Len(datafile) /\ k - 1 \in 0 .. Len(datafile)
        BY <1>0, <1>1
      <4> QED BY <1>0, <3>1, <4>1, <4>2, PosType
    <3>5. m0 < k
      <4> SUFFICES ASSUME k <= m0 PROVE FALSE
        BY <1>1
      <4>1. CASE k = m0
        <5>1. PosOf(m0) < datafile[k].pos + HEADER + datafile[k].n
          BY <3>2, <3>3, <3>4, SumGrows
        <5> QED BY <3>4, <4>1, <5>1
      <4>2. CASE k < m0
        <5>1. PosOf(k) < PosOf(m0)
          BY <1>0, <1>1, <1>12, <4>2, PosMonotone
        <5>2. PosOf(m0) < datafile[k].pos + HEADER + datafile[k].n
          BY <3>2, <3>3, <3>4, SumGrows
        <5>3. PosOf(m0) < PosOf(k)
          BY <3>4, <5>2
        <5> QED BY <3>4, <5>1, <5>3
      <4> QED BY <1>1, <4>1, <4>2
    <3>6. ItemOf(m0) <= ItemOf(k - 1)
      <4>1. CASE m0 = k - 1
        BY <3>4, <4>1
      <4>2. CASE m0 < k - 1
        BY <1>0, <1>1, <1>12, <4>2, PosMonotone
      <4> QED BY <1>1, <3>5, <4>1, <4>2
    <3>7. datafile[k].first = ItemOf(k - 1)
      BY <1>0, <1>12 DEF BlocksContiguous
    <3>8. ASSUME NEW q \in 1 .. datafile[k].n
          PROVE  datafile[k].data[q] \subseteq Mark + 1 .. Len(log)
      <4>1. Fits(datafile[k].data[q], datafile[k].first, q, datafile[k].n, Len(log))
        BY <1>0 DEF IInv, Contents
      <4>2. Mark <= datafile[k].first /\ Mark \in Nat
        BY <1>5, <3>4, <3>6, <3>7
      <4>3. q \in Nat \ {0} /\ Len(log) \in Nat
        BY <1>1, <3>2
      <4> QED BY <3>2, <4>1, <4>2, <4>3, FitsAbove
    <3> QED BY <1>6, <1>7, <2>2, <3>8
  <2> QED BY <1>7, <2>1, <2>2
<1> QED BY <1>1, <1>10, <1>11, <1>13, <1>14, <1>15 DEF IInv, FileInv

(* Every step keeps the invariant.                                         *)
LEMMA IInvStep == IInv /\ [Next]_vars => IInv'
<1> SUFFICES ASSUME IInv, [Next]_vars PROVE IInv'
  OBVIOUS
<1>0. TypeInv'
  BY TypeStep DEF IInv
<1>1. CASE Handler
  BY <1>1, HandlerStep
<1>2. CASE DumpFull
  <2>1. running = {} /\ idx = NUM_OF_ACCESSES /\ idx \in 1 .. NUM_OF_ACCESSES
    BY <1>2, ConstantsAssumption
    DEF DumpFull, FutureReady, IInv, OneDump, TypeInv, Parked
  <2> QED BY <1>0, <1>2, <2>1, StartStep, ConstantsAssumption
          DEF DumpFull, history
<1>3. CASE DumpNoCheck
  <2>1. running = {}
    BY <1>3 DEF DumpNoCheck, FutureReady, IInv, OneDump
  <2>2. idx \in 1 .. NUM_OF_ACCESSES
    BY <1>3 DEF DumpNoCheck, IInv, TypeInv, TypeOK, Parked
  <2> QED BY <1>0, <1>3, <2>1, <2>2, StartStep DEF DumpNoCheck, history
<1>4. CASE WriteRecord
  BY <1>4, RecordStep
<1>5. CASE Dump
  BY <1>5, CompressStep, WriteStep, FinishStep DEF Dump
<1>6. CASE UNCHANGED vars
  <2>1. OneDump' /\ Accounting' /\ Contents' /\ OpenInterval'
    BY <1>6 DEF vars, threadVars, fileVars, history, IInv, OneDump,
                DumpsExclusive, Accounting, Contents, OpenInterval, PosOf,
                ItemOf, Mark
  <2> QED BY <1>0, <1>6, <2>1, FileInvUnchanged DEF vars, fileVars, IInv
<1> QED BY <1>1, <1>2, <1>3, <1>4, <1>5, <1>6 DEF Next, Resume

(* The whole invariant, for every behaviour.                               *)
THEOREM Invariance == Spec => []IInv
  BY IInvInit, IInvStep, PTL DEF Spec

(* Two dumps of one thread never run at the same time.                     *)
THEOREM OneDumpAtATime == Spec => []DumpsExclusive
<1>1. IInv => DumpsExclusive
  BY DEF IInv, OneDump
<1> QED BY <1>1, Invariance, PTL

(* The offsets of every record delimit exactly the blocks of its interval. *)
THEOREM RecordsDelimitIntervals == Spec => []IntervalsOnFile
<1>1. IInv => IntervalsOnFile
  BY DEF IInv, FileInv
<1> QED BY <1>1, Invariance, PTL

(* The buffer that is never swapped costs no block of a cut anything, and  *)
(* tears the slots of a full block at most between its items and those of  *)
(* the next buffer.                                                        *)
THEOREM OverwriteIsBounded == Spec => []OverwriteBounded
<1>1. IInv => OverwriteBounded
  BY DEF IInv, Contents, Fits, OverwriteBounded
<1> QED BY <1>1, Invariance, PTL

(* No record's bytes hold an item of another interval.                     *)
THEOREM IntervalsDoNotMix == Spec => []NoForeignItems
<1>1. IInv => NoForeignItems
  BY DEF IInv, FileInv
<1> QED BY <1>1, Invariance, PTL

(* The buffer that is never swapped spoils blocks of full buffers only,    *)
(* and never with an item of another interval.                             *)
THEOREM DamageIsBounded == Spec => []DamageBounded
<1>1. OverwriteBounded /\ NoForeignItems => DamageBounded
  BY DEF DamageBounded
<1> QED BY OverwriteIsBounded, IntervalsDoNotMix, <1>1, PTL

-----------------------------------------------------------------------------
(* The filter of repeated accesses.                                        *)

(* The filter never holds more keys than there are items in the buffer, so *)
(* the hash set behind it, which never grows, cannot fill up.              *)
THEOREM FilterNeverOverflows == Spec => []FilterBounded
<1>1. Init => FilterBounded
  BY FS_EmptySet DEF Init, FilterBounded
<1>2. IInv /\ FilterBounded /\ [Next]_vars => FilterBounded'
  <2> SUFFICES ASSUME IInv, FilterBounded, [Next]_vars PROVE FilterBounded'
    OBVIOUS
  <2>0. idx \in Nat /\ Cardinality(set) \in Nat
    BY FS_CardinalityType DEF IInv, TypeInv, TypeOK, FilterBounded
  <2>1. ASSUME NEW a \in Accesses, SaveAccess(a) PROVE FilterBounded'
    <3>1. CASE /\ hash_value[a] \notin set /\ set' = set \cup {hash_value[a]}
               /\ idx' = idx + 1
      <4>1. /\ IsFiniteSet(set \cup {hash_value[a]})
            /\ Cardinality(set \cup {hash_value[a]}) = Cardinality(set) + 1
        BY <3>1, FS_AddElement DEF FilterBounded
      <4> QED BY <2>0, <3>1, <4>1 DEF FilterBounded
    <3>2. CASE UNCHANGED <<idx, set>>
      BY <3>2 DEF FilterBounded
    <3> QED BY <2>1, <3>1, <3>2 DEF SaveAccess, StoreItem
  <2>2. ASSUME NEW l \in Locks, MutexAcquired(l) \/ MutexReleased(l)
        PROVE  FilterBounded'
    <3>1. idx' = idx + 1 /\ set' = set
      BY <2>2 DEF MutexAcquired, MutexReleased, StoreItem
    <3> QED BY <2>0, <3>1 DEF FilterBounded
  <2>3. CASE DumpFull \/ DumpNoCheck
    <3>1. idx' = 0 /\ set' = {}
      BY <2>3 DEF DumpFull, DumpNoCheck, StartDump
    <3> QED BY <3>1, FS_EmptySet DEF FilterBounded
  <2>4. CASE UNCHANGED <<idx, set>>
    BY <2>4 DEF FilterBounded
  <2>5. ImplicitTaskBegin \/ SyncRegionBegin \/ ImplicitTaskEnd \/ ThreadEnd
          \/ WriteRecord \/ Dump \/ UNCHANGED vars => UNCHANGED <<idx, set>>
    BY DEF ImplicitTaskBegin, SyncRegionBegin, ImplicitTaskEnd, ThreadEnd,
           WriteRecord, Dump, DumpCompress, DumpWrite, DumpFinish, vars, threadVars
  <2> QED BY <2>1, <2>2, <2>3, <2>4, <2>5 DEF Next, Handler, Resume
<1> QED BY <1>1, <1>2, Invariance, PTL DEF Spec

(* Item i of the log is an access with hash h.                             *)
AccessWithHash(i, h) ==
  log[i].kind = "data_access" /\ hash_value[log[i].what] = h

(* Every key of the filter stands for an access that is still in the       *)
(* buffer, hence in the open interval.                                     *)
FilterInv ==
  /\ \A h \in set : \E i \in Len(log) - idx + 1 .. Len(log) : AccessWithHash(i, h)
  /\ AccessLoggedInInterval

(* An item that is appended leaves the ones before it where they are.      *)
LEMMA LogAppend ==
  ASSUME TypeInv, NEW item \in Items, NEW n, n = Len(log),
         log' = Append(log, item)
  PROVE  /\ n \in Nat /\ Len(log') = n + 1 /\ log'[n + 1] = item
         /\ \A i \in 1 .. n : log'[i] = log[i]
<1>1. log \in Seq(Items)
  BY DEF TypeInv, TypeOK
<1> QED BY <1>1

(* Storing an item keeps what the filter stands for and what was logged.   *)
LEMMA FilterStore ==
  ASSUME IInv, FilterInv, pc = "user", NEW item \in Items, StoreItem(item),
         UNCHANGED metafile
  PROVE  /\ Mark' = Mark /\ Mark \in Nat
         /\ Mark + 1 <= Len(log') /\ Len(log') - idx' + 1 <= Len(log')
         /\ log'[Len(log')] = item
         /\ \A h \in set : \E i \in Len(log') - idx' + 1 .. Len(log') :
              AccessWithHash(i, h)'
         /\ \A p \in performed : \E i \in Mark' + 1 .. Len(log') :
              AccessWithHash(i, hash_value[p.what])'
<1>0. PICK n : n = Len(log)
  OBVIOUS
<1>1. TypeInv /\ idx \in Nat /\ Mark \in Nat /\ Mark <= n - idx /\ n \in Nat
      /\ idx <= n
  BY <1>0, MarkType DEF IInv, TypeInv, TypeOK, Parked, OpenInterval
<1>2. /\ Len(log') = n + 1 /\ log'[n + 1] = item /\ idx' = idx + 1
      /\ \A i \in 1 .. n : log'[i] = log[i]
  BY <1>0, <1>1, LogAppend DEF StoreItem
<1>3. Mark' = Mark
  BY DEF Mark
<1>4. \A i \in 1 .. n : \A h : AccessWithHash(i, h) => AccessWithHash(i, h)'
  BY <1>2 DEF AccessWithHash
<1>5. ASSUME NEW h \in set
      PROVE  \E i \in Len(log') - idx' + 1 .. Len(log') : AccessWithHash(i, h)'
  <2>1. PICK i \in n - idx + 1 .. n : AccessWithHash(i, h)
    BY <1>0 DEF FilterInv
  <2>2. i \in 1 .. n /\ i \in Len(log') - idx' + 1 .. Len(log')
    BY <1>1, <1>2
  <2> QED BY <1>4, <2>1, <2>2
<1>6. ASSUME NEW p \in performed
      PROVE  \E i \in Mark' + 1 .. Len(log') :
               AccessWithHash(i, hash_value[p.what])'
  <2>1. PICK i \in Mark + 1 .. n : AccessWithHash(i, hash_value[p.what])
    BY <1>0 DEF FilterInv, AccessLoggedInInterval, AccessWithHash
  <2>2. i \in 1 .. n /\ i \in Mark' + 1 .. Len(log')
    BY <1>1, <1>2, <1>3
  <2>3. AccessWithHash(i, hash_value[p.what])'
    BY <1>2, <2>1, <2>2 DEF AccessWithHash
  <2> QED BY <2>2, <2>3
<1> QED BY <1>1, <1>2, <1>3, <1>5, <1>6

(* Every access the program performs in an interval has an item with its   *)
(* hash in that interval: the filter forgets at every dump.                *)
THEOREM NoAccessFilteredAcrossIntervals == Spec => []AccessLoggedInInterval
<1>1. Init => FilterInv
  BY DEF Init, FilterInv, AccessLoggedInInterval
<1>2. IInv /\ FilterInv /\ [Next]_vars => FilterInv'
  <2> SUFFICES ASSUME IInv, FilterInv, [Next]_vars PROVE FilterInv'
    OBVIOUS
  <2>0. /\ TypeInv /\ held \subseteq Locks /\ idx \in Nat /\ Len(log) \in Nat
        /\ Mark \in Nat /\ Mark <= Len(log) - idx
    BY MarkType DEF IInv, TypeInv, TypeOK, OpenInterval
  <2>1. ASSUME NEW a \in Accesses, SaveAccess(a) PROVE FilterInv'
    <3> DEFINE item == [kind |-> "data_access", what |-> a, held |-> held]
               p0 == [what |-> a, held |-> held]
    <3>1. item \in Items /\ p0.what = a /\ item.kind = "data_access"
          /\ item.what = a
      BY <2>0 DEF Items
    <3>2. performed' = performed \cup {p0} /\ pc = "user" /\ UNCHANGED metafile
      BY <2>1 DEF SaveAccess, fileVars
    <3> HIDE DEF item, p0
    <3>3. CASE StoreItem(item) /\ set' = set \cup {hash_value[a]}
      <4>1. /\ Mark' = Mark /\ Mark \in Nat
            /\ Mark + 1 <= Len(log') /\ Len(log') - idx' + 1 <= Len(log')
            /\ log'[Len(log')] = item
            /\ \A h \in set : \E i \in Len(log') - idx' + 1 .. Len(log') :
                 AccessWithHash(i, h)'
            /\ \A p \in performed : \E i \in Mark' + 1 .. Len(log') :
                 AccessWithHash(i, hash_value[p.what])'
        BY <3>1, <3>2, <3>3, FilterStore
      <4>0. idx' = idx + 1 /\ Len(log') \in Nat
        BY <2>0, <3>1, <3>3, TypeStore, <3>2 DEF StoreItem
      <4>n. PICK n : n = Len(log')
        OBVIOUS
      <4>2. AccessWithHash(n, hash_value[a])'
        BY <3>1, <4>n, <4>1 DEF AccessWithHash
      <4>3. \A h \in set' : \E i \in Len(log') - idx' + 1 .. Len(log') :
              AccessWithHash(i, h)'
        <5>1. n \in Len(log') - idx' + 1 .. Len(log')
          BY <2>0, <4>n, <4>0, <4>1
        <5>2. \E i \in Len(log') - idx' + 1 .. Len(log') :
                AccessWithHash(i, hash_value[a])'
          BY <5>1, <4>2
        <5> QED BY <3>3, <4>1, <5>2
      <4>4. AccessLoggedInInterval'
        <5>1. n \in Mark' + 1 .. Len(log')
          BY <4>n, <4>0, <4>1
        <5>2. \E i \in Mark' + 1 .. Len(log') : AccessWithHash(i, hash_value[a])'
          BY <5>1, <4>2
        <5>3. \A p \in performed' : \E i \in Mark' + 1 .. Len(log') :
                AccessWithHash(i, hash_value[p.what])'
          BY <3>1, <3>2, <4>1, <5>2
        <5> QED BY <5>3 DEF AccessLoggedInInterval, AccessWithHash
      <4> QED BY <4>3, <4>4 DEF FilterInv
    <3>4. CASE hash_value[a] \in set /\ UNCHANGED <<pc, idx, bufs, set, log>>
      <4>1. PICK i \in Len(log) - idx + 1 .. Len(log) : AccessWithHash(i, hash_value[a])
        BY <3>4 DEF FilterInv
      <4>2. i \in Mark + 1 .. Len(log)
        BY <2>0
      <4>3. \A p \in performed' : \E q \in Mark + 1 .. Len(log) :
              AccessWithHash(q, hash_value[p.what])
        BY <3>1, <3>2, <4>1, <4>2 DEF FilterInv, AccessLoggedInInterval, AccessWithHash
      <4> QED BY <3>2, <3>4, <4>3
              DEF FilterInv, AccessLoggedInInterval, AccessWithHash, Mark
    <3> QED BY <2>1, <3>3, <3>4 DEF SaveAccess, item
  <2>2. ASSUME NEW l \in Locks, MutexAcquired(l) \/ MutexReleased(l)
        PROVE  FilterInv'
    <3>1. PICK item \in Items : StoreItem(item)
      <4> DEFINE it(k) == [kind |-> k, what |-> l, held |-> held]
      <4>1. it("mutex_acquired") \in Items /\ it("mutex_released") \in Items
        BY <2>0 DEF Items
      <4> QED BY <2>2, <4>1 DEF MutexAcquired, MutexReleased
    <3>2. pc = "user" /\ UNCHANGED <<metafile, set, performed>>
      BY <2>2 DEF MutexAcquired, MutexReleased, fileVars
    <3>3. /\ \A h \in set : \E i \in Len(log') - idx' + 1 .. Len(log') :
                AccessWithHash(i, h)'
          /\ \A p \in performed : \E i \in Mark' + 1 .. Len(log') :
                AccessWithHash(i, hash_value[p.what])'
      BY <3>1, <3>2, FilterStore
    <3> QED BY <3>2, <3>3 DEF FilterInv, AccessLoggedInInterval, AccessWithHash
  <2>3. CASE DumpFull \/ DumpNoCheck
    <3>1. set' = {} /\ UNCHANGED <<log, performed, metafile>>
      BY <2>3 DEF DumpFull, DumpNoCheck, StartDump, fileVars, history
    <3> QED BY <3>1 DEF FilterInv, AccessLoggedInInterval, Mark
  <2>4. CASE WriteRecord
    BY <2>4 DEF WriteRecord, FilterInv, AccessLoggedInInterval, AccessWithHash
  <2>5. CASE UNCHANGED <<log, performed, metafile, set, idx>>
    BY <2>5 DEF FilterInv, AccessLoggedInInterval, AccessWithHash, Mark
  <2>6. ImplicitTaskBegin \/ SyncRegionBegin \/ ImplicitTaskEnd \/ ThreadEnd
          \/ Dump \/ UNCHANGED vars
          => UNCHANGED <<log, performed, metafile, set, idx>>
    BY DEF ImplicitTaskBegin, SyncRegionBegin, ImplicitTaskEnd, ThreadEnd,
           Dump, DumpCompress, DumpWrite, DumpFinish, vars, threadVars, fileVars,
           history
  <2> QED BY <2>1, <2>2, <2>3, <2>4, <2>5, <2>6 DEF Next, Handler, Resume
<1>3. FilterInv => AccessLoggedInInterval
  BY DEF FilterInv
<1> QED BY <1>1, <1>2, <1>3, Invariance, PTL DEF Spec

-----------------------------------------------------------------------------
(* The files implement the interval log.                                   *)

(* The intervals by their items, as they were stored.                      *)
StoredIntervals ==
  [i \in 1 .. Len(metafile) |-> [lo |-> metafile[i].lo, hi |-> metafile[i].hi]]

(* What a reader finds between the offsets of a record is what the thread  *)
(* stored: no two block boundaries share an offset.                        *)
LEMMA ReadsWhatWasStored == IInv => ReadIntervals = StoredIntervals
<1> SUFFICES ASSUME IInv, NEW i \in 1 .. Len(metafile)
             PROVE  /\ ItemsBefore(metafile[i].obegin) = metafile[i].lo
                    /\ ItemsBefore(metafile[i].oend) = metafile[i].hi
  BY DEF ReadIntervals, StoredIntervals
<1>1. TypeInv /\ Ordered /\ BlocksContiguous /\ IntervalsOnFile
  BY DEF IInv, FileInv, IntervalsOnFile
<1>2. ASSUME NEW k \in 0 .. Len(datafile), NEW offset, PosOf(k) = offset
      PROVE  ItemsBefore(offset) = ItemOf(k)
  <2>1. ASSUME NEW m \in 0 .. Len(datafile), PosOf(m) = offset PROVE m = k
    <3>1. PosOf(m) \in Nat /\ PosOf(k) \in Nat /\ Len(datafile) \in Nat
      BY <1>1, PosType DEF TypeInv, TypeOK
    <3>2. CASE m < k
      BY <1>1, <1>2, <2>1, <3>1, <3>2, PosMonotone
    <3>3. CASE k < m
      BY <1>1, <1>2, <2>1, <3>1, <3>3, PosMonotone
    <3> QED BY <3>1, <3>2, <3>3
  <2>2. (CHOOSE m \in 0 .. Len(datafile) : PosOf(m) = offset) = k
    BY <1>2, <2>1
  <2> QED BY <2>2 DEF ItemsBefore
<1>3. PICK k \in 0 .. Len(datafile), m \in 0 .. Len(datafile) :
        /\ metafile[i].obegin = PosOf(k) /\ metafile[i].lo = ItemOf(k)
        /\ metafile[i].oend = PosOf(m) /\ metafile[i].hi = ItemOf(m)
  BY <1>1 DEF IntervalsOnFile
<1> QED BY <1>2, <1>3

(* A record that is written is a cut of the interval log.                  *)
LEMMA RecordCuts ==
  ASSUME IInv, IInv', WriteRecord
  PROVE  Abstract!Cut
<1> DEFINE r == [bid |-> bid, obegin |-> offset_begin, oend |-> offset_end,
                 lo |-> Mark, hi |-> Len(log)]
           e == [lo |-> Mark, hi |-> Len(log)]
<1>1. metafile \in Seq(Records) /\ metafile' = Append(metafile, r) /\ log' = log
  BY DEF IInv, TypeInv, TypeOK, WriteRecord
<1>2. r.lo = Mark /\ r.hi = Len(log)
  OBVIOUS
<1>3. ReadIntervals = StoredIntervals /\ ReadIntervals' = StoredIntervals'
  <2>1. (IInv => ReadIntervals = StoredIntervals)'
    BY ReadsWhatWasStored, PTL
  <2> QED BY <2>1, ReadsWhatWasStored
<1> HIDE DEF r
<1>4. StoredIntervals' = Append(StoredIntervals, e)
  <2>1. /\ Len(metafile) \in Nat /\ Len(metafile') = Len(metafile) + 1
        /\ \A i \in 1 .. Len(metafile) : metafile'[i] = metafile[i]
        /\ metafile'[Len(metafile) + 1] = r
    BY <1>1
  <2>2. Len(StoredIntervals) = Len(metafile) /\ StoredIntervals \in Seq([lo : Nat, hi : Nat])
    <3>1. \A i \in 1 .. Len(metafile) : metafile[i] \in Records
      BY <1>1
    <3> QED BY <2>1, <3>1 DEF StoredIntervals, Records
  <2> QED BY <1>2, <2>1, <2>2 DEF StoredIntervals
<1>5. Abstract!LastCut = Mark
  <2>1. Len(StoredIntervals) = Len(metafile)
        /\ (StoredIntervals = << >> <=> metafile = << >>)
        /\ (metafile # << >> =>
             StoredIntervals[Len(metafile)].hi = metafile[Len(metafile)].hi)
    BY <1>1 DEF StoredIntervals
  <2> QED BY <1>3, <2>1 DEF Abstract!LastCut, Mark
<1> QED BY <1>1, <1>3, <1>4, <1>5 DEF Abstract!Cut

(* Every step of the thread or of a dump is a step of the interval log or  *)
(* leaves it unchanged.                                                    *)
LEMMA StepSimulation ==
  ASSUME IInv, IInv', [Next]_vars
  PROVE  [Abstract!Next]_<<Len(log), ReadIntervals>>
<1>1. ReadIntervals = StoredIntervals /\ ReadIntervals' = StoredIntervals'
  <2>1. (IInv => ReadIntervals = StoredIntervals)'
    BY ReadsWhatWasStored, PTL
  <2> QED BY <2>1, ReadsWhatWasStored
<1>2. TypeInv /\ held \subseteq Locks
  BY DEF IInv, TypeInv, TypeOK
<1>3. UNCHANGED metafile => UNCHANGED ReadIntervals
  BY <1>1 DEF StoredIntervals
<1>4. ASSUME NEW item \in Items, StoreItem(item), UNCHANGED metafile
      PROVE  Abstract!Store
  <2>1. Len(log') = Len(log) + 1
    BY <1>2, <1>4, LogAppend DEF StoreItem
  <2> QED BY <1>3, <1>4, <2>1 DEF Abstract!Store
<1>5. ASSUME NEW a \in Accesses, SaveAccess(a)
      PROVE  Abstract!Store \/ UNCHANGED <<log, metafile>>
  <2>1. [kind |-> "data_access", what |-> a, held |-> held] \in Items
    BY <1>2 DEF Items
  <2> QED BY <1>4, <1>5, <2>1 DEF SaveAccess, fileVars
<1>6. ASSUME NEW l \in Locks, MutexAcquired(l) \/ MutexReleased(l)
      PROVE  Abstract!Store
  <2> DEFINE it(k) == [kind |-> k, what |-> l, held |-> held]
  <2>1. it("mutex_acquired") \in Items /\ it("mutex_released") \in Items
    BY <1>2 DEF Items
  <2> QED BY <1>4, <1>6, <2>1 DEF MutexAcquired, MutexReleased, fileVars
<1>7. ImplicitTaskBegin \/ SyncRegionBegin \/ ImplicitTaskEnd \/ ThreadEnd
        \/ DumpFull \/ DumpNoCheck \/ Dump \/ UNCHANGED vars
        => UNCHANGED <<log, metafile>>
  BY DEF ImplicitTaskBegin, SyncRegionBegin, ImplicitTaskEnd, ThreadEnd,
         DumpFull, DumpNoCheck, Dump, DumpCompress, DumpWrite, DumpFinish, vars,
         fileVars, history
<1>8. WriteRecord => Abstract!Cut
  BY RecordCuts
<1>9. UNCHANGED <<log, metafile>> => UNCHANGED <<Len(log), ReadIntervals>>
  BY <1>3
<1> QED BY <1>5, <1>6, <1>7, <1>8, <1>9
        DEF Next, Handler, Resume, Abstract!Next

(* What a reader of the two files recovers is the log the thread stored,   *)
(* cut at every record: the buffering, the asynchronous dumps and the      *)
(* filter are invisible in it.                                             *)
THEOREM Refinement == Spec => ImplementsIntervalLog
<1>1. Init => Abstract!Init
  BY DEF Init, Abstract!Init, ReadIntervals
<1>2. IInv /\ IInv' /\ [Next]_vars => [Abstract!Next]_<<Len(log), ReadIntervals>>
  BY StepSimulation
<1> QED BY <1>1, <1>2, Invariance, PTL
        DEF Spec, ImplementsIntervalLog, Abstract!Spec
=============================================================================
