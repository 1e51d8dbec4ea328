-------------------------- MODULE BlockReaderProofs --------------------------
(***************************************************************************)
(* The reader of trace files reads exactly the blocks of a record's byte   *)
(* range, or stops with an error when the file was cut short, for files of *)
(* any length, blocks of any size and whatever bytes it takes for a length *)
(* field where there is none.                                              *)
(***************************************************************************)
EXTENDS BlockReader, TLAPS

(* The blocks follow each other without a gap; each holds a compressed     *)
(* part of its own, and positions in the file fit in a word.               *)
FileInv ==
  /\ \A k \in 1 .. Len(blocks) :
       /\ blocks[k].pos = PosOf(k - 1)
       /\ blocks[k].first = ItemOf(k - 1)
  /\ \A j, k \in 0 .. Len(blocks) : j < k => PosOf(j) + HEADER < PosOf(k)
  /\ \A j, k \in 0 .. Len(blocks) : j <= k => ItemOf(j) <= ItemOf(k)
  /\ \A k \in 0 .. Len(blocks) :
       PosOf(k) \in Nat /\ PosOf(k) + HEADER < WORD
       /\ ItemOf(k) \in 0 .. Len(log)
  /\ lo <= hi

(* A mutex acquired and not released since is held.                        *)
HeldInv ==
  /\ \A i \in 1 .. Len(log) : \A j \in 1 .. i - 1 :
       /\ log[j].kind = "mutex_acquired"
       /\ \A m \in j + 1 .. i - 1 :
            ~(log[m].kind = "mutex_released" /\ log[m].what = log[j].what)
       => log[j].what \in log[i].held
  /\ \A j \in 1 .. Len(log) :
       /\ log[j].kind = "mutex_acquired"
       /\ \A m \in j + 1 .. Len(log) :
            ~(log[m].kind = "mutex_released" /\ log[m].what = log[j].what)
       => log[j].what \in Held

(* The accesses in the first blocks of the interval, up to block k.        *)
AccessesUpTo(k) ==
  {i \in ItemOf(lo) + 1 .. ItemOf(k) : log[i].kind = "data_access"}

Inserted == {x.item : x \in nodes}

(* The reader stands behind the length field of block k + 1 and knows      *)
(* whether another block follows.                                          *)
Framed(k) ==
  /\ fp = PosOf(k) + HEADER
  /\ total_size = fp - PosOf(lo)
  /\ block_size = IF k + 1 < hi THEN blocks[k + 1].len + HEADER
                                ELSE blocks[k + 1].len
  /\ neof = IF k + 1 < hi THEN 1 ELSE 0
  /\ Inserted = AccessesUpTo(k)

(* The first length field is missing: nothing more can be read.            *)
CutShort ==
  /\ fp >= disk /\ disk < PosOf(hi)
  /\ lo < hi /\ total_size < filesize

ReadInv ==
  /\ pc \in {"write", "open"} => nodes = {} /\ total_size = 0
  /\ pc = "loop" =>
       \/ \E k \in lo .. hi - 1 : Framed(k)
       \/ total_size = filesize /\ Inserted = AccessesUpTo(hi)
       \/ CutShort

IInv ==
  /\ TypeOK /\ FileInv /\ HeldInv /\ ReadInv
  /\ NoFalseError /\ ReadsExactly /\ MutexesHeld

-----------------------------------------------------------------------------
LEMMA ElementOf ==
  \A S : \A s \in Seq(S) : Len(s) \in Nat /\ \A i \in 1 .. Len(s) : s[i] \in S
OBVIOUS

(* Types of the file's parts.                                              *)
LEMMA BlockType ==
  ASSUME TypeOK
  PROVE  /\ Len(blocks) \in Nat /\ Len(log) \in Nat
         /\ \A k \in 1 .. Len(blocks) :
              /\ blocks[k] \in [pos : Nat, len : HEADER .. MAX_LEN,
                                first : Nat, n : Nat]
              /\ blocks[k].len \in HEADER .. MAX_LEN
<1> DEFINE Block == [pos : Nat, len : HEADER .. MAX_LEN, first : Nat, n : Nat]
<1>1. blocks \in Seq(Block) /\ log \in Seq(Items)
  BY DEF TypeOK
<1>2. \A b \in Block : b.len \in HEADER .. MAX_LEN
  OBVIOUS
<1> HIDE DEF Block
<1>3. Len(blocks) \in Nat /\ Len(log) \in Nat
      /\ \A k \in 1 .. Len(blocks) : blocks[k] \in Block
  BY <1>1, ElementOf
<1> QED BY <1>2, <1>3 DEF Block

(* What the invariant says of block k + 1.                                 *)
LEMMA BlockFacts ==
  ASSUME TypeOK, FileInv, NEW k \in 0 .. Len(blocks) - 1
  PROVE  /\ k + 1 \in 1 .. Len(blocks) /\ k \in 0 .. Len(blocks)
         /\ blocks[k + 1].len \in HEADER .. MAX_LEN
         /\ blocks[k + 1].pos = PosOf(k) /\ blocks[k + 1].first = ItemOf(k)
         /\ PosOf(k + 1) = PosOf(k) + HEADER + blocks[k + 1].len
         /\ ItemOf(k + 1) = ItemOf(k) + blocks[k + 1].n
<1>1. k + 1 \in 1 .. Len(blocks) /\ k \in 0 .. Len(blocks) /\ (k + 1) - 1 = k
      /\ k + 1 # 0
  <2>1. Len(blocks) \in Nat
    BY BlockType
  <2> QED BY <2>1
<1>2. blocks[k + 1] \in [pos : Nat, len : HEADER .. MAX_LEN, first : Nat, n : Nat]
  BY <1>1, BlockType
<1>3. blocks[k + 1].pos = PosOf(k) /\ blocks[k + 1].first = ItemOf(k)
  BY <1>1 DEF FileInv
<1> QED BY <1>1, <1>2, <1>3 DEF PosOf, ItemOf

(* A length field that is on disk is read as it was written.               *)
LEMMA LengthAt ==
  ASSUME TypeOK, FileInv, NEW k \in 0 .. Len(blocks) - 1, PosOf(k) + HEADER <= disk
  PROVE  Length(PosOf(k)) = {blocks[k + 1].len}
<1>1. k + 1 \in 1 .. Len(blocks) /\ blocks[k + 1].pos = PosOf(k)
  BY BlockFacts
<1>2. ASSUME NEW j \in 1 .. Len(blocks), blocks[j].pos = PosOf(k)
      PROVE  j = k + 1
  <2>1. j - 1 \in 0 .. Len(blocks) /\ k \in 0 .. Len(blocks)
    BY BlockType
  <2>2. PosOf(j - 1) = PosOf(k) /\ PosOf(k) \in Nat
    BY <1>2, <2>1 DEF FileInv
  <2>3. ~(j - 1 < k) /\ ~(k < j - 1)
    <3>1. \A a, b \in 0 .. Len(blocks) : a < b => PosOf(a) + HEADER < PosOf(b)
      BY DEF FileInv
    <3> QED BY <2>1, <2>2, <3>1, ConstantsAssumption
  <2> QED BY <2>1, <2>3
<1>3. {j \in 1 .. Len(blocks) : blocks[j].pos = PosOf(k)} = {k + 1}
  BY <1>1, <1>2
<1> QED BY <1>1, <1>3 DEF Length

LEMMA LengthIsWord ==
  ASSUME TypeOK, NEW p, NEW len \in Length(p)
  PROVE  len \in 0 .. WORD - 1
<1>1. CASE len \in Garbage
  BY <1>1, ConstantsAssumption
<1>2. CASE \E k \in 1 .. Len(blocks) : len = blocks[k].len
  <2>1. PICK k \in 1 .. Len(blocks) : len = blocks[k].len
    BY <1>2
  <2>2. blocks[k].len \in HEADER .. MAX_LEN
    BY <2>1, BlockType
  <2> QED BY <2>1, <2>2, ConstantsAssumption
<1> QED BY <1>1, <1>2 DEF Length

(* Only block k + 1 has its compressed bytes behind that length field.     *)
LEMMA BlockAt ==
  ASSUME TypeOK, FileInv, NEW k \in 0 .. Len(blocks) - 1
  PROVE  BlocksAt(PosOf(k) + HEADER, blocks[k + 1].len) = {k + 1}
<1>1. k + 1 \in 1 .. Len(blocks) /\ blocks[k + 1].pos = PosOf(k)
  BY BlockFacts
<1>2. ASSUME NEW j \in 1 .. Len(blocks),
             blocks[j].pos + HEADER = PosOf(k) + HEADER
      PROVE  j = k + 1
  <2>1. j - 1 \in 0 .. Len(blocks) /\ k \in 0 .. Len(blocks)
    BY BlockType
  <2>2. PosOf(j - 1) \in Nat /\ PosOf(k) \in Nat /\ blocks[j].pos = PosOf(j - 1)
    BY <2>1 DEF FileInv
  <2>3. PosOf(j - 1) = PosOf(k)
    BY <1>2, <2>2, ConstantsAssumption
  <2>4. ~(j - 1 < k) /\ ~(k < j - 1)
    <3>1. \A a, b \in 0 .. Len(blocks) : a < b => PosOf(a) + HEADER < PosOf(b)
      BY DEF FileInv
    <3> QED BY <2>1, <2>2, <2>3, <3>1, ConstantsAssumption
  <2> QED BY <2>1, <2>4
<1> QED BY <1>1, <1>2 DEF BlocksAt

(* With a complete length field the next block is framed.                  *)
LEMMA MoreFirst ==
  ASSUME TypeOK, FileInv, lo < hi
  PROVE  /\ MoreAfter(0, blocks[lo + 1].len) <=> lo + 1 < hi
         /\ Plus(blocks[lo + 1].len, HEADER) = blocks[lo + 1].len + HEADER
<1>1. lo \in 0 .. Len(blocks) - 1 /\ hi \in 0 .. Len(blocks)
      /\ lo + 1 \in 0 .. Len(blocks)
  BY DEF TypeOK
<1> DEFINE len == blocks[lo + 1].len
<1>2. len \in HEADER .. MAX_LEN /\ PosOf(lo + 1) = PosOf(lo) + HEADER + len
  BY <1>1, BlockFacts
<1>3. /\ PosOf(lo) \in Nat /\ PosOf(hi) \in Nat
      /\ lo + 1 < hi => PosOf(lo + 1) + HEADER < PosOf(hi)
      /\ lo + 1 = hi => PosOf(lo + 1) = PosOf(hi)
  BY <1>1 DEF FileInv
<1>4. lo + 1 < hi \/ lo + 1 = hi
  BY <1>1
<1> HIDE DEF len
<1>5. len \in Nat /\ HEADER \in Nat /\ WORD \in Nat /\ len + HEADER < WORD
      /\ len < WORD
  BY <1>2, ConstantsAssumption
<1>6. Plus(0, len) = len /\ Plus(len, HEADER) = len + HEADER
  BY <1>5 DEF Plus
<1>7. MoreAfter(0, len) <=> len + HEADER < PosOf(hi) - PosOf(lo)
  BY <1>6 DEF MoreAfter, filesize
<1> QED BY <1>1, <1>2, <1>3, <1>4, <1>5, <1>6, <1>7 DEF len

LEMMA MoreNext ==
  ASSUME TypeOK, FileInv, NEW k \in lo .. hi - 1
  PROVE  LET len == blocks[k + 1].len
             done == PosOf(k) + HEADER - PosOf(lo)
         IN /\ MoreAfter(done, len) <=> k + 1 < hi
            /\ Plus(len, HEADER) = len + HEADER
            /\ done + len = PosOf(k + 1) - PosOf(lo)
            /\ k + 1 < hi => PosOf(k + 1) + HEADER < PosOf(hi)
            /\ PosOf(lo) \in Nat /\ PosOf(k) \in Nat /\ PosOf(k + 1) \in Nat
            /\ PosOf(hi) \in Nat
            /\ PosOf(k + 1) <= PosOf(hi) /\ PosOf(lo) <= PosOf(k)
            /\ PosOf(k + 1) + HEADER < WORD
            /\ PosOf(k + 1) = PosOf(k) + HEADER + len
            /\ len \in HEADER .. MAX_LEN
<1>1. k \in 0 .. Len(blocks) - 1 /\ hi \in 0 .. Len(blocks) /\ lo \in 0 .. Len(blocks)
      /\ k + 1 \in 0 .. Len(blocks) /\ k \in 0 .. Len(blocks)
  BY DEF TypeOK
<1> DEFINE len == blocks[k + 1].len
           done == PosOf(k) + HEADER - PosOf(lo)
<1>2. len \in HEADER .. MAX_LEN /\ PosOf(k + 1) = PosOf(k) + HEADER + len
  BY <1>1, BlockFacts
<1>3. /\ PosOf(lo) \in Nat /\ PosOf(hi) \in Nat /\ PosOf(k) \in Nat
      /\ PosOf(k + 1) + HEADER < WORD
      /\ k + 1 < hi => PosOf(k + 1) + HEADER < PosOf(hi)
      /\ k + 1 = hi => PosOf(k + 1) = PosOf(hi)
      /\ lo < k => PosOf(lo) + HEADER < PosOf(k)
      /\ lo = k => PosOf(lo) = PosOf(k)
  BY <1>1 DEF FileInv
<1>4. (k + 1 < hi \/ k + 1 = hi) /\ (lo < k \/ lo = k)
  BY <1>1
<1> HIDE DEF len
<1>5. /\ len \in Nat /\ HEADER \in Nat /\ WORD \in Nat /\ len + HEADER < WORD
      /\ PosOf(lo) <= PosOf(k)
  BY <1>2, <1>3, <1>4, ConstantsAssumption
<1>6. /\ done \in Nat /\ done + len + HEADER < WORD
      /\ done + len = PosOf(k + 1) - PosOf(lo)
  BY <1>2, <1>3, <1>5
<1>7. PosOf(k + 1) <= PosOf(hi) /\ PosOf(k + 1) \in Nat
  BY <1>2, <1>3, <1>4, <1>5
<1> HIDE DEF done
<1>8. Plus(done, len) = done + len /\ Plus(len, HEADER) = len + HEADER
      /\ Plus(done + len, HEADER) = done + len + HEADER
  BY <1>5, <1>6 DEF Plus
<1>9. MoreAfter(done, len) <=> done + len + HEADER < PosOf(hi) - PosOf(lo)
  BY <1>8 DEF MoreAfter, filesize
<1>10. MoreAfter(done, len) <=> k + 1 < hi
  BY <1>1, <1>3, <1>4, <1>5, <1>6, <1>7, <1>9
<1> QED BY <1>2, <1>3, <1>5, <1>6, <1>7, <1>8, <1>10 DEF len, done

-----------------------------------------------------------------------------
(* Writing the file.                                                       *)
LEMMA InitInv == Init => IInv
<1> SUFFICES ASSUME Init PROVE IInv
  OBVIOUS
<1>1. Len(blocks) = 0 /\ Len(log) = 0 /\ PosOf(0) = 0 /\ ItemOf(0) = 0
  BY DEF Init, PosOf, ItemOf
<1>2. TypeOK
  BY <1>1, ConstantsAssumption DEF Init, TypeOK, filesize
<1>3. FileInv /\ HeldInv
  BY <1>1, ConstantsAssumption DEF Init, FileInv, HeldInv
<1> QED BY <1>2, <1>3 DEF Init, IInv, ReadInv, NoFalseError, ReadsExactly, MutexesHeld

(* The thread holds mutexes.                                               *)
LEMMA HeldType == ASSUME TypeOK PROVE Held \subseteq Locks
<1>1. log \in Seq(Items)
  BY DEF TypeOK
<1>2. CASE log = << >>
  BY <1>2 DEF Held
<1>3. CASE log # << >>
  <2>1. Len(log) \in 1 .. Len(log)
    BY <1>1, <1>3
  <2>2. log[Len(log)] \in Items
    BY <1>1, <2>1, ElementOf
  <2>3. HeldAfter(log[Len(log)]) \subseteq Locks
    BY <2>2 DEF Items, HeldAfter
  <2> QED BY <1>3, <2>3 DEF Held
<1> QED BY <1>2, <1>3

LEMMA StoreItemStep ==
  ASSUME IInv, NEW kind, NEW what, StoreItem(kind, what),
         \/ kind = "data_access" /\ what = "a"
         \/ kind \in {"mutex_acquired", "mutex_released"} /\ what \in Locks
  PROVE  IInv'
<1> DEFINE new == [kind |-> kind, what |-> what, held |-> Held]
           n == Len(log)
<1>1. /\ pc = "write" /\ UNCHANGED <<pc, blocks, disk, lo, hi, readVars>>
      /\ log' = Append(log, new)
  BY DEF StoreItem
<1>2. new \in Items
  BY HeldType DEF IInv, Items
<1>3. log \in Seq(Items) /\ n \in Nat
  BY DEF IInv, TypeOK
<1>4. /\ new.kind = kind /\ new.what = what /\ new.held = Held
  OBVIOUS
<1> HIDE DEF new
<1>5. /\ log' \in Seq(Items) /\ Len(log') = n + 1 /\ log'[n + 1] = new
      /\ \A i \in 1 .. n : log'[i] = log[i]
  BY <1>1, <1>2, <1>3
<1> HIDE DEF n
<1>6. \A k : PosOf(k)' = PosOf(k) /\ ItemOf(k)' = ItemOf(k)
  BY <1>1 DEF PosOf, ItemOf
<1>7. TypeOK'
  <2>1. filesize' = filesize
    BY <1>1, <1>6 DEF filesize
  <2>2. nodes = {}
    BY <1>1 DEF IInv, ReadInv
  <2> QED BY <1>1, <1>5, <2>1, <2>2 DEF IInv, TypeOK, readVars
<1>8. FileInv'
  <2>1. \A k \in 0 .. Len(blocks) : ItemOf(k) \in 0 .. n + 1
    BY <1>3 DEF IInv, FileInv, n
  <2> QED BY <1>1, <1>5, <1>6, <2>1 DEF IInv, FileInv
<1>9. Held' = HeldAfter(new)
  BY <1>3, <1>5 DEF Held
<1>10. HeldInv'
  <2>1. ASSUME NEW j \in 1 .. n, log[j].kind = "mutex_acquired",
               \A m \in j + 1 .. n :
                 ~(log[m].kind = "mutex_released" /\ log[m].what = log[j].what)
        PROVE  log[j].what \in Held
    BY <2>1 DEF IInv, HeldInv, n
  <2>2. ASSUME NEW i \in 1 .. n + 1, NEW j \in 1 .. i - 1,
               log'[j].kind = "mutex_acquired",
               \A m \in j + 1 .. i - 1 :
                 ~(log'[m].kind = "mutex_released" /\ log'[m].what = log'[j].what)
        PROVE  log'[j].what \in log'[i].held
    <3>1. j \in 1 .. n /\ \A m \in j + 1 .. i - 1 : m \in 1 .. n
      BY <1>3
    <3>2. log'[j] = log[j] /\ \A m \in j + 1 .. i - 1 : log'[m] = log[m]
      BY <1>5, <3>1
    <3>3. CASE i = n + 1
      <4>1. i - 1 = n
        BY <1>3, <3>3
      <4> QED BY <1>4, <1>5, <2>1, <2>2, <3>1, <3>2, <3>3, <4>1
    <3>4. CASE i # n + 1
      <4>1. i \in 1 .. n /\ log'[i] = log[i]
        BY <1>3, <1>5, <3>4
      <4> QED BY <2>2, <3>2, <4>1 DEF IInv, HeldInv, n
    <3> QED BY <3>3, <3>4
  <2>3. ASSUME NEW j \in 1 .. n + 1, log'[j].kind = "mutex_acquired",
               \A m \in j + 1 .. n + 1 :
                 ~(log'[m].kind = "mutex_released" /\ log'[m].what = log'[j].what)
        PROVE  log'[j].what \in HeldAfter(new)
    <3>1. CASE j = n + 1
      BY <1>5, <2>3, <3>1 DEF HeldAfter
    <3>2. CASE j # n + 1
      <4>1. j \in 1 .. n /\ n + 1 \in j + 1 .. n + 1
            /\ \A m \in j + 1 .. n : m \in 1 .. n /\ m \in j + 1 .. n + 1
        BY <1>3, <3>2
      <4>2. log'[j] = log[j] /\ \A m \in j + 1 .. n : log'[m] = log[m]
        BY <1>5, <4>1
      <4>3. log[j].what \in Held
        BY <2>1, <2>3, <4>1, <4>2
      <4>4. ~(new.kind = "mutex_released" /\ new.what = log[j].what)
        BY <1>5, <2>3, <4>1, <4>2
      <4> QED BY <1>4, <4>2, <4>3, <4>4 DEF HeldAfter
    <3> QED BY <3>1, <3>2
  <2> QED BY <1>5, <1>9, <2>2, <2>3 DEF HeldInv
<1>11. ReadInv' /\ NoFalseError' /\ ReadsExactly' /\ MutexesHeld'
  BY <1>1 DEF IInv, ReadInv, NoFalseError, ReadsExactly, MutexesHeld, readVars
<1> QED BY <1>7, <1>8, <1>10, <1>11 DEF IInv

LEMMA WriteBlockStep ==
  ASSUME IInv, NEW len \in HEADER .. MAX_LEN, WriteBlock(len)
  PROVE  IInv'
<1>0. PICK n \in Nat : n = Len(blocks)
  BY BlockType DEF IInv
<1> DEFINE Block == [pos : Nat, len : HEADER .. MAX_LEN, first : Nat, n : Nat]
           new == [pos |-> PosOf(n), len |-> len, first |-> ItemOf(n),
                   n |-> Len(log) - ItemOf(n)]
<1>1. /\ pc = "write" /\ UNCHANGED <<pc, log, disk, lo, hi, readVars>>
      /\ Len(log) > ItemOf(n) /\ PosOf(n) + len + 2 * HEADER < WORD
      /\ blocks' = Append(blocks, new)
  BY <1>0 DEF WriteBlock
<1>2. blocks \in Seq(Block) /\ n \in Nat /\ n \in 0 .. n /\ Len(log) \in Nat
  BY <1>0 DEF IInv, TypeOK
<1>3. PosOf(n) \in Nat /\ ItemOf(n) \in 0 .. Len(log)
  BY <1>0, <1>2 DEF IInv, FileInv
<1>4. new \in Block
  BY <1>2, <1>3
<1>5. /\ new.pos = PosOf(n) /\ new.len = len /\ new.first = ItemOf(n)
      /\ new.n = Len(log) - ItemOf(n)
  OBVIOUS
<1> HIDE DEF new, Block
<1>6. /\ blocks' \in Seq(Block) /\ Len(blocks') = n + 1 /\ blocks'[n + 1] = new
      /\ \A k \in 1 .. n : blocks'[k] = blocks[k]
  BY <1>0, <1>1, <1>2, <1>4
<1>7. \A k \in 0 .. n : PosOf(k)' = PosOf(k) /\ ItemOf(k)' = ItemOf(k)
  <2> TAKE k \in 0 .. n
  <2>1. CASE k = 0
    BY <2>1 DEF PosOf, ItemOf
  <2>2. CASE k # 0
    <3>1. k \in 1 .. n
      BY <1>2, <2>2
    <3> QED BY <1>6, <2>2, <3>1 DEF PosOf, ItemOf
  <2> QED BY <2>1, <2>2
<1>8. PosOf(n + 1)' = PosOf(n) + HEADER + len /\ ItemOf(n + 1)' = Len(log)
  <2>1. n + 1 # 0
    BY <1>2
  <2>2. PosOf(n + 1)' = new.pos + HEADER + new.len
        /\ ItemOf(n + 1)' = new.first + new.n
    BY <1>6, <2>1 DEF PosOf, ItemOf
  <2> QED BY <1>2, <1>3, <1>5, <2>2
<1>9. \A k \in 0 .. n + 1 : k \in 0 .. n \/ k = n + 1
  BY <1>2
<1>10. TypeOK'
  <2>1. lo \in 0 .. n /\ hi \in 0 .. n
    BY <1>0 DEF IInv, TypeOK
  <2>2. filesize' = filesize
    BY <1>1, <1>7, <2>1 DEF filesize
  <2>3. lo \in 0 .. n + 1 /\ hi \in 0 .. n + 1
    BY <1>2, <2>1
  <2> QED BY <1>1, <1>6, <2>2, <2>3 DEF IInv, TypeOK, readVars, Block
<1>11. FileInv'
  <2>1. \A k \in 1 .. n + 1 : blocks'[k].pos = PosOf(k - 1)' /\ blocks'[k].first = ItemOf(k - 1)'
    <3> TAKE k \in 1 .. n + 1
    <3>1. CASE k = n + 1
      <4>1. k - 1 = n
        BY <1>2, <3>1
      <4> QED BY <1>2, <1>5, <1>6, <1>7, <3>1, <4>1
    <3>2. CASE k # n + 1
      <4>1. k \in 1 .. n /\ k - 1 \in 0 .. n
        BY <1>2, <3>2
      <4> QED BY <1>0, <1>6, <1>7, <4>1 DEF IInv, FileInv
    <3> QED BY <3>1, <3>2
  <2>2. \A j \in 0 .. n : PosOf(j) + HEADER < PosOf(n) + HEADER + len
                          /\ PosOf(j) \in Nat /\ ItemOf(j) \in 0 .. Len(log)
    <3> TAKE j \in 0 .. n
    <3>1. PosOf(j) \in Nat /\ ItemOf(j) \in 0 .. Len(log)
          /\ (j < n => PosOf(j) + HEADER < PosOf(n))
      BY <1>0, <1>2 DEF IInv, FileInv
    <3>2. j < n \/ j = n
      BY <1>2
    <3> QED BY <1>3, <3>1, <3>2, ConstantsAssumption
  <2>3. ASSUME NEW j \in 0 .. n + 1, NEW k \in 0 .. n + 1
        PROVE  /\ j < k => PosOf(j)' + HEADER < PosOf(k)'
               /\ j <= k => ItemOf(j)' <= ItemOf(k)'
    <3>1. CASE k = n + 1 /\ j \in 0 .. n
      BY <1>2, <1>7, <1>8, <2>2, <3>1
    <3>2. CASE k = n + 1 /\ j = n + 1
      BY <1>2, <1>8, <3>2
    <3>3. CASE k \in 0 .. n /\ j \in 0 .. n
      BY <1>0, <1>7, <3>3 DEF IInv, FileInv
    <3>4. CASE k \in 0 .. n /\ j = n + 1
      BY <1>2, <3>4
    <3> QED BY <1>9, <3>1, <3>2, <3>3, <3>4
  <2>4. ASSUME NEW k \in 0 .. n + 1
        PROVE  /\ PosOf(k)' \in Nat /\ PosOf(k)' + HEADER < WORD
               /\ ItemOf(k)' \in 0 .. Len(log)
    <3>1. CASE k = n + 1
      BY <1>1, <1>2, <1>3, <1>8, <3>1, ConstantsAssumption
    <3>2. CASE k \in 0 .. n
      BY <1>0, <1>7, <3>2 DEF IInv, FileInv
    <3> QED BY <1>9, <3>1, <3>2
  <2> QED BY <1>1, <1>6, <2>1, <2>3, <2>4 DEF IInv, FileInv
<1>12. HeldInv' /\ ReadInv' /\ NoFalseError' /\ ReadsExactly' /\ MutexesHeld'
  BY <1>1 DEF IInv, HeldInv, Held, ReadInv, NoFalseError, ReadsExactly,
              MutexesHeld, readVars
<1> QED BY <1>10, <1>11, <1>12 DEF IInv

LEMMA OpenStep ==
  ASSUME IInv, NEW from \in 0 .. Len(blocks), NEW to \in 0 .. Len(blocks),
         NEW size \in 0 .. PosOf(Len(blocks)), from <= to, Open(from, to, size)
  PROVE  IInv'
<1>1. /\ pc = "write" /\ pc' = "open" /\ lo' = from /\ hi' = to /\ disk' = size
      /\ UNCHANGED <<log, blocks, readVars>>
  BY DEF Open
<1>2. nodes = {} /\ total_size = 0
  BY <1>1 DEF IInv, ReadInv
<1>3. \A k : PosOf(k)' = PosOf(k) /\ ItemOf(k)' = ItemOf(k)
  BY <1>1 DEF PosOf, ItemOf
<1>4. PosOf(from) \in Nat /\ PosOf(to) \in Nat /\ PosOf(from) <= PosOf(to)
  <2>1. PosOf(from) \in Nat /\ PosOf(to) \in Nat
        /\ (from < to => PosOf(from) + HEADER < PosOf(to))
    BY DEF IInv, FileInv
  <2>2. from < to \/ from = to
    OBVIOUS
  <2> QED BY <2>1, <2>2, ConstantsAssumption
<1>5. 0 \in 0 .. filesize'
  BY <1>1, <1>3, <1>4 DEF filesize
<1>6. TypeOK'
  <2>1. size \in Nat
    BY BlockType DEF IInv, FileInv
  <2> QED BY <1>1, <1>2, <1>5, <2>1 DEF IInv, TypeOK, readVars
<1>7. FileInv'
  BY <1>1, <1>3 DEF IInv, FileInv
<1>8. HeldInv' /\ ReadInv' /\ NoFalseError' /\ ReadsExactly' /\ MutexesHeld'
  BY <1>1 DEF IInv, HeldInv, Held, ReadInv, NoFalseError, ReadsExactly,
              MutexesHeld, readVars
<1> QED BY <1>6, <1>7, <1>8 DEF IInv

-----------------------------------------------------------------------------
(* Reading it.                                                             *)

(* A range of bytes is empty only when it has no block.                    *)
LEMMA FileSize ==
  ASSUME TypeOK, FileInv
  PROVE  /\ filesize \in Nat /\ PosOf(lo) \in Nat /\ PosOf(hi) \in Nat
         /\ filesize = 0 => lo = hi
         /\ lo < hi => PosOf(lo) + HEADER < PosOf(hi)
         /\ lo \in Nat /\ hi \in Nat /\ lo <= hi
<1>1. lo \in 0 .. Len(blocks) /\ hi \in 0 .. Len(blocks) /\ lo <= hi
  BY DEF TypeOK, FileInv
<1>2. PosOf(lo) \in Nat /\ PosOf(hi) \in Nat
      /\ (lo < hi => PosOf(lo) + HEADER < PosOf(hi))
  BY <1>1 DEF FileInv
<1>3. lo < hi \/ lo = hi
  BY <1>1
<1> QED BY <1>1, <1>2, <1>3, ConstantsAssumption DEF filesize

(* Steps of the reader leave the file alone.                               *)
LEMMA FileUnchanged ==
  ASSUME IInv, UNCHANGED fileVars
  PROVE  /\ FileInv' /\ HeldInv'
         /\ \A k : PosOf(k)' = PosOf(k) /\ ItemOf(k)' = ItemOf(k)
                   /\ AccessesUpTo(k)' = AccessesUpTo(k)
         /\ filesize' = filesize
<1>1. \A k : PosOf(k)' = PosOf(k) /\ ItemOf(k)' = ItemOf(k)
  BY DEF fileVars, PosOf, ItemOf
<1>2. \A k : AccessesUpTo(k)' = AccessesUpTo(k)
  BY <1>1 DEF fileVars, AccessesUpTo
<1>3. filesize' = filesize
  BY <1>1 DEF fileVars, filesize
<1>4. FileInv'
  BY <1>1 DEF IInv, FileInv, fileVars
<1>5. HeldInv'
  BY DEF IInv, HeldInv, Held, fileVars
<1> QED BY <1>1, <1>2, <1>3, <1>4, <1>5

LEMMA SkipStep == IInv /\ SkipFile => IInv'
<1> SUFFICES ASSUME IInv, SkipFile PROVE IInv'
  OBVIOUS
<1>1. pc = "open" /\ filesize = 0 /\ pc' = "done" /\ UNCHANGED <<fileVars, readVars>>
  BY DEF SkipFile
<1>2. nodes = {} /\ lo = hi
  BY <1>1, FileSize DEF IInv, ReadInv
<1>3. FileInv' /\ HeldInv' /\ filesize' = filesize
  BY <1>1, FileUnchanged
<1>4. TypeOK' /\ ReadInv' /\ NoFalseError' /\ MutexesHeld'
  BY <1>1, <1>3 DEF IInv, TypeOK, ReadInv, NoFalseError, MutexesHeld, fileVars, readVars
<1>5. ReadsExactly'
  <2>1. ItemOf(lo) \in Nat
    BY FileSize DEF IInv, FileInv, TypeOK
  <2>2. ItemOf(lo) + 1 .. ItemOf(hi) = {}
    BY <1>2, <2>1
  <2>3. (ItemOf(lo) + 1 .. ItemOf(hi))' = {}
    BY <1>1, <2>2 DEF fileVars, ItemOf
  <2>4. nodes' = {}
    BY <1>1, <1>2 DEF readVars
  <2> QED BY <2>3, <2>4 DEF ReadsExactly
<1> QED BY <1>3, <1>4, <1>5 DEF IInv

LEMMA FailStep == IInv /\ Fail => IInv'
<1> SUFFICES ASSUME IInv, Fail PROVE IInv'
  OBVIOUS
<1>1. pc' = "failed" /\ UNCHANGED <<fileVars, readVars>>
  BY DEF Fail
<1>2. FileInv' /\ HeldInv' /\ filesize' = filesize /\ PosOf(hi)' = PosOf(hi)
  BY <1>1, FileUnchanged DEF fileVars
<1>3. TypeOK' /\ ReadInv' /\ ReadsExactly' /\ MutexesHeld'
  BY <1>1, <1>2 DEF IInv, TypeOK, ReadInv, ReadsExactly, MutexesHeld, fileVars, readVars
<1>4. disk < PosOf(hi)
  <2>1. CASE pc = "open" /\ filesize > 0 /\ disk = 0
    BY <2>1, FileSize DEF IInv, filesize
  <2>2. CASE pc = "loop" /\ Loop
    <3>1. CASE CutShort
      BY <3>1 DEF CutShort
    <3>2. ASSUME NEW k \in lo .. hi - 1, Framed(k) PROVE disk < PosOf(hi)
      <4>1. k \in 0 .. Len(blocks) - 1
        BY FileSize DEF IInv, TypeOK
      <4> DEFINE len == blocks[k + 1].len
      <4>2. BlocksAt(fp, len) = {k + 1}
        BY <3>2, <4>1, BlockAt DEF IInv, Framed
      <4>3. /\ PosOf(k + 1) = PosOf(k) + HEADER + len /\ PosOf(k) \in Nat
            /\ len \in HEADER .. MAX_LEN /\ PosOf(k + 1) <= PosOf(hi)
            /\ PosOf(hi) \in Nat
            /\ k + 1 < hi => PosOf(k + 1) + HEADER < PosOf(hi)
        BY MoreNext DEF IInv
      <4>4. /\ fp = PosOf(k) + HEADER
            /\ block_size = IF k + 1 < hi THEN len + HEADER ELSE len
            /\ neof = IF k + 1 < hi THEN 1 ELSE 0
        BY <3>2 DEF Framed
      <4> HIDE DEF len
      <4>5. Minus(block_size, HEADER * neof) = len
        BY <4>3, <4>4, ConstantsAssumption DEF Minus
      <4>6. block_size > OnDisk
        BY <2>2, <4>2, <4>5 DEF Fail
      <4>7. disk \in Nat
        BY DEF IInv, TypeOK
      <4> QED BY <4>3, <4>4, <4>6, <4>7, ConstantsAssumption DEF OnDisk
    <3>3. total_size # filesize
      BY <2>2, FileSize DEF IInv, Loop
    <3> QED BY <2>2, <3>1, <3>2, <3>3 DEF IInv, ReadInv
  <2> QED BY <2>1, <2>2 DEF Fail
<1>5. NoFalseError'
  BY <1>1, <1>2, <1>4 DEF NoFalseError, fileVars
<1> QED BY <1>2, <1>3, <1>5 DEF IInv

LEMMA EndLoopStep == IInv /\ EndLoop => IInv'
<1> SUFFICES ASSUME IInv, EndLoop PROVE IInv'
  OBVIOUS
<1>1. pc = "loop" /\ ~(total_size < filesize) /\ pc' = "done"
      /\ UNCHANGED <<fileVars, readVars>>
  BY DEF EndLoop, Loop
<1>2. /\ FileInv' /\ HeldInv' /\ filesize' = filesize
      /\ \A k : AccessesUpTo(k)' = AccessesUpTo(k)
  BY <1>1, FileUnchanged
<1>3. TypeOK' /\ ReadInv' /\ NoFalseError' /\ MutexesHeld'
  BY <1>1, <1>2 DEF IInv, TypeOK, ReadInv, NoFalseError, MutexesHeld, fileVars, readVars
<1>4. Inserted = AccessesUpTo(hi)
  <2>1. ASSUME NEW k \in lo .. hi - 1, Framed(k) PROVE FALSE
    <3>1. total_size = fp - PosOf(lo) /\ fp = PosOf(k) + HEADER
      BY <2>1 DEF Framed
    <3>2. /\ PosOf(k + 1) = PosOf(k) + HEADER + blocks[k + 1].len /\ PosOf(k) \in Nat
          /\ blocks[k + 1].len \in HEADER .. MAX_LEN /\ PosOf(k + 1) <= PosOf(hi)
          /\ PosOf(hi) \in Nat /\ PosOf(lo) \in Nat
      BY MoreNext DEF IInv
    <3> QED BY <1>1, <3>1, <3>2, ConstantsAssumption DEF filesize
  <2> QED BY <1>1, <2>1 DEF IInv, ReadInv, CutShort
<1>5. ReadsExactly'
  <2>1. Inserted' = AccessesUpTo(hi)'
    BY <1>1, <1>2, <1>4 DEF Inserted, readVars, fileVars
  <2> QED BY <2>1 DEF ReadsExactly, Inserted, AccessesUpTo
<1> QED BY <1>2, <1>3, <1>5 DEF IInv

LEMMA ReadHeaderStep == IInv /\ ReadHeader => IInv'
<1> SUFFICES ASSUME IInv, ReadHeader PROVE IInv'
  OBVIOUS
<1>1. /\ pc = "open" /\ pc' = "loop" /\ filesize > 0 /\ total_size' = HEADER
      /\ UNCHANGED <<fileVars, nodes>>
      /\ fp' = IF PosOf(lo) + HEADER <= disk THEN PosOf(lo) + HEADER
               ELSE IF PosOf(lo) <= disk THEN disk ELSE PosOf(lo)
  BY DEF ReadHeader
<1>2. PICK len \in Length(PosOf(lo)) : Prepare(0, len)
  BY DEF ReadHeader
<1>3. /\ lo < hi /\ PosOf(lo) \in Nat /\ PosOf(hi) \in Nat
      /\ PosOf(lo) + HEADER < PosOf(hi)
      /\ filesize = PosOf(hi) - PosOf(lo) /\ disk \in Nat
      /\ lo \in 0 .. Len(blocks) - 1 /\ lo \in lo .. hi - 1
  <2>1. lo # hi
    BY <1>1, FileSize DEF IInv, filesize
  <2>2. lo < hi
    BY <2>1, FileSize DEF IInv
  <2> QED BY <2>2, FileSize, BlockType DEF IInv, TypeOK, filesize
<1>4. /\ FileInv' /\ HeldInv' /\ filesize' = filesize
      /\ \A k : PosOf(k)' = PosOf(k) /\ AccessesUpTo(k)' = AccessesUpTo(k)
  BY <1>1, FileUnchanged
<1>5. nodes = {}
  BY <1>1 DEF IInv, ReadInv
<1>6. TypeOK'
  <2>1. len \in 0 .. WORD - 1
    BY <1>2, LengthIsWord DEF IInv
  <2>2. Plus(len, HEADER) \in 0 .. WORD - 1
    BY <2>1, ConstantsAssumption DEF Plus
  <2>3. block_size' \in 0 .. WORD - 1 /\ neof' \in {0, 1}
    BY <1>2, <2>1, <2>2 DEF Prepare
  <2>4. fp' \in Nat /\ total_size' \in 0 .. filesize'
    BY <1>1, <1>3, <1>4, ConstantsAssumption
  <2>5. pc' = "loop" /\ UNCHANGED <<log, blocks, disk, lo, hi, nodes>>
    BY <1>1 DEF fileVars
  <2> QED BY <2>3, <2>4, <2>5 DEF IInv, TypeOK
<1>7. ReadInv'
  <2>1. CASE PosOf(lo) + HEADER <= disk
    <3>1. len = blocks[lo + 1].len
      BY <1>2, <1>3, <2>1, LengthAt DEF IInv
    <3>2. /\ MoreAfter(0, len) <=> lo + 1 < hi
          /\ Plus(len, HEADER) = len + HEADER
      BY <1>3, <3>1, MoreFirst DEF IInv
    <3>3. /\ block_size' = IF lo + 1 < hi THEN len + HEADER ELSE len
          /\ neof' = IF lo + 1 < hi THEN 1 ELSE 0
      BY <1>2, <3>2 DEF Prepare
    <3>4. fp' = PosOf(lo) + HEADER /\ total_size' = fp' - PosOf(lo)
      BY <1>1, <1>3, <2>1, ConstantsAssumption
    <3>5. Inserted' = AccessesUpTo(lo)'
      <4>1. ItemOf(lo) \in Nat
        BY FileSize DEF IInv, FileInv, TypeOK
      <4>2. AccessesUpTo(lo) = {}
        BY <4>1 DEF AccessesUpTo
      <4>3. Inserted' = {}
        BY <1>1, <1>5 DEF Inserted
      <4>4. AccessesUpTo(lo)' = AccessesUpTo(lo)
        BY <1>1 DEF fileVars, AccessesUpTo, ItemOf
      <4> QED BY <4>2, <4>3, <4>4
    <3>6. lo' = lo /\ hi' = hi /\ blocks' = blocks /\ PosOf(lo)' = PosOf(lo)
      BY <1>1, <1>4 DEF fileVars
    <3>7. Framed(lo)'
      BY <3>1, <3>3, <3>4, <3>5, <3>6 DEF Framed
    <3>8. \E k \in (lo .. hi - 1)' : Framed(k)'
      BY <1>3, <3>6, <3>7
    <3> QED BY <1>1, <3>8 DEF ReadInv
  <2>2. CASE ~(PosOf(lo) + HEADER <= disk)
    <3>1. fp' >= disk /\ disk < PosOf(hi)
      BY <1>1, <1>3, <2>2, ConstantsAssumption
    <3>2. total_size' < filesize
      BY <1>1, <1>3, ConstantsAssumption
    <3>3. CutShort'
      BY <1>1, <1>3, <1>4, <3>1, <3>2 DEF CutShort, fileVars
    <3> QED BY <1>1, <3>3 DEF ReadInv
  <2> QED BY <2>1, <2>2
<1>8. NoFalseError' /\ ReadsExactly' /\ MutexesHeld'
  BY <1>1, <1>5 DEF NoFalseError, ReadsExactly, MutexesHeld
<1> QED BY <1>4, <1>6, <1>7, <1>8 DEF IInv

(* The nodes of a block are accesses with mutexes that were held.          *)
LEMMA NodesOfBlock ==
  ASSUME IInv, NEW k \in 0 .. Len(blocks) - 1
  PROVE  /\ {x.item : x \in NodesOf(blocks[k + 1])} =
              {i \in ItemOf(k) + 1 .. ItemOf(k + 1) : log[i].kind = "data_access"}
         /\ \A x \in NodesOf(blocks[k + 1]) :
              /\ x \in [item : 1 .. Len(log), mutex : SUBSET Locks]
              /\ x.mutex \subseteq log[x.item].held
<1> DEFINE b == blocks[k + 1]
           I == {j \in b.first + 1 .. b.first + b.n : log[j].kind = "data_access"}
<1>1. /\ b.first = ItemOf(k) /\ ItemOf(k + 1) = ItemOf(k) + b.n
      /\ k \in 0 .. Len(blocks) /\ k + 1 \in 0 .. Len(blocks)
  BY BlockFacts DEF IInv
<1>2. ItemOf(k) \in 0 .. Len(log) /\ ItemOf(k + 1) \in 0 .. Len(log)
      /\ Len(log) \in Nat
  BY <1>1, BlockType DEF IInv, FileInv
<1>3. I = {i \in ItemOf(k) + 1 .. ItemOf(k + 1) : log[i].kind = "data_access"}
  BY <1>1
<1>4. I \subseteq 1 .. Len(log)
  BY <1>2, <1>3
<1>5. NodesOf(b) = {[item |-> i, mutex |-> MutexAt(b.first, i)] : i \in I}
  BY DEF NodesOf
<1>6. ASSUME NEW i \in 1 .. Len(log)
      PROVE  MutexAt(b.first, i) \subseteq Locks
             /\ MutexAt(b.first, i) \subseteq log[i].held
  <2> SUFFICES ASSUME NEW l \in MutexAt(b.first, i) PROVE l \in log[i].held
    BY DEF MutexAt
  <2>1. PICK j \in b.first + 1 .. i - 1 :
          /\ log[j].kind = "mutex_acquired" /\ log[j].what = l
          /\ \A m \in j + 1 .. i - 1 :
               ~(log[m].kind = "mutex_released" /\ log[m].what = l)
    BY DEF MutexAt
  <2>2. j \in 1 .. i - 1
    BY <1>1, <1>2, <2>1
  <2> HIDE DEF b
  <2> QED BY <2>1, <2>2 DEF IInv, HeldInv
<1> HIDE DEF b, I
<1>7. {x.item : x \in NodesOf(b)} = I
  <2>1. ASSUME NEW i \in I PROVE \E x \in NodesOf(b) : x.item = i
    <3>1. [item |-> i, mutex |-> MutexAt(b.first, i)] \in NodesOf(b)
      BY <1>5
    <3> QED BY <3>1
  <2>2. \A x \in NodesOf(b) : x.item \in I
    BY <1>5
  <2> QED BY <2>1, <2>2
<1>8. \A x \in NodesOf(b) :
        /\ x \in [item : 1 .. Len(log), mutex : SUBSET Locks]
        /\ x.mutex \subseteq log[x.item].held
  BY <1>4, <1>5, <1>6
<1> QED BY <1>3, <1>7, <1>8 DEF b

(* Where the first length field is missing no block can be read.           *)
LEMMA CutShortStops == ASSUME IInv, CutShort, ReadBlock PROVE FALSE
<1>1. fp >= disk /\ fp \in Nat /\ disk \in Nat /\ neof \in {0, 1}
      /\ block_size \in Nat
  BY DEF CutShort, IInv, TypeOK
<1>2. block_size = 0
  <2>1. block_size <= OnDisk
    BY DEF ReadBlock
  <2> QED BY <1>1, <2>1 DEF OnDisk
<1>3. PICK k \in 1 .. Len(blocks) : blocks[k].len = Minus(0, HEADER * neof)
  BY <1>2 DEF ReadBlock, BlocksAt
<1>4. blocks[k].len \in HEADER .. MAX_LEN
  BY BlockType DEF IInv
<1>5. Minus(0, HEADER * neof) = 0 \/ Minus(0, HEADER * neof) = WORD - HEADER
  <2>1. CASE neof = 0
    BY <2>1, ConstantsAssumption DEF Minus
  <2>2. CASE neof = 1
    BY <2>2, ConstantsAssumption DEF Minus
  <2> QED BY <1>1, <2>1, <2>2
<1> QED BY <1>3, <1>4, <1>5, ConstantsAssumption

LEMMA ReadBlockStep == IInv /\ ReadBlock => IInv'
<1> SUFFICES ASSUME IInv, ReadBlock PROVE IInv'
  OBVIOUS
<1>1. /\ pc = "loop" /\ pc' = "loop" /\ total_size < filesize
      /\ block_size <= OnDisk /\ fp' = fp + block_size
      /\ total_size' = Plus(total_size, block_size)
      /\ UNCHANGED fileVars
  BY DEF ReadBlock, Loop
<1>2. PICK k \in lo .. hi - 1 : Framed(k)
  BY <1>1, FileSize, CutShortStops DEF IInv, ReadInv
<1>3. k \in 0 .. Len(blocks) - 1 /\ k \in Nat /\ hi \in Nat /\ hi <= Len(blocks)
      /\ lo <= k /\ lo \in Nat /\ Len(blocks) \in Nat
  BY FileSize, BlockType DEF IInv, TypeOK
<1>4. /\ PosOf(k + 1) = PosOf(k) + HEADER + blocks[k + 1].len /\ PosOf(k) \in Nat
      /\ blocks[k + 1].len \in HEADER .. MAX_LEN /\ PosOf(k + 1) <= PosOf(hi)
      /\ PosOf(hi) \in Nat /\ PosOf(lo) \in Nat /\ PosOf(k + 1) \in Nat
      /\ PosOf(lo) <= PosOf(k)
      /\ PosOf(k + 1) + HEADER < WORD
      /\ k + 1 < hi => PosOf(k + 1) + HEADER < PosOf(hi)
  BY MoreNext DEF IInv
<1>5. /\ fp = PosOf(k) + HEADER /\ total_size = fp - PosOf(lo)
      /\ block_size = IF k + 1 < hi THEN blocks[k + 1].len + HEADER
                                    ELSE blocks[k + 1].len
      /\ neof = IF k + 1 < hi THEN 1 ELSE 0
      /\ Inserted = AccessesUpTo(k)
  BY <1>2 DEF Framed
<1>6. Minus(block_size, HEADER * neof) = blocks[k + 1].len
  BY <1>4, <1>5, ConstantsAssumption DEF Minus
<1>7. nodes' = nodes \cup NodesOf(blocks[k + 1])
  <2>1. BlocksAt(fp, Minus(block_size, HEADER * neof)) = {k + 1}
    BY <1>3, <1>5, <1>6, BlockAt DEF IInv
  <2> QED BY <2>1 DEF ReadBlock
<1>8. /\ FileInv' /\ HeldInv' /\ filesize' = filesize
      /\ \A i : PosOf(i)' = PosOf(i) /\ AccessesUpTo(i)' = AccessesUpTo(i)
  BY <1>1, FileUnchanged
<1>9. /\ fp' = IF k + 1 < hi THEN PosOf(k + 1) + HEADER ELSE PosOf(k + 1)
      /\ total_size' = fp' - PosOf(lo) /\ total_size' \in 0 .. filesize
      /\ fp' \in Nat
  <2>1. fp' = IF k + 1 < hi THEN PosOf(k + 1) + HEADER ELSE PosOf(k + 1)
    BY <1>1, <1>4, <1>5, ConstantsAssumption
  <2>2. total_size + block_size = fp' - PosOf(lo) /\ total_size + block_size < WORD
    BY <1>1, <1>4, <1>5, <2>1, ConstantsAssumption
  <2>3. k + 1 < hi \/ k + 1 = hi
    BY <1>3
  <2> QED BY <1>1, <1>4, <2>1, <2>2, <2>3, ConstantsAssumption DEF Plus, filesize
<1>10. PICK len \in Length(fp + block_size - HEADER) : Prepare(total_size', len)
  BY <1>1 DEF ReadBlock
<1>11. Inserted' = AccessesUpTo(k + 1)
  <2>1. Inserted' = Inserted \cup {x.item : x \in NodesOf(blocks[k + 1])}
    BY <1>7 DEF Inserted
  <2>2. Inserted' = AccessesUpTo(k) \cup
          {i \in ItemOf(k) + 1 .. ItemOf(k + 1) : log[i].kind = "data_access"}
    BY <1>3, <1>5, <2>1, NodesOfBlock
  <2>3. /\ ItemOf(lo) \in Nat /\ ItemOf(k) \in Nat /\ ItemOf(k + 1) \in Nat
        /\ ItemOf(lo) <= ItemOf(k) /\ ItemOf(k) <= ItemOf(k + 1)
    <3>1. lo \in 0 .. Len(blocks) /\ k \in 0 .. Len(blocks) /\ k + 1 \in 0 .. Len(blocks)
          /\ k <= k + 1
      BY <1>3
    <3> QED BY <1>3, <3>1 DEF IInv, FileInv
  <2> QED BY <2>2, <2>3 DEF AccessesUpTo
<1>12. /\ nodes' \subseteq [item : 1 .. Len(log), mutex : SUBSET Locks]
       /\ \A x \in nodes' : x.mutex \subseteq log[x.item].held
  BY <1>3, <1>7, NodesOfBlock DEF IInv, TypeOK, MutexesHeld
<1>13. TypeOK'
  <2>1. len \in 0 .. WORD - 1
    BY <1>10, LengthIsWord DEF IInv
  <2>2. Plus(len, HEADER) \in 0 .. WORD - 1
    BY <2>1, ConstantsAssumption DEF Plus
  <2>3. block_size' \in 0 .. WORD - 1 /\ neof' \in {0, 1}
    BY <1>10, <2>1, <2>2 DEF Prepare
  <2>4. pc' = "loop" /\ UNCHANGED <<log, blocks, disk, lo, hi>>
    BY <1>1 DEF fileVars
  <2> QED BY <1>8, <1>9, <1>12, <2>3, <2>4 DEF IInv, TypeOK
<1>14. ReadInv'
  <2>1. CASE k + 1 < hi
    <3>1. k + 1 \in 0 .. Len(blocks) - 1 /\ k + 1 \in lo .. hi - 1
      BY <1>3, <2>1
    <3>2. fp + block_size - HEADER = PosOf(k + 1)
      BY <1>1, <1>4, <1>5, <2>1, ConstantsAssumption
    <3>3. PosOf(k + 1) + HEADER <= disk
      <4>1. disk \in Nat
        BY DEF IInv, TypeOK
      <4> QED BY <1>1, <1>4, <1>5, <2>1, <4>1, ConstantsAssumption DEF OnDisk
    <3>4. len = blocks[k + 1 + 1].len
      BY <1>10, <3>1, <3>2, <3>3, LengthAt DEF IInv
    <3>5. total_size' = PosOf(k + 1) + HEADER - PosOf(lo)
      BY <1>4, <1>9, <2>1, ConstantsAssumption
    <3>6. /\ MoreAfter(total_size', len) <=> k + 1 + 1 < hi
          /\ Plus(len, HEADER) = len + HEADER
      BY <3>1, <3>4, <3>5, MoreNext DEF IInv
    <3>7. /\ block_size' = IF k + 1 + 1 < hi THEN len + HEADER ELSE len
          /\ neof' = IF k + 1 + 1 < hi THEN 1 ELSE 0
      BY <1>10, <3>6 DEF Prepare
    <3>8. lo' = lo /\ hi' = hi /\ blocks' = blocks
      BY <1>1 DEF fileVars
    <3>9. Framed(k + 1)'
      BY <1>8, <1>9, <1>11, <2>1, <3>4, <3>7, <3>8 DEF Framed
    <3>10. \E i \in (lo .. hi - 1)' : Framed(i)'
      BY <3>1, <3>8, <3>9
    <3> QED BY <1>1, <3>10 DEF ReadInv
  <2>2. CASE ~(k + 1 < hi)
    <3>1. k + 1 = hi
      BY <1>3, <2>2
    <3>2. total_size' = filesize'
      BY <1>8, <1>9, <2>2, <3>1 DEF filesize
    <3>3. Inserted' = AccessesUpTo(hi)'
      BY <1>1, <1>8, <1>11, <3>1 DEF fileVars
    <3> QED BY <1>1, <3>2, <3>3 DEF ReadInv
  <2> QED BY <2>1, <2>2
<1>15. NoFalseError' /\ ReadsExactly'
  BY <1>1 DEF NoFalseError, ReadsExactly
<1>16. MutexesHeld'
  BY <1>1, <1>12 DEF MutexesHeld, fileVars
<1> QED BY <1>8, <1>13, <1>14, <1>15, <1>16 DEF IInv

-----------------------------------------------------------------------------
(* Every step keeps the invariant.                                         *)
LEMMA IInvStep == IInv /\ [Next]_vars => IInv'
<1> SUFFICES ASSUME IInv, [Next]_vars PROVE IInv'
  OBVIOUS
<1>1. CASE Write
  <2>1. CASE StoreItem("data_access", "a")
    BY <2>1, StoreItemStep
  <2>2. CASE \E l \in Locks, k \in {"mutex_acquired", "mutex_released"} :
               StoreItem(k, l)
    BY <2>2, StoreItemStep
  <2>3. CASE \E len \in HEADER .. MAX_LEN : WriteBlock(len)
    BY <2>3, WriteBlockStep
  <2>4. CASE \E from, to \in 0 .. Len(blocks) : \E size \in 0 .. PosOf(Len(blocks)) :
               from <= to /\ Open(from, to, size)
    BY <2>4, OpenStep
  <2> QED BY <1>1, <2>1, <2>2, <2>3, <2>4 DEF Write
<1>2. CASE UNCHANGED vars
  <2>1. UNCHANGED fileVars /\ UNCHANGED readVars /\ pc' = pc
    BY <1>2 DEF vars
  <2>2. /\ FileInv' /\ HeldInv' /\ filesize' = filesize
        /\ \A k : PosOf(k)' = PosOf(k) /\ ItemOf(k)' = ItemOf(k)
                  /\ AccessesUpTo(k)' = AccessesUpTo(k)
    BY <2>1, FileUnchanged
  <2>3. TypeOK' /\ MutexesHeld' /\ NoFalseError' /\ ReadsExactly'
    BY <2>1, <2>2 DEF IInv, TypeOK, MutexesHeld, NoFalseError, ReadsExactly,
                      fileVars, readVars
  <2>4. ReadInv'
    BY <2>1, <2>2 DEF IInv, ReadInv, Framed, CutShort, Inserted, fileVars, readVars
  <2> QED BY <2>2, <2>3, <2>4 DEF IInv
<1> QED BY <1>1, <1>2, SkipStep, ReadHeaderStep, ReadBlockStep, FailStep, EndLoopStep
        DEF Next, Exited

(* The invariant holds in every reachable state.                           *)
THEOREM Invariance == Spec => []IInv
BY InitInv, IInvStep, PTL DEF Spec

(* Every variable keeps its type, and the reader never counts more bytes   *)
(* than the record's range has.                                            *)
THEOREM TypeCorrect == Spec => []TypeOK
<1>1. IInv => TypeOK
  BY DEF IInv
<1> QED BY <1>1, Invariance, PTL

(* A complete file is read without an error: load_and_convert_file never   *)
(* misjudges whether another block follows.                                *)
THEOREM CompleteFilesAreRead == Spec => []NoFalseError
<1>1. IInv => NoFalseError
  BY DEF IInv
<1> QED BY <1>1, Invariance, PTL

(* A reader that ends without an error has inserted exactly the accesses   *)
(* of its interval, also when the file was cut short.                      *)
THEOREM IntervalIsRead == Spec => []ReadsExactly
<1>1. IInv => ReadsExactly
  BY DEF IInv
<1> QED BY <1>1, Invariance, PTL

(* No access is entered with a mutex that was not held.                    *)
THEOREM NoForeignMutex == Spec => []MutexesHeld
<1>1. IInv => MutexesHeld
  BY DEF IInv
<1> QED BY <1>1, Invariance, PTL

(* No read goes past the end of compressed_buffer.                         *)
THEOREM NoOverrun == Spec => []BufferFits
<1>1. IInv => BufferFits
  <2> SUFFICES ASSUME IInv, pc = "loop", Loop
               PROVE  block_size <= OUT_LEN \/ OnDisk <= OUT_LEN
    BY DEF BufferFits
  <2>1. CASE CutShort
    BY <2>1, ConstantsAssumption DEF CutShort, OnDisk, OUT_LEN, IInv, TypeOK
  <2>2. ASSUME NEW k \in lo .. hi - 1, Framed(k) PROVE block_size <= OUT_LEN
    <3>1. blocks[k + 1].len \in HEADER .. MAX_LEN
      BY MoreNext DEF IInv
    <3>2. block_size = IF k + 1 < hi THEN blocks[k + 1].len + HEADER
                                     ELSE blocks[k + 1].len
      BY <2>2 DEF Framed
    <3> QED BY <3>1, <3>2, ConstantsAssumption DEF OUT_LEN
  <2>3. total_size # filesize
    BY FileSize DEF IInv, Loop
  <2> QED BY <2>1, <2>2, <2>3 DEF IInv, ReadInv
<1> QED BY <1>1, Invariance, PTL

-----------------------------------------------------------------------------
(* The mutexes of a node.                                                  *)

(* Item j acquires mutex l, and no item from there to i releases it.       *)
AcquiredAt(l, j, i) ==
  /\ log[j].kind = "mutex_acquired" /\ log[j].what = l
  /\ \A m \in j + 1 .. i - 1 :
       ~(log[m].kind = "mutex_released" /\ log[m].what = l)

(* The converse of HeldInv: a mutex is held only from its acquisition on.  *)
OriginInv ==
  /\ \A i \in 1 .. Len(log) : \A l \in log[i].held :
       \E j \in 1 .. i - 1 : AcquiredAt(l, j, i)
  /\ \A l \in Held : \E j \in 1 .. Len(log) : AcquiredAt(l, j, Len(log) + 1)

(* A node has the mutexes that the loop over its block had collected.      *)
NodesInv ==
  \A x \in nodes : \E k \in 1 .. Len(blocks) :
    /\ x.item \in blocks[k].first + 1 .. blocks[k].first + blocks[k].n
    /\ x.mutex = MutexAt(blocks[k].first, x.item)

LEMMA OriginStored ==
  ASSUME IInv, OriginInv, NEW kind, NEW what, StoreItem(kind, what),
         \/ kind = "data_access" /\ what = "a"
         \/ kind \in {"mutex_acquired", "mutex_released"} /\ what \in Locks
  PROVE  OriginInv'
<1> DEFINE new == [kind |-> kind, what |-> what, held |-> Held]
<1>n. PICK n \in Nat : n = Len(log)
  BY BlockType DEF IInv
<1>1. log' = Append(log, new) /\ log \in Seq(Items) /\ n \in Nat
  BY <1>n DEF StoreItem, IInv, TypeOK
<1>2. new \in Items
  BY HeldType DEF IInv, Items
<1>3. new.kind = kind /\ new.what = what /\ new.held = Held
  OBVIOUS
<1> HIDE DEF new
<1>4. /\ Len(log') = n + 1 /\ log'[n + 1] = new
      /\ \A i \in 1 .. n : log'[i] = log[i]
  BY <1>n, <1>1, <1>2
<1>5. Held' = HeldAfter(new)
  BY <1>1, <1>4 DEF Held
<1>6. ASSUME NEW l, NEW i \in 1 .. n + 1, NEW j \in 1 .. i - 1, AcquiredAt(l, j, i)
      PROVE  AcquiredAt(l, j, i)'
  <2>1. j \in 1 .. n /\ \A m \in j + 1 .. i - 1 : m \in 1 .. n
    BY <1>1
  <2> QED BY <1>4, <1>6, <2>1 DEF AcquiredAt
<1>7. ASSUME NEW i \in 1 .. n + 1, NEW l \in log'[i].held
      PROVE  \E j \in 1 .. i - 1 : AcquiredAt(l, j, i)'
  <2>1. CASE i = n + 1
    <3>1. l \in Held /\ i - 1 = n
      BY <1>1, <1>3, <1>4, <1>7, <2>1
    <3>2. \E j \in 1 .. n : AcquiredAt(l, j, n + 1)
      BY <1>n, <3>1 DEF OriginInv
    <3> QED BY <1>6, <2>1, <3>1, <3>2
  <2>2. CASE i # n + 1
    <3>1. i \in 1 .. n /\ l \in log[i].held
      BY <1>1, <1>4, <1>7, <2>2
    <3>2. \E j \in 1 .. i - 1 : AcquiredAt(l, j, i)
      BY <1>n, <3>1 DEF OriginInv
    <3> QED BY <1>6, <3>2
  <2> QED BY <2>1, <2>2
<1>8. ASSUME NEW l \in Held'
      PROVE  \E j \in 1 .. n + 1 : AcquiredAt(l, j, n + 2)'
  <2>1. CASE kind = "mutex_acquired" /\ l = what
    <3>1. n + 1 \in 1 .. n + 1 /\ (n + 1) + 1 .. (n + 2) - 1 = {}
      BY <1>1
    <3> QED BY <1>3, <1>4, <2>1, <3>1 DEF AcquiredAt
  <2>2. CASE ~(kind = "mutex_acquired" /\ l = what)
    <3>1. l \in Held /\ ~(kind = "mutex_released" /\ what = l)
      BY <1>3, <1>5, <1>8, <2>2 DEF HeldAfter
    <3>2. PICK j \in 1 .. n : AcquiredAt(l, j, n + 1)
      BY <1>n, <3>1 DEF OriginInv
    <3>3. \A m \in j + 1 .. (n + 2) - 1 : m \in j + 1 .. (n + 1) - 1 \/ m = n + 1
      BY <1>1
    <3>4. \A m \in j + 1 .. (n + 1) - 1 : m \in 1 .. n
      BY <1>1
    <3>5. AcquiredAt(l, j, n + 2)'
      BY <1>3, <1>4, <3>1, <3>2, <3>3, <3>4 DEF AcquiredAt
    <3>6. j \in 1 .. n + 1
      BY <1>1
    <3> QED BY <3>5, <3>6
  <2> QED BY <2>1, <2>2
<1>9. Len(log') + 1 = n + 2
  BY <1>1, <1>4
<1> QED BY <1>4, <1>7, <1>8, <1>9 DEF OriginInv

(* A mutex that no item from f on found held was acquired since.           *)
LEMMA CollectedIsHeld ==
  ASSUME IInv, OriginInv, NEW f \in 0 .. Len(log), NEW i \in f + 1 .. Len(log),
         log[f + 1].held = {}
  PROVE  log[i].held \subseteq MutexAt(f, i)
<1> SUFFICES ASSUME NEW l \in log[i].held PROVE l \in MutexAt(f, i)
  OBVIOUS
<1>1. i \in 1 .. Len(log) /\ f + 1 \in 1 .. Len(log) /\ f + 1 <= i /\ Len(log) \in Nat
  BY BlockType DEF IInv
<1>2. PICK j \in 1 .. i - 1 : AcquiredAt(l, j, i)
  BY <1>1 DEF OriginInv
<1>3. j >= f + 1
  <2> SUFFICES ASSUME j < f + 1 PROVE FALSE
    BY <1>1
  <2>1. j \in 1 .. (f + 1) - 1 /\ (f + 1) - 1 <= i - 1
    BY <1>1
  <2>2. \A m \in j + 1 .. (f + 1) - 1 : m \in j + 1 .. i - 1
    BY <1>1, <2>1
  <2>3. log[j].what \in log[f + 1].held
    BY <1>1, <1>2, <2>1, <2>2 DEF IInv, HeldInv, AcquiredAt
  <2> QED BY <2>3
<1>4. j \in f + 1 .. i - 1
  BY <1>1, <1>3
<1>5. log[i] \in Items
  BY <1>1, ElementOf DEF IInv, TypeOK
<1>6. l \in Locks
  BY <1>5 DEF Items
<1> QED BY <1>2, <1>4, <1>6 DEF MutexAt, AcquiredAt

(* Every step keeps the two invariants.                                    *)
LEMMA AttachStep ==
  IInv /\ IInv' /\ OriginInv /\ NodesInv /\ [Next]_vars => OriginInv' /\ NodesInv'
<1> SUFFICES ASSUME IInv, IInv', OriginInv, NodesInv, [Next]_vars
             PROVE  OriginInv' /\ NodesInv'
  OBVIOUS
<1>1. ASSUME pc' = "write" \/ pc' = "open" PROVE NodesInv'
  BY <1>1 DEF IInv, ReadInv, NodesInv
<1>2. ASSUME UNCHANGED log PROVE OriginInv'
  BY <1>2 DEF OriginInv, AcquiredAt, Held
<1>3. ASSUME UNCHANGED <<log, blocks, nodes>> PROVE NodesInv'
  BY <1>3 DEF NodesInv, MutexAt
<1>4. CASE Write
  <2>1. pc' = "write" \/ pc' = "open"
    BY <1>4 DEF Write, StoreItem, WriteBlock, Open
  <2>2. CASE \/ StoreItem("data_access", "a")
             \/ \E l \in Locks, k \in {"mutex_acquired", "mutex_released"} :
                  StoreItem(k, l)
    BY <1>1, <2>1, <2>2, OriginStored
  <2>3. CASE UNCHANGED log
    BY <1>1, <1>2, <2>1, <2>3
  <2> QED BY <1>4, <2>2, <2>3 DEF Write, WriteBlock, Open
<1>5. CASE ReadBlock
  <2>1. UNCHANGED <<log, blocks>>
    BY <1>5 DEF ReadBlock, fileVars
  <2>2. PICK k \in 1 .. Len(blocks) : nodes' = nodes \cup NodesOf(blocks[k])
    BY <1>5 DEF ReadBlock, BlocksAt
  <2>3. \A x \in NodesOf(blocks[k]) :
          /\ x.item \in blocks[k].first + 1 .. blocks[k].first + blocks[k].n
          /\ x.mutex = MutexAt(blocks[k].first, x.item)
    BY DEF NodesOf
  <2>4. NodesInv'
    <3>1. \A f, i : MutexAt(f, i)' = MutexAt(f, i)
      BY <2>1 DEF MutexAt
    <3> QED BY <2>1, <2>2, <2>3, <3>1 DEF NodesInv
  <2> QED BY <1>2, <2>1, <2>4
<1>6. CASE SkipFile \/ ReadHeader \/ Fail \/ EndLoop \/ UNCHANGED vars
  <2>1. UNCHANGED <<log, blocks, nodes>>
    BY <1>6 DEF SkipFile, ReadHeader, Fail, EndLoop, vars, fileVars, readVars
  <2> QED BY <1>2, <1>3, <2>1
<1> QED BY <1>4, <1>5, <1>6 DEF Next, Exited

(* Two ranges, the second one after the first, have nothing in common.     *)
LEMMA Apart ==
  \A a, b, c, d \in Nat : b <= c => (a + 1 .. b) \cap (c + 1 .. d) = {}
OBVIOUS

(* An access is in one block only.                                         *)
LEMMA OneBlock ==
  ASSUME IInv, NEW j \in 1 .. Len(blocks), NEW k \in 1 .. Len(blocks), NEW i,
         i \in blocks[j].first + 1 .. blocks[j].first + blocks[j].n,
         i \in blocks[k].first + 1 .. blocks[k].first + blocks[k].n
  PROVE  j = k
<1>1. ASSUME NEW a \in 1 .. Len(blocks)
      PROVE  /\ a - 1 \in 0 .. Len(blocks) /\ a \in 0 .. Len(blocks)
             /\ blocks[a].first = ItemOf(a - 1)
             /\ blocks[a].first + blocks[a].n = ItemOf(a)
             /\ ItemOf(a - 1) \in Nat /\ ItemOf(a) \in Nat
  <2>1. a - 1 \in 0 .. Len(blocks) - 1 /\ (a - 1) + 1 = a
    BY BlockType DEF IInv
  <2>2. a - 1 \in 0 .. Len(blocks) /\ a \in 0 .. Len(blocks)
    BY <2>1, BlockType DEF IInv
  <2>3. blocks[a].first = ItemOf(a - 1) /\ blocks[a].first + blocks[a].n = ItemOf(a)
    BY <2>1, BlockFacts DEF IInv
  <2>4. ItemOf(a - 1) \in 0 .. Len(log) /\ ItemOf(a) \in 0 .. Len(log)
    BY <2>2 DEF IInv, FileInv
  <2> QED BY <2>2, <2>3, <2>4, BlockType DEF IInv
<1>2. \A a, b \in 0 .. Len(blocks) : a <= b => ItemOf(a) <= ItemOf(b)
  BY DEF IInv, FileInv
<1>3. Len(blocks) \in Nat
  BY BlockType DEF IInv
<1>i. /\ i \in ItemOf(j - 1) + 1 .. ItemOf(j) /\ i \in ItemOf(k - 1) + 1 .. ItemOf(k)
      /\ ItemOf(j - 1) \in Nat /\ ItemOf(j) \in Nat
      /\ ItemOf(k - 1) \in Nat /\ ItemOf(k) \in Nat
  BY <1>1
<1>4. ASSUME j < k PROVE FALSE
  <2>1. ItemOf(j) <= ItemOf(k - 1)
    BY <1>1, <1>2, <1>3, <1>4
  <2> QED BY <1>i, <2>1, Apart
<1>5. ASSUME k < j PROVE FALSE
  <2>1. ItemOf(k) <= ItemOf(j - 1)
    BY <1>1, <1>2, <1>3, <1>5
  <2> QED BY <1>i, <2>1, Apart
<1> QED BY <1>3, <1>4, <1>5

(* A node of the interval tree claims no mutex that was not held, and all  *)
(* that were held if its block began without one.                          *)
THEOREM MutexesAreAttached == Spec => []MutexesAttached
<1>1. Init => OriginInv /\ NodesInv
  BY DEF Init, OriginInv, NodesInv, Held
<1>2. ASSUME IInv, OriginInv, NodesInv,
             NEW x \in nodes, NEW k \in 1 .. Len(blocks),
             x.item \in blocks[k].first + 1 .. blocks[k].first + blocks[k].n,
             log[blocks[k].first + 1].held = {}
      PROVE  x.mutex = log[x.item].held
  <2>1. PICK j \in 1 .. Len(blocks) :
          /\ x.item \in blocks[j].first + 1 .. blocks[j].first + blocks[j].n
          /\ x.mutex = MutexAt(blocks[j].first, x.item)
    BY <1>2 DEF NodesInv
  <2>2. x.mutex = MutexAt(blocks[k].first, x.item)
    BY <1>2, <2>1, OneBlock
  <2>3. k - 1 \in 0 .. Len(blocks) - 1 /\ (k - 1) + 1 = k /\ Len(log) \in Nat
    BY <1>2, BlockType DEF IInv
  <2>4. k - 1 \in 0 .. Len(blocks) /\ blocks[k].first = ItemOf(k - 1)
        /\ blocks[k].first + blocks[k].n = ItemOf(k) /\ k \in 0 .. Len(blocks)
    BY <1>2, <2>3, BlockFacts DEF IInv
  <2>5. ItemOf(k - 1) \in 0 .. Len(log) /\ ItemOf(k) \in 0 .. Len(log)
    BY <1>2, <2>4 DEF IInv, FileInv
  <2>6. blocks[k].first \in 0 .. Len(log)
        /\ x.item \in blocks[k].first + 1 .. Len(log)
    BY <1>2, <2>3, <2>4, <2>5
  <2>7. log[x.item].held \subseteq x.mutex
    BY <1>2, <2>2, <2>6, CollectedIsHeld
  <2> QED BY <1>2, <2>7 DEF IInv, MutexesHeld
<1>3. IInv /\ OriginInv /\ NodesInv => MutexesAttached
  BY <1>2 DEF MutexesAttached, MutexesExact, IInv
<1> QED BY <1>1, <1>3, InitInv, IInvStep, AttachStep, PTL DEF Spec
=============================================================================
