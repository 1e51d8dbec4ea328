----------------------------- MODULE BlockReader -----------------------------
(***************************************************************************)
(* How sword-race-analysis reads the trace of one thread for one barrier   *)
(* interval (load_and_convert_file in src/tools/sword-race-analysis.cc).   *)
(* The data file is a sequence of blocks, each a length field of HEADER    *)
(* bytes and that many compressed bytes; a record of the meta file gives   *)
(* the byte range of the interval.  The reader fetches the length field of *)
(* the next block together with the block before it and decides from byte  *)
(* counts whether there is a next one.                                     *)
(*                                                                         *)
(* First the traced program writes the file, as TraceBuffer describes; it  *)
(* may be killed before all of the file is on disk.  Then the reader runs. *)
(* Items are numbered in the order of the file, and a node of the interval *)
(* tree is the number of its access with the mutexes attached to it.       *)
(***************************************************************************)
EXTENDS Integers, Sequences, FiniteSets

CONSTANTS
  HEADER,        \* sizeof(uint64_t), the bytes of a length field
  WORD,          \* number of values of a uint64_t
  MAX_LEN,       \* largest compressed size of a full buffer
  Locks,         \* wait ids of mutexes
  Garbage,       \* values of bytes that are no length field
  MaxItems,      \* bound: items in the file
  MaxBlocks      \* bound: blocks in the file

ASSUME ConstantsAssumption ==
  /\ HEADER \in Nat \ {0} /\ MAX_LEN \in Nat
  /\ WORD \in Nat /\ 2 * HEADER + MAX_LEN < WORD
  /\ MaxItems \in Nat /\ MaxBlocks \in Nat
  /\ Garbage \subseteq 0 .. WORD - 1

VARIABLES
  pc,          \* where the reader is
  log,         \* the items of the file
  blocks,      \* the blocks of the file
  disk,        \* bytes of the file that are on disk
  lo, hi,      \* the interval has the blocks lo + 1 .. hi
  fp,          \* position in the open file
  block_size,  \* bytes to read next
  neof,        \* 1 if they end with the length field of another block
  total_size,  \* bytes read so far
  nodes        \* what was inserted into the interval tree

fileVars == <<log, blocks, disk, lo, hi>>
readVars == <<fp, block_size, neof, total_size, nodes>>
vars == <<pc, fileVars, readVars>>

-----------------------------------------------------------------------------
(* The file.                                                               *)

(* The byte offset after the first k blocks, and the items in them.        *)
PosOf(k) == IF k = 0 THEN 0 ELSE blocks[k].pos + HEADER + blocks[k].len
ItemOf(k) == IF k = 0 THEN 0 ELSE blocks[k].first + blocks[k].n

(* The mutexes a thread holds after an item.                               *)
HeldAfter(item) ==
  CASE item.kind = "mutex_acquired" -> item.held \cup {item.what}
    [] item.kind = "mutex_released" -> item.held \ {item.what}
    [] OTHER -> item.held

Held == IF log = << >> THEN {} ELSE HeldAfter(log[Len(log)])

Init ==
  /\ pc = "write"
  /\ log = << >> /\ blocks = << >> /\ disk = 0 /\ lo = 0 /\ hi = 0
  /\ fp = 0 /\ block_size = 0 /\ neof = 0 /\ total_size = 0
  /\ nodes = {}

(* The traced thread stores an access or a change of its mutexes.          *)
StoreItem(kind, what) ==
  /\ pc = "write" /\ Len(log) < MaxItems /\ Len(blocks) < MaxBlocks
  /\ kind = "mutex_acquired" => what \notin Held
  /\ kind = "mutex_released" => what \in Held
  /\ log' = Append(log, [kind |-> kind, what |-> what, held |-> Held])
  /\ UNCHANGED <<pc, blocks, disk, lo, hi, readVars>>

(* A dump appends the items that are not on file, compressed to len bytes. *)
(* The file never gets so long that its offsets do not fit in a word.      *)
WriteBlock(len) ==
  /\ pc = "write" /\ Len(log) > ItemOf(Len(blocks))
  /\ PosOf(Len(blocks)) + len + 2 * HEADER < WORD
  /\ blocks' = Append(blocks,
       [pos |-> PosOf(Len(blocks)), len |-> len, first |-> ItemOf(Len(blocks)),
        n |-> Len(log) - ItemOf(Len(blocks))])
  /\ UNCHANGED <<pc, log, disk, lo, hi, readVars>>

(* The program has ended, with size bytes of the file on disk, and a       *)
(* record of the blocks from + 1 .. to is to be read.                      *)
Open(from, to, size) ==
  /\ pc = "write" /\ Len(log) = ItemOf(Len(blocks))
  /\ lo' = from /\ hi' = to /\ disk' = size
  /\ pc' = "open"
  /\ UNCHANGED <<log, blocks, readVars>>

-----------------------------------------------------------------------------
(* The reader.                                                             *)

filesize == PosOf(hi) - PosOf(lo)

(* Addition and subtraction of a uint64_t, which wrap.                     *)
Plus(a, b) == IF a + b < WORD THEN a + b ELSE a + b - WORD

Minus(a, b) == IF b <= a THEN a - b ELSE a - b + WORD

(* Size of compressed_buffer.                                              *)
OUT_LEN == MAX_LEN + HEADER

(* What the HEADER bytes at position p say: the length of a block, or, if  *)
(* they are not all on disk or no length field, anything.                  *)
Length(p) ==
  IF p + HEADER <= disk /\ \E k \in 1 .. Len(blocks) : blocks[k].pos = p
  THEN {blocks[k].len : k \in {j \in 1 .. Len(blocks) : blocks[j].pos = p}}
  ELSE Garbage

(* Is there a block after one of len bytes?                                *)
MoreAfter(done, len) == Plus(Plus(done, len), HEADER) < filesize

(* Mutant: neof keeps its value at the last block.                         *)
PrepareKeeping(done, len) ==
  /\ block_size' = IF MoreAfter(done, len) THEN Plus(len, HEADER) ELSE len
  /\ neof' = IF MoreAfter(done, len) THEN 1 ELSE neof

(* block_size and neof for a block of len bytes, after done bytes.         *)
Prepare(done, len) ==
  /\ block_size' = IF MoreAfter(done, len) THEN Plus(len, HEADER) ELSE len
  /\ neof' = IF MoreAfter(done, len) THEN 1 ELSE 0

(* An empty interval: nothing is opened.                                   *)
SkipFile ==
  /\ pc = "open" /\ filesize = 0
  /\ pc' = "done"
  /\ UNCHANGED <<fileVars, readVars>>

(* The file is opened and the first length field read; whether the read    *)
(* succeeded is not looked at.                                             *)
ReadHeader ==
  /\ pc = "open" /\ filesize > 0
  /\ fp' = IF PosOf(lo) + HEADER <= disk THEN PosOf(lo) + HEADER
           ELSE IF PosOf(lo) <= disk THEN disk ELSE PosOf(lo)
  /\ \E len \in Length(PosOf(lo)) : Prepare(0, len)
  /\ total_size' = HEADER
  /\ pc' = "loop"
  /\ UNCHANGED <<fileVars, nodes>>

(* Mutant: the loop looks one block ahead.                                 *)
LoopAhead == total_size + block_size < filesize

(* The condition of the loop.                                              *)
Loop == total_size < filesize

(* Bytes that fread can deliver.                                           *)
OnDisk == IF fp < disk THEN disk - fp ELSE 0

(* The block whose compressed bytes are the n bytes from position p: only  *)
(* such a range can be decompressed.                                       *)
BlocksAt(p, n) ==
  {k \in 1 .. Len(blocks) : blocks[k].pos + HEADER = p /\ blocks[k].len = n}

(* Mutant: a release does not take the mutex out of the set.               *)
MutexAtKeeping(first, i) ==
  {l \in Locks : \E j \in first + 1 .. i - 1 :
     log[j].kind = "mutex_acquired" /\ log[j].what = l}

(* The set of mutexes when the loop over the items of a block that follows *)
(* item first comes to item i: empty at first, with every mutex acquired   *)
(* in this block and not released since.                                   *)
MutexAt(first, i) ==
  {l \in Locks : \E j \in first + 1 .. i - 1 :
     /\ log[j].kind = "mutex_acquired" /\ log[j].what = l
     /\ \A m \in j + 1 .. i - 1 :
          ~(log[m].kind = "mutex_released" /\ log[m].what = l)}

(* The nodes that a block adds to the interval tree.                       *)
NodesOf(b) ==
  {[item |-> i, mutex |-> MutexAt(b.first, i)] :
     i \in {j \in b.first + 1 .. b.first + b.n : log[j].kind = "data_access"}}

(* An iteration of the loop: read a block and the length field behind it,  *)
(* decompress the block and insert its accesses.                           *)
ReadBlock ==
  /\ pc = "loop" /\ Loop
  /\ block_size <= OnDisk
  /\ \E k \in BlocksAt(fp, Minus(block_size, HEADER * neof)) :
       nodes' = nodes \cup NodesOf(blocks[k])
  /\ fp' = fp + block_size
  /\ total_size' = Plus(total_size, block_size)
  /\ \E len \in Length(fp + block_size - HEADER) :
       Prepare(Plus(total_size, block_size), len)
  /\ UNCHANGED <<pc, fileVars>>

(* exit(-1): the file is missing, ends too early or holds bytes that       *)
(* cannot be decompressed.                                                 *)
Fail ==
  /\ \/ pc = "open" /\ filesize > 0 /\ disk = 0
     \/ /\ pc = "loop" /\ Loop
        /\ \/ block_size > OnDisk
           \/ BlocksAt(fp, Minus(block_size, HEADER * neof)) = {}
  /\ pc' = "failed"
  /\ UNCHANGED <<fileVars, readVars>>

EndLoop ==
  /\ pc = "loop" /\ ~Loop
  /\ pc' = "done"
  /\ UNCHANGED <<fileVars, readVars>>

Exited == pc \in {"done", "failed"} /\ UNCHANGED vars

-----------------------------------------------------------------------------
Write ==
  \/ StoreItem("data_access", "a")
  \/ \E l \in Locks, k \in {"mutex_acquired", "mutex_released"} : StoreItem(k, l)
  \/ \E len \in HEADER .. MAX_LEN : WriteBlock(len)
  \/ \E from, to \in 0 .. Len(blocks) : \E size \in 0 .. PosOf(Len(blocks)) :
       from <= to /\ Open(from, to, size)

Next ==
  Write \/ SkipFile \/ ReadHeader \/ ReadBlock \/ Fail \/ EndLoop \/ Exited

Spec == Init /\ [][Next]_vars

-----------------------------------------------------------------------------
(* Properties.                                                             *)

Items ==
  [kind : {"data_access"}, what : {"a"}, held : SUBSET Locks]
    \cup [kind : {"mutex_acquired", "mutex_released"}, what : Locks,
          held : SUBSET Locks]

(* Every variable has its type, and the reader never counts more bytes     *)
(* than the range has.                                                     *)
TypeOK ==
  /\ pc \in {"write", "open", "loop", "done", "failed"}
  /\ log \in Seq(Items)
  /\ blocks \in Seq([pos : Nat, len : HEADER .. MAX_LEN, first : Nat, n : Nat])
  /\ disk \in Nat /\ lo \in 0 .. Len(blocks) /\ hi \in 0 .. Len(blocks)
  /\ fp \in Nat /\ block_size \in 0 .. WORD - 1 /\ neof \in {0, 1}
  /\ total_size \in 0 .. filesize
  /\ nodes \subseteq [item : 1 .. Len(log), mutex : SUBSET Locks]

(* A file that is complete is read without an error, whatever bytes follow *)
(* the range and whatever the last bytes of a block look like.             *)
NoFalseError == pc = "failed" => disk < PosOf(hi)

(* When the reader ends without an error it has inserted the accesses of   *)
(* the interval and no other, even if the file was cut short.              *)
ReadsExactly ==
  pc = "done" =>
    {x.item : x \in nodes} =
      {i \in ItemOf(lo) + 1 .. ItemOf(hi) : log[i].kind = "data_access"}

(* No read goes past the end of compressed_buffer.                         *)
BufferFits ==
  pc = "loop" /\ Loop => block_size <= OUT_LEN \/ OnDisk <= OUT_LEN

MutexesHeld == \A x \in nodes : x.mutex \subseteq log[x.item].held

MutexesExact ==
  \A x \in nodes : \A k \in 1 .. Len(blocks) :
    /\ x.item \in blocks[k].first + 1 .. blocks[k].first + blocks[k].n
    /\ log[blocks[k].first + 1].held = {}
    => x.mutex = log[x.item].held

(* A node claims no mutex that was not held at the access, so no race is   *)
(* missed because of it (MutexesHeld); and it claims all that were held,   *)
(* if none was held when its block began: the reader forgets those at a    *)
(* block boundary (MutexesExact).                                          *)
MutexesAttached == MutexesHeld /\ MutexesExact
=============================================================================
