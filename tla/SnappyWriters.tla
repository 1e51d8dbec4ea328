--------------------------- MODULE SnappyWriters ----------------------------
(***************************************************************************)
(* The output types of snappy.cc that its decoder is instantiated with:    *)
(* SnappyArrayWriter (RawUncompress, what the analyzer calls),             *)
(* SnappyIOVecWriter, SnappyScatteredWriter with its SnappySinkAllocator,  *)
(* and SnappyDecompressionValidator, which only counts.                    *)
(*                                                                         *)
(* dst is everything written so far, in order; the writers that cut it into *)
(* segments keep them in parts, the last of which is the current one.      *)
(***************************************************************************)
EXTENDS CodecBlock, SequencesExt

CONSTANTS
  kBlockSize,   \* 65536: bytes of a fragment and of a scattered block
  FAST,         \* 16: bytes UnalignedCopy128 copies
  IOVec         \* lengths of the caller's iovecs

kMaximumTagLength == 5
Word == 8       \* bytes UnalignedCopy64 copies

\* An Append or AppendFromSelf that returned FALSE, touched foreign memory, or
\* returned TRUE having written d and p.
Refused == [ok |-> FALSE, over |-> FALSE, d |-> <<>>, p |-> <<>>]
Outside == [Refused EXCEPT !.over = TRUE]
Written(d, p) == [ok |-> TRUE, over |-> FALSE, d |-> d, p |-> p]

-----------------------------------------------------------------------------
\* UnalignedCopy64 from offset s to offset t of buffer m.
UnalignedCopy64(m, s, t) ==
  [i \in DOMAIN m |-> IF i \in (t + 1)..(t + Word) THEN m[s + i - t] ELSE m[i]]

\* The pattern of off bytes before op, doubled until it has Word bytes.
Expand(m, op, off) ==
  LET grow[k \in 0..3] ==
        IF k = 0 THEN [m |-> m, op |-> op, size |-> off]
        ELSE LET g == grow[k - 1]
             IN  IF g.size >= Word THEN g
                 ELSE [m |-> UnalignedCopy64(g.m, op - off, g.op),
                       op |-> g.op + g.size, size |-> 2 * g.size]
  IN  grow[3]

\* Two words at a time while the buffer has room for them, then one.
Words(m, src0, op0, end) ==
  LET run[k \in Nat] ==
        IF k = 0 THEN [m |-> m, op |-> op0]
        ELSE LET r == run[k - 1]
                 one == UnalignedCopy64(r.m, src0 + r.op - op0, r.op)
             IN  [m |-> UnalignedCopy64(one, src0 + r.op - op0 + Word, r.op + Word),
                  op |-> r.op + 2 * Word]
      \* rounds that reach end, and rounds that fit
      wanted == (end - op0 + 2 * Word - 1) \div (2 * Word)
      fit == IF op0 > Len(m) THEN 0 ELSE (Len(m) - op0) \div (2 * Word)
      r == run[Min({wanted, fit})]
  IN  IF r.op < end /\ r.op <= Len(m) - Word
      THEN [m |-> UnalignedCopy64(r.m, src0 + r.op - op0, r.op), op |-> r.op + Word]
      ELSE r

\* IncrementalCopySlow: byte by byte from off back, from op to end.
IncrementalCopySlow(m, off, op, end) ==
  IF op >= end THEN m
  ELSE LET head == CopyBack(SubSeq(m, 1, op), off, end - op)
       IN  head \o SubSeq(m, end + 1, Len(m))

\* IncrementalCopy: n bytes from off back, behind d, in a buffer of size bytes.
IncrementalCopy(d, off, n, size) ==
  LET m == d \o [i \in 1..(size - Len(d)) |-> 0]
      end == Len(d) + n
      e == IF off < Word THEN Expand(m, Len(d), off)
                         ELSE [m |-> m, op |-> Len(d), size |-> off]
      w == Words(e.m, Len(d) - off, e.op, end)
      done == IF off < Word /\ Len(d) > size - 14
              THEN IncrementalCopySlow(m, off, Len(d), end)
              ELSE IF e.op >= end THEN e.m
              ELSE IncrementalCopySlow(w.m, e.size, w.op, end)
  IN  SubSeq(done, 1, end)

\* The words that Expand writes reach beyond the buffer.
Overruns(d, off, size) ==
  /\ off < Word /\ Len(d) <= size - 14
  /\ LET e == Expand(d \o [i \in 1..(size - Len(d)) |-> 0], Len(d), off)
     IN  e.op - (e.size \div 2) + Word > size

-----------------------------------------------------------------------------
\* SnappyArrayWriter.
ArrayAppend(bs) ==
  IF expect - Len(dst) < Len(bs) THEN Refused ELSE Written(dst \o bs, parts)

ArrayAppendFromSelf(off, n) ==
  IF off = 0 \/ Len(dst) < off \/ Len(dst) + n > expect THEN Refused
  ELSE IF Overruns(dst, off, expect) THEN Outside
  ELSE Written(IncrementalCopy(dst, off, n, expect), parts)

-----------------------------------------------------------------------------
\* SnappyDecompressionValidator: dst stands for produced_, its bytes for nothing.
ValidatorAppend(n) ==
  IF Len(dst) + n > expect THEN Refused
  ELSE Written(dst \o [i \in 1..n |-> 0], parts)

ValidatorAppendFromSelf(off, n) ==
  IF off = 0 \/ Len(dst) < off THEN Refused ELSE ValidatorAppend(n)

-----------------------------------------------------------------------------
\* SnappyIOVecWriter: b goes to the first iovec from the current one on that
\* has room; <<>> when there is none.
IOVecPut(p, b) ==
  LET room == {i \in Len(p)..Len(IOVec) :
                 (IF i = Len(p) THEN Len(p[i]) ELSE 0) < IOVec[i]}
  IN  IF room = {} THEN <<>>
      ELSE LET i == Min(room)
               q == [j \in 1..i |-> IF j <= Len(p) THEN p[j] ELSE <<>>]
           IN  [q EXCEPT ![i] = Append(@, b)]

IOVecAppendTo(p, bs) ==
  FoldLeft(LAMBDA q, b : IF q = <<>> THEN <<>> ELSE IOVecPut(q, b), p, bs)

IOVecAppend(bs) ==
  IF Len(dst) + Len(bs) > expect THEN Refused
  ELSE LET p == IOVecAppendTo(parts, bs)
       IN  IF p = <<>> THEN Refused ELSE Written(FlattenSeq(p), p)

\* Where the copy starts: back over the iovecs, off bytes from the current one.
IOVecFrom(off) ==
  LET back[i \in 1..Len(parts)] ==
        IF i = Len(parts) THEN off - Len(parts[i]) ELSE back[i + 1] - IOVec[i]
      i == Max({j \in 1..Len(parts) : back[j] <= 0})
  IN  [i |-> i, at |-> 0 - back[i]]

\* The next byte to copy is in a later iovec once one is used up.
IOVecNext(f) ==
  IF f.at < IOVec[f.i] THEN f
  ELSE [i |-> Min({j \in (f.i + 1)..Len(IOVec) : IOVec[j] > 0}), at |-> 0]

\* n bytes, one after the other.  A full output fails only a copy inside the
\* current iovec: the result of Append from another one is not looked at.
IOVecAppendFromSelf(off, n) ==
  LET copy[k \in 0..n] ==
        IF k = 0 THEN [ok |-> TRUE, p |-> parts, f |-> IOVecFrom(off)]
        ELSE LET c == copy[k - 1]
                 f == IOVecNext(c.f)
                 p == IOVecPut(c.p, c.p[f.i][f.at + 1])
             IN  IF ~c.ok THEN c
                 ELSE [ok |-> p # <<>> \/ f.i # Len(c.p),
                       p |-> IF p = <<>> THEN c.p ELSE p,
                       f |-> [f EXCEPT !.at = @ + 1]]
  IN  IF off = 0 \/ off > Len(dst) \/ n > expect - Len(dst) \/ ~copy[n].ok
      THEN Refused
      ELSE Written(FlattenSeq(copy[n].p), copy[n].p)

-----------------------------------------------------------------------------
\* SnappyScatteredWriter: blocks of kBlockSize, the last one shorter.
BlockRoom(p) ==
  IF p = <<>> THEN 0
  ELSE Min({kBlockSize, expect - kBlockSize * (Len(p) - 1)}) - Len(Last(p))

FillBlock(p, bs) == [p EXCEPT ![Len(p)] = @ \o bs]

\* SlowAppend: fill the current block, make a new one, until bs is written.
SlowAppend(p, bs) ==
  LET step[k \in 0..Len(bs)] ==
        IF k = 0 THEN [ok |-> TRUE, p |-> p, left |-> bs]
        ELSE LET s == step[k - 1]
                 room == BlockRoom(s.p)
                 full == IF s.p = <<>> THEN <<>>
                         ELSE FillBlock(s.p, SubSeq(s.left, 1, room))
                 left == SubSeq(s.left, room + 1, Len(s.left))
             IN  IF ~s.ok \/ Len(s.left) <= room THEN s
                 ELSE [ok |-> Len(FlattenSeq(full)) + Len(left) <= expect,
                       p |-> Append(full, <<>>), left |-> left]
      last == step[Len(bs)]
  IN  [ok |-> last.ok,
       p |-> IF last.p = <<>> THEN <<>> ELSE FillBlock(last.p, last.left)]

ScatteredAppend(bs) ==
  LET a == SlowAppend(parts, bs)
  IN  IF a.ok THEN Written(FlattenSeq(a.p), a.p) ELSE Refused

\* SlowAppendFromSelf: byte by byte, from any block.
SlowAppendFromSelf(off, n) ==
  LET copy[k \in 0..n] ==
        IF k = 0 THEN parts
        ELSE LET from == Len(dst) - off + k - 1
                 b == copy[k - 1][1 + (from \div kBlockSize)][1 + (from % kBlockSize)]
             IN  SlowAppend(copy[k - 1], <<b>>).p
  IN  IF off = 0 \/ off > Len(dst) \/ expect - Len(dst) < n THEN Refused
      ELSE Written(FlattenSeq(copy[n]), copy[n])

ScatteredAppendFromSelf(off, n) ==
  IF parts # <<>> /\ off > 0 /\ off <= Len(Last(parts)) /\ n <= BlockRoom(parts)
  THEN LET old == Last(parts)
           size == Len(old) + BlockRoom(parts)
           p == [parts EXCEPT ![Len(parts)] = IncrementalCopy(old, off, n, size)]
       IN  IF Overruns(old, off, size) THEN Outside ELSE Written(FlattenSeq(p), p)
  ELSE SlowAppendFromSelf(off, n)

\* SnappySinkAllocator::Flush: the blocks, cut to what was written.
Flush(size) ==
  LET sizes == [i \in DOMAIN parts |-> Min({kBlockSize, expect - kBlockSize * (i - 1)})]
      given[i \in 0..Len(parts)] ==
        IF i = 0 THEN 0 ELSE given[i - 1] + Min({sizes[i], size - given[i - 1]})
  IN  FlattenSeq([i \in DOMAIN parts |->
                    SubSeq(parts[i], 1, given[i] - given[i - 1])])

-----------------------------------------------------------------------------
WriterAppend(bs) ==
  CASE writer = "array" -> ArrayAppend(bs)
    [] writer = "iovec" -> IOVecAppend(bs)
    [] writer = "scattered" -> ScatteredAppend(bs)
    [] writer = "validator" -> ValidatorAppend(Len(bs))

WriterAppendFromSelf(off, n) ==
  CASE writer = "array" -> ArrayAppendFromSelf(off, n)
    [] writer = "iovec" -> IOVecAppendFromSelf(off, n)
    [] writer = "scattered" -> ScatteredAppendFromSelf(off, n)
    [] writer = "validator" -> ValidatorAppendFromSelf(off, n)

\* Room in one piece behind what is written.
Space ==
  CASE writer = "array" -> expect - Len(dst)
    [] writer = "iovec" -> Min({expect - Len(dst), IOVec[Len(parts)] - Len(Last(parts))})
    [] writer = "scattered" -> BlockRoom(parts)
    [] writer = "validator" -> 0

\* As TryFastAppend, without keeping a whole tag behind the literals.
TryFastAppendTight(available, n) ==
  n <= FAST /\ available >= FAST /\ Space >= FAST

\* TryFastAppend: n literals of available bytes, when it takes them.
TryFastAppend(available, n) ==
  n <= FAST /\ available >= FAST + kMaximumTagLength /\ Space >= FAST
=============================================================================
