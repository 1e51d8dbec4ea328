------------------------------- MODULE Snappy -------------------------------
(***************************************************************************)
(* snappy.cc: RawCompress and the decoder behind RawUncompress, the codec  *)
(* of a build with COMPRESSION=SNAPPY.  The block comes from and the       *)
(* stream is read through a ByteArraySource, which gives all its bytes in  *)
(* one Peek.                                                               *)
(***************************************************************************)
EXTENDS SnappyWriters

CONSTANTS
  kInputMarginBytes,   \* 15: bytes at the end of a fragment that start no match
  SKIP_STEP,           \* 32: bytes without a match after which the scan speeds up
  FIELD,               \* 64: values of the six bits of a tag beside its type
  SHORT,               \* 12: a copy below it may have a one-byte offset
  NEAR,                \* 2048: offsets a one-byte offset and three bits reach
  SNAPPY_BYTE,         \* 256
  VARINT,              \* 128: values of a byte of a varint
  LENGTHS              \* 2^32: decoded lengths a stream can announce

ASSUME SnappyAssumption ==
  /\ SHORT = MINMATCH + Word /\ kInputMarginBytes = FAST - 1 /\ FAST >= Word
  /\ NEAR % SNAPPY_BYTE = 0
  /\ kBlockSize < SNAPPY_BYTE * SNAPPY_BYTE

-----------------------------------------------------------------------------
\* Digits of v to the given base, low ones first: at most five.
Digits(v, radix) ==
  LET n == Min({k \in 1..5 : v < radix ^ k})
  IN  [i \in 1..n |-> (v \div radix ^ (i - 1)) % radix]

\* Varint::Encode32: every byte but the last carries the flag.
Encode32(v) ==
  LET d == Digits(v, VARINT)
  IN  [i \in DOMAIN d |-> IF i < Len(d) THEN d[i] + VARINT ELSE d[i]]

\* EmitLiteral: the tag, with the length beside it or in the bytes behind it.
LiteralTag(n) ==
  IF n - 1 < FIELD - 4 THEN <<(n - 1) * 4>>
  ELSE LET d == Digits(n - 1, SNAPPY_BYTE) IN <<(FIELD - 5 + Len(d)) * 4>> \o d

\* EmitCopyAtMost64.
EmitCopyAtMost64(off, len) ==
  IF len < SHORT /\ off < NEAR
  THEN <<1 + (len - MINMATCH) * 4 + (off \div SNAPPY_BYTE) * 4 * Word,
         off % SNAPPY_BYTE>>
  ELSE <<2 + (len - 1) * 4, off % SNAPPY_BYTE, off \div SNAPPY_BYTE>>

\* As CopyLengths, without reserving the four bytes of a last copy.
CopyLengthsGreedy(len) ==
  LET whole == len \div FIELD
      rest == len % FIELD
  IN  [i \in 1..whole |-> FIELD] \o IF rest = 0 THEN <<>> ELSE <<rest>>

\* EmitCopy: the lengths of the copies a match of len bytes becomes.
CopyLengths(len) ==
  LET whole == (len - 4) \div FIELD
      rest == len - FIELD * whole
  IN  [i \in 1..whole |-> FIELD]
        \o IF rest > FIELD THEN <<FIELD - 4, rest - (FIELD - 4)>> ELSE <<rest>>

EmitCopy(off, len) ==
  LET c == CopyLengths(len)
  IN  FlattenSeq([i \in DOMAIN c |-> EmitCopyAtMost64(off, c[i])])

-----------------------------------------------------------------------------
\* The table of a fragment, cleared: every entry reads as the fragment's start.
GetHashTable == {}

\* Bytes that agree from p and q on, up to limit.
FindMatchLength(p, q, end) == CommonBytes(p, q, end - p)

FragmentEnd == Min({Len(src), base + kBlockSize})
ip_limit == FragmentEnd - kInputMarginBytes

\* What the callers of RawCompress have to provide.
MaxCompressedLength(n) == 32 + n + (n \div 6)

\* Compress: the length of the block goes first.
SnappyStart ==
  /\ codec = "snappy" /\ pc = "length"
  /\ out' = Encode32(Len(src))
  /\ high' = Len(out')
  /\ pc' = "fragment"
  /\ UNCHANGED <<jobVars, base, ip, anchor, seen, tries, decoderVars>>

\* The loop of Compress: the next fragment, with a cleared table.
SnappyFragment ==
  /\ codec = "snappy" /\ pc = "fragment"
  /\ IF base = Len(src)
     THEN pc' = "header" /\ Returned
     ELSE /\ anchor' = base /\ seen' = GetHashTable /\ UNCHANGED base
          /\ IF FragmentEnd - base >= kInputMarginBytes
             THEN pc' = "scan" /\ ip' = base + 1 /\ tries' = SKIP_STEP
             ELSE pc' = "rest" /\ UNCHANGED <<ip, tries>>
  /\ UNCHANGED <<jobVars, out, high, decoderVars>>

between == tries \div SKIP_STEP

\* Step 1 of CompressFragment: no match at ip.
SnappyScan ==
  /\ codec = "snappy" /\ pc = "scan" /\ ip + between <= ip_limit
  /\ seen' = seen \cup {ip}
  /\ ip' = ip + between
  /\ tries' = tries + between
  /\ UNCHANGED <<jobVars, pc, base, anchor, out, high, decoderVars>>

\* next_ip > ip_limit: goto emit_remainder.
SnappyExhausted ==
  /\ codec = "snappy" /\ pc = "scan" /\ ip + between > ip_limit
  /\ pc' = "rest"
  /\ UNCHANGED <<jobVars, compressorVars, decoderVars>>

\* Step 3: the copy of the match of ip and q behind lit; FindMatchLength looks
\* up to the end of the fragment.  A copy with two bytes of offset writes four.
SnappyCopy(q, lit, touched) ==
  LET len == MINMATCH + FindMatchLength(ip + MINMATCH, q + MINMATCH, FragmentEnd)
      last == EmitCopyAtMost64(ip - q, Last(CopyLengths(len)))
  IN  /\ out' = out \o lit \o EmitCopy(ip - q, len)
      /\ high' = Max({high, touched, Len(out') + IF Len(last) = 3 THEN 1 ELSE 0})
      /\ ip' = ip + len /\ anchor' = ip + len
      /\ pc' = IF ip + len >= ip_limit THEN "rest" ELSE "again"

\* Steps 2 and 3: the literals before the match, copied FAST at once when they
\* are few, and the copy.
SnappyMatch ==
  /\ codec = "snappy" /\ pc = "scan" /\ ip + between <= ip_limit
  /\ \E q \in Candidates(ip) :
       LET n == ip - anchor
           tag == LiteralTag(n)
       IN  IF anchor + FAST > FragmentEnd
           THEN pc' = "fault" /\ UNCHANGED <<ip, anchor, out, high>>
           ELSE SnappyCopy(q, tag \o Slice(anchor, ip),
                           Len(out) + IF n <= FAST THEN 1 + FAST ELSE 0)
  /\ seen' = seen \cup {ip}
  /\ UNCHANGED <<jobVars, tries, base, decoderVars>>

\* The end of step 3: another match right behind the copy, or the scan again.
SnappyAgain ==
  /\ codec = "snappy" /\ pc = "again"
  /\ seen' = seen \cup {ip - 1, ip}
  /\ \/ \E q \in Candidates(ip) \cup {ip - 1} :
          /\ Agree(q, ip, MINMATCH)
          /\ SnappyCopy(q, <<>>, 0)
          /\ UNCHANGED tries
     \/ /\ pc' = "scan" /\ ip' = ip + 1 /\ tries' = SKIP_STEP
        /\ UNCHANGED <<anchor, out, high>>
  /\ UNCHANGED <<jobVars, base, decoderVars>>

\* emit_remainder, and the end of the fragment.
SnappyRest ==
  /\ codec = "snappy" /\ pc = "rest"
  /\ out' = IF anchor < FragmentEnd
            THEN out \o LiteralTag(FragmentEnd - anchor) \o Slice(anchor, FragmentEnd)
            ELSE out
  /\ high' = Highest(high, Len(out'))
  /\ base' = FragmentEnd
  /\ pc' = "fragment"
  /\ UNCHANGED <<jobVars, ip, anchor, seen, tries, decoderVars>>

-----------------------------------------------------------------------------
\* The number whose digits are the n bytes from k on.
Number(k, n, radix) ==
  FoldSet(LAMBDA i, v : v + (out[cp + k + i] % radix) * radix ^ i, 0, 0..(n - 1))

\* The writers the functions of the interface make.  Uncompress asks its sink
\* for a buffer of the whole length, which a sink may give or not.
RawUncompress == "array"
RawUncompressToIOVec == "iovec"
IsValidCompressed == "validator"
Uncompress(flat) == IF flat THEN "array" ELSE "scattered"

\* One of them is called, then ReadUncompressedLength and SetExpectedLength.
SnappyHeader ==
  /\ codec = "snappy" /\ pc = "header"
  /\ LET ends == {k \in 1..Min({5, Left}) : out[cp + k] < VARINT}
         n == Min(ends)
         v == Number(1, n, VARINT)
     IN  IF ends = {} \/ v >= LENGTHS THEN Stop("error")
         ELSE /\ cp' = cp + n /\ expect' = v /\ pc' = "refill"
              /\ writer' \in {RawUncompress, RawUncompressToIOVec, IsValidCompressed}
                            \cup {Uncompress(flat) : flat \in BOOLEAN}
              /\ parts' = IF writer' = "iovec" THEN <<<<>>>> ELSE <<>>
              /\ UNCHANGED dst
  /\ UNCHANGED <<jobVars, compressorVars>>

\* char_table: length, high part of the offset, and bytes behind the tag.
char_table(c) ==
  LET f == c \div 4
  IN  CASE c % 4 = 0 -> [len |-> f + 1, high |-> 0, extra |-> Highest(0, f - (FIELD - 5))]
        [] c % 4 = 1 -> [len |-> MINMATCH + (f % Word), extra |-> 1,
                         high |-> (f \div Word) * SNAPPY_BYTE]
        [] c % 4 = 2 -> [len |-> f + 1, high |-> 0, extra |-> 2]
        [] c % 4 = 3 -> [len |-> f + 1, high |-> 0, extra |-> 4]

\* InternalUncompressAllTags after the loop: Flush, eof and CheckLength.
Finish ==
  IF Len(dst) = expect
  THEN Deliver(0, IF writer = "scattered" THEN Flush(Len(dst)) ELSE dst, "ok")
  ELSE Stop("error")

\* RefillTag: eof, or all bytes of the next tag, in scratch_ when it is near
\* the end of the stream.
RefillTag ==
  /\ codec = "snappy" /\ pc = "refill"
  /\ CASE Left = 0 -> Finish
       [] Left > 0 /\ Left < 1 + char_table(out[cp + 1]).extra -> Stop("error")
       [] OTHER -> pc' = "tag" /\ UNCHANGED decoderVars
  /\ UNCHANGED <<jobVars, compressorVars>>

\* The effect of a call of the writer that follows n bytes of the stream.
Effect(w, n, next) ==
  CASE w.over -> Stop("fault")
    [] ~w.over /\ ~w.ok -> Stop("error")
    [] OTHER -> /\ cp' = cp + n /\ dst' = w.d /\ parts' = w.p
                /\ pc' = next /\ UNCHANGED <<writer, expect>>

\* The loop of DecompressAllTags.  Behind TryFastAppend the next tag is read
\* without a refill.  next_tag: a tag and four bytes are readable.
DecompressTag ==
  /\ codec = "snappy" /\ pc \in {"tag", "next_tag"}
  /\ IF pc = "next_tag" /\ Left < kMaximumTagLength THEN Stop("fault")
     ELSE
     LET c == out[cp + 1]
         entry == char_table(c)
         e == entry.extra
         n == IF e = 0 THEN entry.len ELSE 1 + Number(2, e, SNAPPY_BYTE)
         literals == SubSeq(out, cp + 2 + e, cp + 1 + e + n)
     IN  CASE c % 4 = 0 /\ TryFastAppend(Left - 1, entry.len) ->
                Effect(WriterAppend(literals), 1 + n, "next_tag")
           [] c % 4 = 0 /\ ~TryFastAppend(Left - 1, entry.len) ->
                IF n > Left - 1 - e THEN Stop("error")
                ELSE Effect(WriterAppend(literals), 1 + e + n, "refill")
           [] OTHER ->
                Effect(WriterAppendFromSelf(entry.high + Number(2, e, SNAPPY_BYTE),
                                            entry.len),
                       1 + e, "refill")
  /\ UNCHANGED <<jobVars, compressorVars>>

SnappyNext ==
  \/ SnappyStart \/ SnappyFragment \/ SnappyScan \/ SnappyExhausted \/ SnappyMatch
  \/ SnappyAgain \/ SnappyRest
  \/ SnappyHeader \/ RefillTag \/ DecompressTag
=============================================================================
