-------------------------------- MODULE Lzo ---------------------------------
(***************************************************************************)
(* minilzo: lzo1x_1_compress and lzo1x_decompress, the codec of the default *)
(* build, and lzo1x_decompress_safe, the same decoder with its bounds      *)
(* checks compiled in (checked).  x86-64 little-endian configuration: the  *)
(* dictionary holds offsets and is cleared for every part of the block.    *)
(***************************************************************************)
EXTENDS CodecBlock, Bitwise

CONSTANTS
  M2_MAX_LEN, M2_MAX_OFFSET, M2_LOW,        \* 8, 0x800, and 8 low offsets
  M3_MARKER, M3_MAX_LEN, M3_MAX_OFFSET,     \* 32, 33, 0x4000
  M4_MARKER, M4_MAX_LEN,                    \* 16, 9
  OFFSET_LOW,     \* 64: offsets the second byte of an M3 or M4 match tells apart
  TRAIL,          \* 3: literals the low bits of a match can announce
  FIRST,          \* 238: literals the first byte of a stream can announce
  STRIDE,         \* 8: bytes compared at once
  WIDE,           \* 16: bytes copied at once
  SKIP,           \* 32: literals after which the search speeds up
  MARGIN,         \* 20: bytes at the end of a part that start no match
  CHUNK,          \* 49152: bytes of a part
  OUT_DIV, OUT_PAD    \* 16 and 64 + 3: OUT_LEN of sword_common.h

W == TRAIL + 1

\* The relations between the constants of the format that its bit fields need.
ASSUME LzoAssumption ==
  /\ MINMATCH \in Nat /\ MINMATCH > 2
  /\ M4_MARKER > TRAIL
  /\ M3_MARKER = M4_MARKER + 2 * (M4_MAX_LEN - 1)
  /\ 2 * M2_LOW * W = M3_MARKER + M3_MAX_LEN - 1
  /\ M3_MAX_OFFSET % OFFSET_LOW = 0
  /\ CHUNK <= 3 * M3_MAX_OFFSET
  /\ MARGIN >= MINMATCH + 2 * STRIDE

-----------------------------------------------------------------------------
\* The bytes of a length beyond its field: zeros, EXT each, and the rest.
Extension(v) == [i \in 1..((v - 1) \div EXT) |-> 0] \o <<v - EXT * ((v - 1) \div EXT)>>

\* op[-2] |= t: the literal count in the low bits of the last match.
Announce(o, t) == IF Len(o) < 2 THEN o ELSE [o EXCEPT ![Len(o) - 1] = @ | t]

\* There is no match in o to announce t literals.
NoMatchBefore(o, t) == t > 0 /\ t <= TRAIL /\ Len(o) < 2

\* The header of a run of t literals.
RunHeader(o, t) ==
  CASE t = 0 -> o
    [] t > 0 /\ t <= TRAIL -> Announce(o, t)
    [] t > TRAIL /\ t < M4_MARKER + TRAIL -> o \o <<t - TRAIL>>
    [] OTHER -> o \o <<0>> \o Extension(t - (M4_MARKER - 1 + TRAIL))

\* End of the bytes touched when t literals are copied behind o.
CopyEnd(o, t) ==
  CASE t = 0 -> Len(o)
    [] t > 0 /\ t <= TRAIL -> Len(o) + W
    [] t > TRAIL /\ t <= WIDE -> Len(o) + WIDE
    [] OTHER -> Len(o) + t

\* Length of the match of ip and q: strides that agree, up to the stride that
\* reaches the end of the search, then the bytes that agree.
MatchLength(q, end) ==
  LET same == CommonBytes(ip + MINMATCH, q + MINMATCH, end - ip - MINMATCH)
      stops == {j \in 1..(same \div STRIDE) :
                  ip + MINMATCH + STRIDE * j >= end - MARGIN}
  IN  MINMATCH + IF stops = {} THEN same ELSE STRIDE * Min(stops)

LengthHeader(marker, len, max) ==
  IF len <= max THEN <<marker + len - 2>> ELSE <<marker>> \o Extension(len - max)

MatchBytes(off, len) ==
  CASE len <= M2_MAX_LEN /\ off <= M2_MAX_OFFSET ->
         <<((len - 1) * M2_LOW + ((off - 1) % M2_LOW)) * W, (off - 1) \div M2_LOW>>
    [] off <= M3_MAX_OFFSET /\ (len > M2_MAX_LEN \/ off > M2_MAX_OFFSET) ->
         LengthHeader(M3_MARKER, len, M3_MAX_LEN)
           \o <<((off - 1) % OFFSET_LOW) * W, (off - 1) \div OFFSET_LOW>>
    [] OTHER ->
         LET far == off - M3_MAX_OFFSET
             bit == (far \div M3_MAX_OFFSET) * (M4_MAX_LEN - 1)
         IN  LengthHeader(M4_MARKER + bit, len, M4_MAX_LEN)
               \o <<(far % OFFSET_LOW) * W, (far % M3_MAX_OFFSET) \div OFFSET_LOW>>

-----------------------------------------------------------------------------
\* Bytes of the block from base on that do_compress is given.
PartEnd == Min({Len(src), base + CHUNK})

\* The loop of lzo1x_1_compress: a part is compressed when it is long enough.
\* anchor stays at the first literal not written: ii - ti.
LzoPart ==
  /\ codec = "lzo" /\ pc = "part"
  /\ LET t == base - anchor
         worth == /\ Len(src) - base > MARGIN
                  /\ t + PartEnd - base >= SKIP
     IN  IF worth
         THEN /\ pc' = "search"
              /\ seen' = {}
              /\ ip' = base + (IF t < W THEN W - t ELSE 0) + 1
         ELSE pc' = "tail" /\ UNCHANGED <<seen, ip>>
  /\ UNCHANGED <<jobVars, tries, base, anchor, out, high, decoderVars>>

\* literal: and next: of do_compress.  No match at ip: enter it, go on
\* further the longer the run, counted from the part's first byte at most.
LzoLiteral ==
  /\ codec = "lzo" /\ pc = "search" /\ ip < PartEnd - MARGIN
  /\ seen' = seen \cup {ip}
  /\ ip' = ip + 1 + ((ip - Highest(anchor, base)) \div SKIP)
  /\ UNCHANGED <<jobVars, tries, pc, base, anchor, out, high, decoderVars>>

\* A match at ip: the literals before it, then the match.
LzoMatch ==
  /\ codec = "lzo" /\ pc = "search" /\ ip < PartEnd - MARGIN
  /\ \E q \in Candidates(ip) :
       LET t == ip - anchor
           head == RunHeader(out, t)
           len == MatchLength(q, PartEnd)
       IN  /\ out' = head \o Slice(anchor, ip) \o MatchBytes(ip - q, len)
           /\ high' = Max({high, CopyEnd(head, t), Len(out')})
           /\ ip' = ip + len
           /\ anchor' = ip + len
           /\ pc' = IF NoMatchBefore(out, t) THEN "fault" ELSE "search"
  /\ seen' = seen \cup {ip}
  /\ UNCHANGED <<jobVars, tries, base, decoderVars>>

\* ip >= ip_end: the rest of the part is carried over as literals.
LzoPartEnd ==
  /\ codec = "lzo" /\ pc = "search" /\ ip >= PartEnd - MARGIN
  /\ base' = PartEnd
  /\ pc' = "part"
  /\ UNCHANGED <<jobVars, tries, ip, anchor, seen, out, high, decoderVars>>

\* The last literals and the end marker.
LzoTail ==
  /\ codec = "lzo" /\ pc = "tail"
  /\ LET t == Len(src) - anchor
         head == IF out = <<>> /\ t <= FIRST /\ t > 0
                 THEN <<M4_MARKER + 1 + t>>
                 ELSE RunHeader(out, t)
     IN  out' = head \o Slice(anchor, Len(src)) \o <<M4_MARKER + 1, 0, 0>>
  /\ high' = Highest(high, Len(out'))
  /\ pc' = IF out # <<>> /\ NoMatchBefore(out, Len(src) - anchor) THEN "fault" ELSE "first"
  /\ Returned
  /\ UNCHANGED <<jobVars, decoderVars>>

-----------------------------------------------------------------------------
\* The decoder's checks: bytes of the stream, of the output buffer, and of the
\* output so far.  Without them the decoder goes on outside the buffer.
NEED_IP(h, n) == Left - h < n
NEED_OP(n) == Room < n
TEST_LB(off) == off \notin 1..Len(dst)
Overrun(r) == Stop(IF checked THEN r ELSE "fault")

\* NEED_OP(n), NEED_IP(n + 3) and the copy of n literals behind h header bytes.
CopyLiterals(h, n, next) ==
  CASE NEED_OP(n) -> Overrun("output_overrun")
    [] ~NEED_OP(n) /\ NEED_IP(h, IF checked THEN n + 3 ELSE n) -> Overrun("input_overrun")
    [] OTHER -> Deliver(h + n, dst \o SubSeq(out, cp + h + 1, cp + h + n), next)

\* Zero bytes from byte k of the rest of the stream on, as far as it goes.
Zeros(k) == Max({n \in 0..(Len(out) - cp - k + 1) : \A i \in 0..(n - 1) : out[cp + k + i] = 0})

\* A length of which field is in the instruction byte: [len, size], or
\* [len |-> 0] when the stream ends before the length does.
Length(field, max) ==
  IF field > 0 THEN [len |-> field, size |-> 1]
  ELSE LET z == Zeros(2)
       IN  IF cp + 2 + z > Len(out) THEN [len |-> 0, size |-> z + 1]
           ELSE [len |-> max + EXT * z + out[cp + 2 + z], size |-> z + 2]

\* TEST_LB and NEED_OP(n): h bytes of instruction, then n bytes from off back.
\* Reading the instruction is not checked.
CopyMatch(h, off, n) ==
  CASE NEED_IP(0, h) -> Stop("fault")
    [] ~NEED_IP(0, h) /\ TEST_LB(off) -> Overrun("lookbehind_overrun")
    [] ~NEED_IP(0, h) /\ ~TEST_LB(off) /\ NEED_OP(n) -> Overrun("output_overrun")
    [] OTHER -> Deliver(h, CopyBack(dst, off, n), "done")

Byte(k) == out[cp + k]

\* The first byte of the stream: beyond the end marker's it is a run.
FirstByte ==
  CASE NEED_IP(0, 1) -> Overrun("input_overrun")
    [] ~NEED_IP(0, 1) /\ Byte(1) > M4_MARKER + 1 ->
         LET t == Byte(1) - (M4_MARKER + 1)
         IN  CopyLiterals(1, t, IF t < W THEN "match" ELSE "run")
    [] OTHER -> Deliver(0, dst, "instruction")

LzoFirst ==
  /\ codec = "lzo" /\ pc = "first"
  /\ FirstByte
  /\ UNCHANGED <<jobVars, compressorVars>>

\* The top of the decoder's loop: NEED_IP(3), then a run of literals.
LzoRun ==
  /\ codec = "lzo" /\ pc = "instruction"
  /\ CASE NEED_IP(0, 3) -> Overrun("input_overrun")
       [] ~NEED_IP(0, 3) /\ Byte(1) >= M4_MARKER -> Deliver(0, dst, "match")
       [] OTHER ->
            LET l == Length(Byte(1), M4_MARKER - 1)
            IN  IF l.len = 0 THEN Overrun("input_overrun")
                ELSE CopyLiterals(l.size, l.len + TRAIL, "run")
  /\ UNCHANGED <<jobVars, compressorVars>>

\* A short match of n bytes, beyond bytes further back than its offset says.
ShortMatch(beyond, n) ==
  IF NEED_IP(0, 2) THEN Stop("fault")
  ELSE CopyMatch(2, beyond + 1 + (Byte(1) \div W) + Byte(2) * (M4_MARKER \div W), n)

\* Behind a run: three bytes, out of the reach of M2.
LzoShort ==
  /\ codec = "lzo" /\ pc = "run"
  /\ Left >= 1 => Byte(1) < M4_MARKER
  /\ ShortMatch(M2_MAX_OFFSET, 3)
  /\ UNCHANGED <<jobVars, compressorVars>>

\* Behind another match: two bytes.
LzoShorter ==
  /\ codec = "lzo" /\ pc = "match"
  /\ Left >= 1 => Byte(1) < M4_MARKER
  /\ ShortMatch(0, 2)
  /\ UNCHANGED <<jobVars, compressorVars>>

\* M2: length and offset in two bytes.
M2Match ==
  IF NEED_IP(0, 2) THEN Stop("fault")
  ELSE CopyMatch(2, 1 + ((Byte(1) \div W) % M2_LOW) + Byte(2) * M2_LOW,
                 1 + (Byte(1) \div (M2_LOW * W)))

LzoM2 ==
  /\ codec = "lzo" /\ pc \in {"run", "match"}
  /\ Left >= 1 /\ Byte(1) >= M3_MARKER + M3_MAX_LEN - 1
  /\ M2Match
  /\ UNCHANGED <<jobVars, compressorVars>>

\* An offset in the two bytes behind h bytes of length.
Offset(h) == (Byte(h + 1) \div W) + Byte(h + 2) * OFFSET_LOW

\* eof_found: the stream has to end here.
EofFound(h) == IF Left = h THEN Deliver(h, dst, "ok") ELSE Stop("not_consumed")

\* The match of a length l; m3 or with far in front of its offset.  An M4
\* match with no offset ends the stream.
LongMatch(m3, far, l) ==
  CASE l.len = 0 \/ (l.size > 1 /\ NEED_IP(l.size, 2)) -> Overrun("input_overrun")
    [] l.len > 0 /\ l.size = 1 /\ NEED_IP(1, 2) -> Stop("fault")
    [] ~m3 /\ l.len > 0 /\ ~NEED_IP(l.size, 2) /\ far + Offset(l.size) = 0 ->
         EofFound(l.size + 2)
    [] OTHER -> CopyMatch(l.size + 2,
                  Offset(l.size) + (IF m3 THEN 1 ELSE far + M3_MAX_OFFSET), l.len + 2)

\* M3 and M4: a length of any size and an offset in two bytes.
LzoLong ==
  /\ codec = "lzo" /\ pc \in {"run", "match"}
  /\ Left >= 1 /\ Byte(1) \in M4_MARKER..(M3_MARKER + M3_MAX_LEN - 2)
  /\ LET m3 == Byte(1) >= M3_MARKER
         t == Byte(1) - (IF m3 THEN M3_MARKER ELSE M4_MARKER)
     IN  IF m3 THEN LongMatch(TRUE, 0, Length(t, M3_MAX_LEN - 2))
         ELSE LongMatch(FALSE, (t \div (M4_MAX_LEN - 1)) * M3_MAX_OFFSET,
                        Length(t % (M4_MAX_LEN - 1), M4_MAX_LEN - 2))
  /\ UNCHANGED <<jobVars, compressorVars>>

\* match_done and match_next: ip[-2] & 3 literals, then the next match, or a run.
MatchDone ==
  LET t == out[cp - 1] % W
  IN  IF t = 0 THEN Deliver(0, dst, "instruction") ELSE CopyLiterals(0, t, "match")

LzoDone ==
  /\ codec = "lzo" /\ pc = "done"
  /\ MatchDone
  /\ UNCHANGED <<jobVars, compressorVars>>

-----------------------------------------------------------------------------
LzoNext ==
  \/ LzoPart \/ LzoLiteral \/ LzoMatch \/ LzoPartEnd \/ LzoTail
  \/ LzoFirst \/ LzoRun \/ LzoShort \/ LzoShorter \/ LzoM2 \/ LzoLong \/ LzoDone
=============================================================================
