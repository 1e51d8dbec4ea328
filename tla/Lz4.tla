-------------------------------- MODULE Lz4 ---------------------------------
(***************************************************************************)
(* lz4.c: LZ4_compress_fast and LZ4_decompress_safe, the codec of a build  *)
(* with COMPRESSION=LZ4.  Both the unlimited instance of                   *)
(* LZ4_compress_generic, chosen when the caller's buffer has               *)
(* LZ4_compressBound bytes, and the limited one, which gives up with 0.    *)
(***************************************************************************)
EXTENDS CodecBlock

CONSTANTS
  WILDCOPYLENGTH,   \* 8: bytes copied at once
  LASTLITERALS,     \* 5: bytes at the end of a block that are literals
  RUN_MASK,         \* 15: literals a token can count
  ML_MASK,          \* 15: match bytes beyond MINMATCH a token can count
  MAX_DISTANCE,     \* 65535: what two bytes of offset reach
  LZ4_BYTE,         \* 256
  ACCELERATION,     \* of the search
  TRIGGER,          \* 64: lookups after which the search speeds up
  BOUND_PAD         \* 16: of LZ4_COMPRESSBOUND

MFLIMIT == WILDCOPYLENGTH + MINMATCH

ASSUME Lz4Assumption ==
  /\ MAX_DISTANCE + 1 = LZ4_BYTE * LZ4_BYTE
  /\ 2 + 1 + LASTLITERALS = WILDCOPYLENGTH
  /\ RUN_MASK \in 1..EXT /\ ML_MASK \in 1..EXT /\ ACCELERATION > 0

LZ4_compressBound(n) == n + (n \div EXT) + BOUND_PAD

\* inputs below LZ4_64Klimit use a table of 16-bit positions
Small == Len(src) < MAX_DISTANCE + 1 + MFLIMIT - 1
Limited == limit < LZ4_compressBound(Len(src))
mflimit == Len(src) - MFLIMIT

\* What the table gives back for position p.
Entered(p) == IF Small THEN p % (MAX_DISTANCE + 1) ELSE p

\* Positions a lookup at p can return.
Lz4Candidates(p) ==
  {q \in {Entered(s) : s \in seen} \cup {0} : q < p /\ Agree(q, p, MINMATCH)}

\* The bytes of a count beyond its four bits: EXT each, and the rest.
CountBytes(v) == [i \in 1..(v \div EXT) |-> EXT] \o <<v % EXT>>

\* LZ4_wildCopy of n bytes to from ends there.
WildEnd(from, n) ==
  from + WILDCOPYLENGTH * Highest(1, (n + WILDCOPYLENGTH - 1) \div WILDCOPYLENGTH)

Field(n, mask) == IF n < mask THEN n ELSE mask
CountOf(n, mask) == IF n < mask THEN <<>> ELSE CountBytes(n - mask)

\* What follows token and literal count: the offset, written little-endian.
OffsetBytes(off) == <<off % LZ4_BYTE, (off \div LZ4_BYTE) % LZ4_BYTE>>

\* The check of a limited compressor before it writes literals; _next_match,
\* straight behind a match, has none and skips it.
NoRoomForLiterals(lit) ==
  Limited /\ Len(out) + 1 + lit + (2 + 1 + LASTLITERALS) + (lit \div EXT) > limit

\* The check before it writes the count of a match, when literals and offset
\* are written: it allows one byte for EXT + 1 of the match.
NoRoomForCount(mid, code) ==
  Limited /\ Len(out) + Len(mid) + (1 + LASTLITERALS) + (code \div (EXT + 1)) > limit

\* End of what the copy of the literals and the offset touch.
Copied(lit, head, mid, again) ==
  Highest(IF again THEN 0 ELSE WildEnd(Len(out) + Len(head), lit), Len(out) + Len(mid))

\* End of what the words of the count touch: one byte for EXT of the match.
CountTouched(mid, code) ==
  Len(out) + Len(mid) +
    IF code < ML_MASK THEN 0 ELSE 4 + 4 * ((code - ML_MASK) \div (4 * EXT))

-----------------------------------------------------------------------------
\* LZ4_compress_generic up to its main loop.
Lz4Start ==
  /\ codec = "lz4" /\ pc = "start"
  /\ IF Len(src) < MFLIMIT + 1
     THEN pc' = "last" /\ UNCHANGED <<ip, seen>>
     ELSE pc' = "find" /\ ip' = 1 /\ seen' = {0}
  /\ UNCHANGED <<jobVars, tries, base, anchor, out, high, decoderVars>>

\* Position of the lookup after the one at ip.
Forward == ip + IF tries = 0 THEN 1 ELSE ACCELERATION + ((tries - 1) \div TRIGGER)

\* No match at ip.
Lz4Miss ==
  /\ codec = "lz4" /\ pc = "find" /\ Forward <= mflimit
  /\ seen' = seen \cup {ip}
  /\ ip' = Forward
  /\ tries' = tries + 1
  /\ UNCHANGED <<jobVars, pc, base, anchor, out, high, decoderVars>>

\* The search came too close to the end.
Lz4Exhausted ==
  /\ codec = "lz4" /\ pc = "find" /\ Forward > mflimit
  /\ pc' = "last"
  /\ UNCHANGED <<jobVars, compressorVars, decoderVars>>

\* Writes the literals from anchor to p and the match of p and q: token,
\* literals, offset, length of the match.  again: straight behind a match.
Lz4Emit(p, q, again) ==
  LET code == CommonBytes(p + MINMATCH, q + MINMATCH,
                          Len(src) - LASTLITERALS - p - MINMATCH)
      lit == p - anchor
      head == <<Field(lit, RUN_MASK) * (ML_MASK + 1) + Field(code, ML_MASK)>>
                \o CountOf(lit, RUN_MASK)
      mid == head \o Slice(anchor, p) \o OffsetBytes(p - q)
      end == p + MINMATCH + code
      copied == Copied(lit, head, mid, again)
  IN  CASE ~again /\ NoRoomForLiterals(lit) ->
             pc' = "full" /\ UNCHANGED <<ip, anchor, out, high>>
        [] (again \/ ~NoRoomForLiterals(lit)) /\ NoRoomForCount(mid, code) ->
             /\ pc' = "full" /\ high' = Highest(high, copied)
             /\ UNCHANGED <<ip, anchor, out>>
        [] OTHER ->
             /\ out' = out \o mid \o CountOf(code, ML_MASK)
             /\ high' = Max({high, copied, CountTouched(mid, code), Len(out')})
             /\ ip' = end /\ anchor' = end
             /\ pc' = IF end > mflimit THEN "last" ELSE "next"

\* A match at ip, extended backwards over literals not written yet.
Lz4Match ==
  /\ codec = "lz4" /\ pc = "find" /\ Forward <= mflimit
  /\ \E q \in Lz4Candidates(ip) :
       /\ Small \/ q + MAX_DISTANCE >= ip
       /\ LET back == Max({k \in 0..Min({ip - anchor, q}) : Agree(ip - k, q - k, k)})
          IN  Lz4Emit(ip - back, q - back, FALSE)
  /\ seen' = seen \cup {ip}
  /\ tries' = 0
  /\ UNCHANGED <<jobVars, base, decoderVars>>

\* Test next position: a match right behind a match has no literals.
Lz4Again ==
  /\ codec = "lz4" /\ pc = "next"
  /\ seen' = seen \cup {ip - 2, ip}
  /\ \/ \E q \in Lz4Candidates(ip) \cup {ip - 2} :
          /\ Agree(q, ip, MINMATCH)
          /\ q + MAX_DISTANCE >= ip
          /\ Lz4Emit(ip, q, TRUE)
     \/ pc' = "find" /\ ip' = ip + 1 /\ UNCHANGED <<anchor, out, high>>
  /\ UNCHANGED <<jobVars, tries, base, decoderVars>>

\* The last literals.
Lz4Last ==
  /\ codec = "lz4" /\ pc = "last"
  /\ LET run == Len(src) - anchor
     IN  IF Limited /\ Len(out) + run + 1 + ((run + EXT - RUN_MASK) \div EXT) > limit
         THEN pc' = "full" /\ UNCHANGED <<out, high>>
         ELSE /\ out' = out \o <<Field(run, RUN_MASK) * (ML_MASK + 1)>>
                          \o CountOf(run, RUN_MASK) \o Slice(anchor, Len(src))
              /\ high' = Highest(high, Len(out'))
              /\ pc' = "token"
  /\ Returned
  /\ UNCHANGED <<jobVars, decoderVars>>

-----------------------------------------------------------------------------
\* The end of a count whose first byte is byte k of the rest of the stream:
\* it stops at a byte below EXT and, for literals, short of the stream's end.
CountEnd(k, stop) ==
  LET ends == {j \in k..Left : \/ out[cp + j] # EXT
                               \/ j >= stop}
  IN  IF ends = {} THEN Left + 1 ELSE Min(ends)

CountSum(a, b) == FoldSet(LAMBDA j, s : s + out[cp + j], 0, a..b)

\* dec32table and dec64table: how far back the copy of match byte i goes when
\* source and target are less than eight bytes apart.
dec32table == <<0, 1, 2, 1, 4, 4, 4, 4>>
dec64table == <<0, 0, 0, -1, 0, 1, 2, 3>>
Distance(off, i) ==
  CASE off >= 8 \/ i <= 4 -> off
    [] off < 8 /\ i \in 5..8 -> off + 4 - dec32table[off + 1]
    [] OTHER -> off + 8 - dec32table[off + 1] + dec64table[off + 1]

\* The match copy, four and eight bytes at a time.  Offset 0 finds the zeros
\* that LZ4_write32 put there.
CopyWide(d, off, n) ==
  IF off = 0 THEN d \o [i \in 1..n |-> 0]
  ELSE LET c[i \in 1..n] ==
             LET s == Len(d) + i - Distance(off, i)
             IN  IF s <= Len(d) THEN d[s] ELSE c[s - Len(d)]
       IN  d \o c

\* End of what the copy of n match bytes behind d writes: it goes on in steps
\* of eight, unless it is near the end of the buffer.
CopyWideEnd(d, n) ==
  IF Len(d) + n <= BLOCK - MFLIMIT
  THEN WildEnd(Len(d), Highest(n, 2 * WILDCOPYLENGTH))
  ELSE LET rest == BLOCK - (WILDCOPYLENGTH - 1) - (Len(d) + WILDCOPYLENGTH)
       IN  Len(d) + WILDCOPYLENGTH
             + IF rest > 0 THEN WildEnd(0, rest) ELSE 0

\* One round of LZ4_decompress_generic with the directives of
\* LZ4_decompress_safe.
Lz4Token ==
  /\ codec \in {"lz4", "lz4dest"} /\ pc = "token"
  /\ IF Left < 1 THEN Stop("fault")
     ELSE
     LET token == out[cp + 1]
         run == token \div (ML_MASK + 1)
         a == IF run < RUN_MASK THEN 1 ELSE CountEnd(2, Left - RUN_MASK)
         lit == run + CountSum(2, a)
         last == \/ Len(dst) + lit > BLOCK - MFLIMIT
                 \/ a + lit > Left - (2 + 1 + LASTLITERALS)
         off == out[cp + a + lit + 1] + LZ4_BYTE * out[cp + a + lit + 2]
         d == dst \o SubSeq(out, cp + a + 1, cp + a + lit)
         ml == token % (ML_MASK + 1)
         e == a + lit + 2
         b == IF ml < ML_MASK THEN e ELSE CountEnd(e + 1, Left + 1)
         n == MINMATCH + ml + CountSum(e + 1, b)
     IN  CASE a > Left -> Stop("fault")
           [] a <= Left /\ last ->
                IF a + lit # Left \/ Len(dst) + lit > BLOCK THEN Stop("error")
                ELSE Deliver(Left, d, "ok")
           [] a <= Left /\ ~last /\ (WildEnd(Len(dst), lit) > BLOCK \/ WildEnd(a, lit) > Left) ->
                Stop("fault")
           [] OTHER ->
                IF \/ off > Len(d)
                   \/ ml = ML_MASK /\ b > Left - LASTLITERALS
                   \/ Len(d) + n > BLOCK - LASTLITERALS
                THEN Stop("error")
                ELSE IF CopyWideEnd(d, n) > BLOCK THEN Stop("fault")
                ELSE Deliver(b, CopyWide(d, off, n), "token")
  /\ UNCHANGED <<jobVars, compressorVars>>

Lz4Next ==
  \/ Lz4Start \/ Lz4Miss \/ Lz4Exhausted \/ Lz4Match \/ Lz4Again \/ Lz4Last
  \/ Lz4Token
=============================================================================
