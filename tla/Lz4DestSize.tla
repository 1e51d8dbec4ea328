---------------------------- MODULE Lz4DestSize -----------------------------
(***************************************************************************)
(* LZ4_compress_destSize of lz4.c: it fills a buffer of limit bytes with   *)
(* as much of the block as fits, and gives the number of bytes it has      *)
(* taken back through *srcSizePtr: the block src is cut to them.  Its      *)
(* stream is decoded by LZ4_decompress_safe.                               *)
(***************************************************************************)
EXTENDS Lz4

\* The caller's buffer is too small for any block of n bytes: a larger one is
\* left to LZ4_compress_fast.
DestSize(n, l) == l < LZ4_compressBound(n)

\* The last places for a token, literals and an offset, and for a length.
oMaxLit == limit - 2 - WILDCOPYLENGTH - 1
oMaxMatch == limit - (LASTLITERALS + 1)
oMaxSeq == oMaxLit - 1

\* Bytes of a count n behind its four bits, as the code bounds them.
CountSize(n, mask) == (n + EXT - mask) \div EXT

-----------------------------------------------------------------------------
\* Up to the main loop.
DestStart ==
  /\ codec = "lz4dest" /\ pc = "start"
  /\ CASE limit < 1 -> pc' = "full" /\ UNCHANGED <<ip, seen>>
       [] limit >= 1 /\ Len(src) < MFLIMIT + 1 -> pc' = "last" /\ UNCHANGED <<ip, seen>>
       [] OTHER -> pc' = "find" /\ ip' = 1 /\ seen' = {0}
  /\ UNCHANGED <<jobVars, tries, base, anchor, out, high, decoderVars>>

\* Position of the lookup after the one at ip.
DestForward == ip + 1 + IF tries = 0 THEN 0 ELSE (tries - 1) \div TRIGGER

DestMiss ==
  /\ codec = "lz4dest" /\ pc = "find" /\ DestForward <= mflimit
  /\ seen' = seen \cup {ip}
  /\ ip' = DestForward
  /\ tries' = tries + 1
  /\ UNCHANGED <<jobVars, pc, base, anchor, out, high, decoderVars>>

DestExhausted ==
  /\ codec = "lz4dest" /\ pc = "find" /\ DestForward > mflimit
  /\ pc' = "last"
  /\ UNCHANGED <<jobVars, compressorVars, decoderVars>>

\* Length beyond MINMATCH of the match of p and q, reduced to what a length
\* behind n bytes of output can still say.
MatchCode(p, q, n) ==
  LET code == CommonBytes(p + MINMATCH, q + MINMATCH,
                          Len(src) - LASTLITERALS - p - MINMATCH)
  IN  IF n + CountSize(code, ML_MASK) > oMaxMatch
      THEN ML_MASK - 1 + (oMaxMatch - n) * EXT ELSE code

\* Literals from anchor to p and the match of p and q, unless there is no
\* room for a last match; again: straight behind a match.
DestEmit(p, q, again) ==
  LET lit == p - anchor
      count == CountOf(lit, RUN_MASK)
      n == Len(out) + 1 + Len(count) + lit + 2
      code == MatchCode(p, q, n)
      token == Field(lit, RUN_MASK) * (ML_MASK + 1) + Field(code, ML_MASK)
      end == p + MINMATCH + code
  IN  IF ~again /\ Len(out) + 1 + CountSize(lit, RUN_MASK) + lit > oMaxLit
      THEN pc' = "last" /\ UNCHANGED <<ip, anchor, out, high>>
      ELSE /\ out' = out \o <<token>> \o count \o Slice(anchor, p)
                       \o OffsetBytes(p - q) \o CountOf(code, ML_MASK)
           /\ high' = Max({high, Len(out'),
                           IF again THEN 0 ELSE WildEnd(n - 2 - lit, lit)})
           /\ ip' = end /\ anchor' = end
           /\ pc' = IF end > mflimit \/ Len(out') > oMaxSeq THEN "last" ELSE "next"

DestMatch ==
  /\ codec = "lz4dest" /\ pc = "find" /\ DestForward <= mflimit
  /\ \E q \in Lz4Candidates(ip) :
       /\ Small \/ q + MAX_DISTANCE >= ip
       /\ LET back == Max({k \in 0..Min({ip - anchor, q}) : Agree(ip - k, q - k, k)})
          IN  DestEmit(ip - back, q - back, FALSE)
  /\ seen' = seen \cup {ip}
  /\ tries' = 0
  /\ UNCHANGED <<jobVars, base, decoderVars>>

\* Test next position.
DestAgain ==
  /\ codec = "lz4dest" /\ pc = "next"
  /\ seen' = seen \cup {ip - 2, ip}
  /\ \/ \E q \in Lz4Candidates(ip) \cup {ip - 2} :
          /\ Agree(q, ip, MINMATCH)
          /\ q + MAX_DISTANCE >= ip
          /\ DestEmit(ip, q, TRUE)
     \/ pc' = "find" /\ ip' = ip + 1 /\ UNCHANGED <<anchor, out, high>>
  /\ UNCHANGED <<jobVars, tries, base, decoderVars>>

\* Literals that a last run can hold behind the output so far.
LastRunSize ==
  LET all == Len(src) - anchor
      fill == limit - Len(out) - 1
  IN  IF Len(out) + 1 + CountSize(all, RUN_MASK) + all > limit
      THEN fill - CountSize(fill, RUN_MASK) ELSE all

\* The last literals: as many as fill the buffer.
DestLast ==
  /\ codec = "lz4dest" /\ pc = "last"
  /\ LET run == LastRunSize
     IN  /\ out' = out \o <<Field(run, RUN_MASK) * (ML_MASK + 1)>>
                     \o CountOf(run, RUN_MASK) \o Slice(anchor, anchor + run)
         /\ src' = Slice(0, anchor + run)
  /\ high' = Highest(high, Len(out'))
  /\ pc' = "token"
  /\ Returned
  /\ UNCHANGED <<codec, checked, limit, decoderVars>>

DestNext ==
  \/ DestStart \/ DestMiss \/ DestExhausted \/ DestMatch \/ DestAgain \/ DestLast
=============================================================================
