----------------------------- MODULE CodecBlock -----------------------------
(***************************************************************************)
(* What the three block codecs of rtl/lzo, rtl/lz4 and rtl/snappy share: a *)
(* block of bytes src is compressed into out, one loop iteration of the    *)
(* compressor per step, and out is decompressed into dst, one instruction  *)
(* of the decoder per step.  Positions are the code's offsets from the     *)
(* start of a buffer, so byte p of src is src[p + 1].                      *)
(*                                                                         *)
(* Byte values, run lengths and distances are the codecs' own, with the    *)
(* thresholds of the formats as constants so that small blocks reach every *)
(* form.  The hash tables are abstracted: a lookup may find any position   *)
(* entered before whose bytes agree, the start of the block (a zeroed      *)
(* entry reads as offset 0), or nothing (another position hashed there).   *)
(***************************************************************************)
EXTENDS Integers, Sequences, FiniteSetsExt

CONSTANTS
  Inputs,     \* the blocks to compress
  Streams,    \* arbitrary streams handed to the checked decoders
  MINMATCH,   \* 4: shortest match, and the bytes the tables hash
  EXT,        \* 255: what one byte of a length extension can add
  Capacities  \* sizes of the analyzer's uncompressed buffer

VARIABLES
  codec,      \* which codec runs
  checked,    \* the decoder checks its bounds (lzo1x_decompress_safe)
  src,        \* the block to compress
  pc,         \* where compressor or decoder is; at the end, its result
  base,       \* first byte of the part the table is for
  ip,         \* the compressor's position
  anchor,     \* first byte not written yet (ii in LZO, next_emit in Snappy)
  seen,       \* positions entered in the hash table
  tries,      \* what paces the search: lookups made, or Snappy's skip
  out,        \* compressed bytes
  limit,      \* bytes of output buffer the compressor was given
  high,       \* end of the highest byte of the output buffer touched
  writer,     \* what the decoder writes to: one array, or segments (Snappy)
  cp,         \* bytes of out the decoder consumed
  dst,        \* decoded bytes
  expect,     \* decoded length announced by the stream (Snappy)
  parts       \* the segments written so far (Snappy)

vars == <<codec, checked, src, pc, base, ip, anchor, seen, tries, out, limit, high,
          writer, cp, dst, expect, parts>>
jobVars == <<codec, checked, src, limit>>
compressorVars == <<base, ip, anchor, seen, tries, out, high>>
decoderVars == <<writer, cp, dst, expect, parts>>

Agree(p, q, n) == \A i \in 1..n : src[p + i] = src[q + i]

\* Number of equal bytes at p and q, at most n.
CommonBytes(p, q, n) == Max({k \in 0..n : Agree(p, q, k)})

\* Earlier positions a table lookup at p may return with MINMATCH equal bytes.
Candidates(p) == {q \in seen \cup {base} : q < p /\ Agree(q, p, MINMATCH)}

Slice(p, q) == SubSeq(src, p + 1, q)

\* Byte after byte from off bytes back: source and target may overlap.
CopyBack(d, off, n) ==
  [i \in 1..(Len(d) + n) |->
     IF i <= Len(d) THEN d[i]
     ELSE d[Len(d) - off + 1 + ((i - Len(d) - 1) % off)]]

Highest(a, b) == IF a > b THEN a ELSE b

\* The compressor returned: its locals are gone.
Returned == base' = 0 /\ ip' = 0 /\ anchor' = 0 /\ seen' = {} /\ tries' = 0

\* The decoder stops with result r.
Stop(r) == pc' = r /\ UNCHANGED decoderVars

\* The decoder has read n bytes, its output is now d.
Deliver(n, d, next) ==
  cp' = cp + n /\ dst' = d /\ pc' = next /\ UNCHANGED <<writer, expect, parts>>

\* Capacity of the analyzer's buffer: BLOCK_SIZE bytes, which the longest
\* blocks fill.  Blocks of several lengths are each decoded as if theirs were
\* the longest.
BLOCK == Min({c \in Capacities : c >= Len(src)})
Room == BLOCK - Len(dst)
Left == Len(out) - cp
=============================================================================
