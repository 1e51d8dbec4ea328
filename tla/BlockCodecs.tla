---------------------------- MODULE BlockCodecs -----------------------------
(***************************************************************************)
(* The codecs as SWORD uses them: dump_to_file compresses a block into the *)
(* buffer of OUT_LEN bytes, the analyzer decompresses it into its buffer   *)
(* of BLOCK bytes.  A job is one block and one codec; the checked decoders *)
(* are also given streams that no compressor wrote.                        *)
(***************************************************************************)
EXTENDS Lzo, Lz4DestSize, Snappy

CONSTANT Limits   \* output sizes that LZ4 is also called with

\* Bytes of the buffer out that sword_common.h provides for n bytes of block.
OutLen(n) == n + (n \div OUT_DIV) + OUT_PAD

Start(c, k, in, o, at, l) ==
  /\ codec = c /\ checked = k /\ src = in /\ out = o /\ pc = at
  /\ writer = "array" /\ limit = l
  /\ base = 0 /\ ip = 0 /\ anchor = 0 /\ seen = {} /\ tries = 0 /\ high = 0
  /\ cp = 0 /\ dst = <<>> /\ expect = 0
  /\ parts = <<>>

\* dump_to_file calls one of the compressors.
Init ==
  \/ \E in \in Inputs["lzo"] :
       Start("lzo", FALSE, in, <<>>, "part", OutLen(Len(in)))
  \/ \E in \in Inputs["lz4"] : \E l \in {LZ4_compressBound(Len(in))} \cup Limits :
       Start("lz4", FALSE, in, <<>>, "start", l)
  \/ \E in \in Inputs["lz4"] : \E l \in Limits :
       /\ DestSize(Len(in), l)
       /\ Start("lz4dest", FALSE, in, <<>>, "start", l)
  \/ \E in \in Inputs["snappy"] :
       Start("snappy", FALSE, in, <<>>, "length", MaxCompressedLength(Len(in)))
  \/ \E s \in Streams["lzo"] : Start("lzo", TRUE, <<>>, s, "first", 0)
  \/ \E s \in Streams["snappy"] :
       Start("snappy", TRUE, <<>>, s, "header", 0)

Next == LzoNext \/ Lz4Next \/ DestNext \/ SnappyNext

Spec == Init /\ [][Next]_vars

-----------------------------------------------------------------------------
\* The analyzer's comment on a failed decompression is "this should NEVER
\* happen": what a compressor wrote always decodes, and to the block it was
\* given, byte by byte as far as the decoder got.  The validating decoder of
\* Snappy keeps only the length.
RoundTrip ==
  ~checked =>
    /\ pc \notin {"input_overrun", "output_overrun", "lookbehind_overrun",
                  "not_consumed", "error"}
    /\ Len(dst) <= Len(src)
    /\ writer # "validator" => \A i \in DOMAIN dst : dst[i] = src[i]
    /\ pc = "ok" => Len(dst) = Len(src)

\* Bytes by which a limited LZ4 may touch more than its limit: the check
\* before a count divides the length of the match by EXT + 1, the count has a
\* byte for EXT.  That far it goes only in a block it then gives up.
Excess ==
  LET longest == Len(src) - 1 - MINMATCH - LASTLITERALS
  IN  IF codec = "lz4" /\ Limited /\ pc \in {"next", "find", "last", "full"}
      THEN Highest(0, (longest \div (EXT * (EXT + 1))) - 1) ELSE 0

CompressedFits ==
  ~checked =>
    /\ high <= limit + Excess
    /\ codec \in {"lzo", "snappy"} \/ ~Limited => high <= OutLen(Len(src))

\* No compressor touches a byte beyond the buffer it was given, with the
\* wide copies that write more than they advance: LZO, Snappy and LZ4 with
\* the size the runtime gives it not beyond OUT_LEN, LZ4_compress_destSize
\* not beyond its buffer, and a limited LZ4_compress_fast not beyond its
\* limit whenever it succeeds; when matches are long it can touch Excess
\* bytes more before it gives up (CompressedFits).  No compressor or decoder
\* reads or writes outside its buffers otherwise, whatever the stream is for
\* the decoders that check.
StaysInside == CompressedFits /\ pc # "fault"
=============================================================================
