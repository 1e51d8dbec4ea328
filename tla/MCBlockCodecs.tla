--------------------------- MODULE MCBlockCodecs ----------------------------
EXTENDS BlockCodecs

\* Blocks of n bytes of two values that change value at up to three, or two,
\* places of C.
Changes(n, cuts) ==
  [i \in 1..n |-> IF Cardinality({c \in cuts : c < i}) % 2 = 0 THEN 0 ELSE 9]
Runs3(n, C) == {Changes(n, {a, b, c}) : a, b, c \in C}
Runs(n, C) == {Changes(n, {a, b}) : a, b \in C}

Places == {1, 2, 5, 9, 14, 17, 23, 27}

\* Blocks of n bytes, all different but for one piece that occurred before.
Repeats(n, lengths) ==
  {[i \in 1..n |-> IF i \in (p + 1)..(p + l) THEN i - d ELSE i]
     : p \in {1, 4, 6, 9, 12}, d \in {1, 4, 6, 9, 12}, l \in lengths} \cap Seq(1..n)

\* A block one match of which counts more bytes than are checked for.
LONG == 49

MCInputs ==
  [c \in {"lzo", "lz4", "snappy"} |->
     Repeats(28, {4, 8}) \cup
     CASE c = "lzo" -> {<<>>} \cup Runs(3, 1..3) \cup Runs(7, 1..7)
                         \cup Runs3(17, 1..17) \cup Runs(28, 1..28)
       [] c = "lz4" -> Runs(4, 1..4) \cup Runs(17, 1..17) \cup Runs(28, Places)
                         \cup Runs(LONG, {1, 2, LONG})
       [] c = "snappy" -> {<<>>} \cup Runs(4, 1..4) \cup Runs(18, Places)
                         \cup Runs(28, Places)]

\* Streams that no compressor wrote: some literals and any instructions.
MCStreams ==
  [c \in {"lzo", "snappy"} |->
     CASE c = "lzo" -> {p \o s : p \in {<<>>, <<6, 9>>, <<7, 8, 9>>},
                                s \in BoundedSeq({0, 1, 3, 5, 7, 13, 17}, 4)}
       [] c = "snappy" -> {<<7>> \o s : s \in BoundedSeq({0, 1, 2, 4, 5, 33, 48}, 4)}]

MCIOVec == <<5, 0, 12, 11>>
=============================================================================
