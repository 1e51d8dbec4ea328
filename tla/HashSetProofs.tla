---------------------------- MODULE HashSetProofs ----------------------------
(***************************************************************************)
(* HashSet implements KeySet for every set of keys and every table size:   *)
(* no operation ever returns what a plain set would not.  The same holds   *)
(* of HashSetCopies: what iterators visit, what reserve moves to a larger  *)
(* table and what copies and assignments leave in a set are its keys.      *)
(***************************************************************************)
EXTENDS HashSetCopies, WellFoundedInduction, FiniteSetTheorems, TLAPS

-----------------------------------------------------------------------------
(* Induction and recursion.                                                *)

LEMMA LeastNat ==
  ASSUME NEW T, T \subseteq Nat, T # {}
  PROVE  \E x \in T : \A y \in T : x <= y
<1>r. PICK R : R = {ss \in Nat \X Nat : ss[1] < ss[2]}
  OBVIOUS
<1>1. IsWellFoundedOn(R, Nat)
  BY <1>r, NatLessThanWellFounded DEF OpToRel
<1>2. \A x, y \in Nat : x < y => <<x, y>> \in R
  BY <1>r
<1>3. PICK x \in T : \A y \in T : ~ (<<y, x>> \in R)
  BY <1>1, WFMin
<1>4. \A y \in T : x \in Nat /\ y \in Nat /\ ~(y < x)
  BY <1>2, <1>3
<1> QED BY <1>3, <1>4

(* What holds at 0 and passes to the next number holds up to any bound.    *)
LEMMA LoopInduction ==
  ASSUME NEW N \in Nat, NEW S, 0 \in S, \A n \in 1 .. N : n - 1 \in S => n \in S
  PROVE  \A n \in 0 .. N : n \in S
<1> SUFFICES ASSUME NEW m \in 0 .. N, m \notin S PROVE FALSE
  OBVIOUS
<1> DEFINE T == {n \in 0 .. N : n \notin S}
<1>1. T \subseteq Nat /\ T # {}
  OBVIOUS
<1>2. PICK x \in T : \A y \in T : x <= y
  BY <1>1, LeastNat
<1>3. x \in 1 .. N /\ x - 1 \in 0 .. N /\ ~(x <= x - 1)
  BY <1>2
<1>4. x - 1 \in S
  BY <1>2, <1>3
<1> QED BY <1>2, <1>3, <1>4

(* A function defined by recursion exists.                                 *)
Steps(A) == [Nat \X A -> A]
Unfolds(g, base, N, st) ==
  \A n \in 0 .. N : g[n] = IF n = 0 THEN base ELSE st[<<n, g[n - 1]>>]

LEMMA RecursionExists ==
  ASSUME NEW A, NEW base \in A, NEW N \in Nat, NEW st \in Steps(A)
  PROVE  \E g \in [0 .. N -> A] : Unfolds(g, base, N, st)
<1> USE DEF Steps
<1> DEFINE Upto(n) == {g \in [0 .. n -> A] : Unfolds(g, base, n, st)}
           S == {n \in 0 .. N : Upto(n) # {}}
<1>1. 0 \in S
  <2> DEFINE h == [k \in 0 .. 0 |-> base]
  <2>1. h \in [0 .. 0 -> A] /\ Unfolds(h, base, 0, st)
    BY DEF Unfolds
  <2> QED BY <2>1
<1>2. ASSUME NEW n \in 1 .. N, n - 1 \in S PROVE n \in S
  <2>1. PICK g \in [0 .. n - 1 -> A] : Unfolds(g, base, n - 1, st)
    BY <1>2
  <2>2. PICK x : x = st[<<n, g[n - 1]>>]
    OBVIOUS
  <2>3. PICK h : h = [k \in 0 .. n |-> IF k = n THEN x ELSE g[k]]
    OBVIOUS
  <2>4. x \in A /\ n \in Nat /\ n - 1 \in 0 .. n - 1
    BY <2>1, <2>2
  <2>5. h \in [0 .. n -> A] /\ h[n] = x
    BY <2>3, <2>4
  <2>6. \A k \in 0 .. n - 1 : k \in 0 .. n /\ h[k] = g[k]
    BY <2>3
  <2>7. ASSUME NEW k \in 0 .. n
        PROVE  h[k] = IF k = 0 THEN base ELSE st[<<k, h[k - 1]>>]
    <3>1. CASE k = n
      <4>1. k # 0 /\ h[k - 1] = g[n - 1]
        BY <2>4, <2>6, <3>1
      <4> QED BY <2>2, <2>5, <3>1, <4>1
    <3>2. CASE k # n
      <4>1. k \in 0 .. n - 1 /\ (k # 0 => k - 1 \in 0 .. n - 1)
        BY <3>2
      <4>2. h[k] = g[k] /\ (k # 0 => h[k - 1] = g[k - 1])
        BY <2>6, <4>1
      <4>3. g[k] = IF k = 0 THEN base ELSE st[<<k, g[k - 1]>>]
        BY <2>1, <4>1 DEF Unfolds
      <4> QED BY <4>2, <4>3
    <3> QED BY <3>1, <3>2
  <2>8. Unfolds(h, base, n, st)
    BY <2>7 DEF Unfolds
  <2> QED BY <2>5, <2>8
<1> HIDE DEF S
<1>3. N \in S
  BY <1>1, <1>2, LoopInduction
<1> QED BY <1>3 DEF S

(* The least member of a set of numbers.                                   *)
LEMMA MinNat ==
  ASSUME NEW T, T \subseteq Nat, T # {}
  PROVE  Min(T) \in T /\ \A y \in T : Min(T) <= y
BY LeastNat DEF Min

(* The greater of two numbers.                                             *)
LEMMA MaxPair ==
  ASSUME NEW a \in Int, NEW b \in Int
  PROVE  Max({a, b}) = IF b > a THEN b ELSE a
<1>1. PICK c : c = IF b > a THEN b ELSE a
  OBVIOUS
<1>2. c \in {a, b} /\ \A y \in {a, b} : c >= y
  BY <1>1
<1>3. \A x \in {a, b} : (\A y \in {a, b} : x >= y) => x = c
  BY <1>1, <1>2
<1> QED BY <1>1, <1>2, <1>3 DEF Max

-----------------------------------------------------------------------------
(* The number of buckets that reserve makes.                               *)

LEMMA Doubling ==
  ASSUME NEW N \in Nat, NEW f,
         f = [i \in 0 .. N |-> IF i = 0 THEN 4 ELSE 2 * f[i - 1]]
  PROVE  \A i \in 0 .. N : f[i] \in Nat /\ f[i] >= i + 4
<1> DEFINE S == {i \in 0 .. N : f[i] \in Nat /\ f[i] >= i + 4}
<1>0. \A i \in 0 .. N : f[i] = IF i = 0 THEN 4 ELSE 2 * f[i - 1]
  OBVIOUS
<1>1. 0 \in S
  BY <1>0
<1>2. ASSUME NEW n \in 1 .. N, n - 1 \in S PROVE n \in S
  <2>1. PICK x : x = f[n - 1]
    OBVIOUS
  <2>2. x \in Nat /\ x >= n + 3 /\ f[n] = 2 * x
    BY <1>0, <1>2, <2>1
  <2> QED BY <2>2
<1> HIDE DEF S
<1>3. \A i \in 0 .. N : i \in S
  BY <1>1, <1>2, LoopInduction
<1> QED BY <1>3 DEF S

LEMMA BucketsEnough ==
  ASSUME NEW n \in Nat
  PROVE  BucketsFor(n) \in Nat /\ BucketsFor(n) >= n + n \div 2 + 1
<1>r. PICK r : r = n + n \div 2 + 1
  OBVIOUS
<1>1. r \in Nat
  BY <1>r
<1> DEFINE Eq(f) == f = [i \in 0 .. r |-> IF i = 0 THEN 4 ELSE 2 * f[i - 1]]
<1>v. PICK v : v = CHOOSE f : Eq(f)
  OBVIOUS
<1>c. PICK c : c = CHOOSE i \in 0 .. r : v[i] >= r /\ \A j \in 0 .. i - 1 : v[j] < r
  OBVIOUS
<1>2. BucketsFor(n) = v[c]
  BY <1>r, <1>v, <1>c DEF BucketsFor
<1>s. PICK st : st = [x \in Nat \X Nat |-> 2 * x[2]]
  OBVIOUS
<1>3. st \in Steps(Nat)
  BY <1>s DEF Steps
<1>4. PICK g \in [0 .. r -> Nat] : Unfolds(g, 4, r, st)
  BY <1>1, <1>3, RecursionExists
<1>5. ASSUME NEW i \in 0 .. r PROVE g[i] = IF i = 0 THEN 4 ELSE 2 * g[i - 1]
  <2>1. g[i] = IF i = 0 THEN 4 ELSE st[<<i, g[i - 1]>>]
    BY <1>4 DEF Unfolds
  <2>2. ASSUME i # 0 PROVE st[<<i, g[i - 1]>>] = 2 * g[i - 1]
    <3>1. i \in Nat /\ i - 1 \in 0 .. r
      BY <1>1, <2>2
    <3> QED BY <1>s, <1>4, <3>1
  <2> QED BY <2>1, <2>2
<1>6. Eq(g)
  BY <1>4, <1>5
<1> HIDE DEF Eq
<1>7. Eq(v)
  BY <1>v, <1>6
<1>8. \A i \in 0 .. r : v[i] \in Nat /\ v[i] >= i + 4
  BY <1>1, <1>7, Doubling DEF Eq
<1>9. c \in 0 .. r /\ v[c] >= r
  <2> DEFINE T == {i \in 0 .. r : v[i] >= r}
  <2>1. r \in T /\ T \subseteq Nat
    BY <1>1, <1>8
  <2>2. PICK x \in T : \A y \in T : x <= y
    BY <2>1, LeastNat
  <2>3. ASSUME NEW j \in 0 .. x - 1 PROVE v[j] < r
    <3>1. j \in 0 .. r /\ ~(x <= j)
      BY <1>1, <2>2
    <3>2. j \notin T
      BY <2>2, <3>1
    <3> QED BY <1>1, <1>8, <3>1, <3>2
  <2> QED BY <1>c, <2>2, <2>3
<1> QED BY <1>r, <1>2, <1>8, <1>9

(* The filter's table has a bucket.                                        *)
LEMMA SomeBuckets == NumBuckets \in Nat \ {0}
BY CapacityAssumption, BucketsEnough DEF NumBuckets

-----------------------------------------------------------------------------
(* The search for a key in the table ends at its bucket.                   *)
Reach ==
  \A b \in Filled : \E o \in 0 .. max_probe_length :
    FirstStop(keys[b], o) /\ Probe(keys[b], o) = b

(* _num_filled is the number of filled buckets.                            *)
CountExact == num_filled = Cardinality(Filled)

IInv ==
  /\ TypeOK
  /\ NoDuplicates
  /\ Reach
  /\ CountExact

(* A probe is a bucket.                                                    *)
LEMMA ProbeType == \A k, o \in Nat : Probe(k, o) \in Buckets
  BY SomeBuckets DEF Probe, Buckets

(* The filled buckets are finitely many.                                   *)
LEMMA FilledFinite == IsFiniteSet(Filled)
<1>1. IsFiniteSet(Buckets)
  BY FS_Interval, SomeBuckets DEF Buckets
<1> QED BY <1>1, FS_Subset DEF Filled

(* A search that stops at the key, and only such a search, finds it.       *)
LEMMA LookupIsExact ==
  ASSUME IInv, NEW k \in Keys
  PROVE  /\ Contains(k) <=> k \in Elems
         /\ \A o \in 0 .. max_probe_length :
              FirstStop(k, o) /\ states[Probe(k, o)] = "INACTIVE" => k \notin Elems
         /\ NoStop(k) => k \notin Elems
<1> USE CapacityAssumption, SomeBuckets
<1>1. ASSUME k \in Elems
      PROVE  \E o \in 0 .. max_probe_length : FirstStop(k, o) /\ Holds(Probe(k, o), k)
  <2>1. PICK b \in Filled : keys[b] = k
    BY <1>1 DEF Elems
  <2> QED BY <2>1 DEF IInv, Reach, Holds, Filled
<1>2. ASSUME NEW o \in 0 .. max_probe_length, Holds(Probe(k, o), k)
      PROVE  k \in Elems
  <2>1. Probe(k, o) \in Buckets
    BY ProbeType
  <2> QED BY <1>2, <2>1 DEF Elems, Filled, Holds
<1>3. k \in Elems => num_filled # 0
  <2> SUFFICES ASSUME k \in Elems, num_filled = 0 PROVE FALSE
    OBVIOUS
  <2>1. Filled = {}
    BY FilledFinite, FS_EmptySet DEF IInv, CountExact
  <2> QED BY <2>1 DEF Elems
<1>4. ASSUME NEW o \in 0 .. max_probe_length, NEW p \in 0 .. max_probe_length,
             FirstStop(k, o), FirstStop(k, p)
      PROVE  o = p
  BY <1>4 DEF FirstStop
<1> QED BY <1>1, <1>2, <1>3, <1>4 DEF Contains, NoStop, FirstStop, StopsAt, Holds

(* A key that is not in the table may be put at any place of its chain     *)
(* that the search for it reaches.                                         *)
LEMMA FillStep ==
  ASSUME IInv, NEW k \in Keys, k \notin Elems, num_filled < Capacity,
         NEW o \in Nat, NEW b, b = Probe(k, o), states[b] # "FILLED",
         \A p \in 0 .. o - 1 : /\ states[Probe(k, p)] # "INACTIVE"
                               /\ Probe(k, p) # b,
         Fill(b, k), max_probe_length' \in Int,
         max_probe_length <= max_probe_length', o <= max_probe_length',
         res' \in BOOLEAN
  PROVE  IInv' /\ Elems' = Elems \cup {k}
<1> USE CapacityAssumption, SomeBuckets
<1>1. b \in Buckets /\ k \in Nat
  BY ProbeType
<1>2. TypeOK /\ states' = [states EXCEPT ![b] = "FILLED"]
      /\ keys' = [keys EXCEPT ![b] = k] /\ num_filled' = num_filled + 1
  BY DEF IInv, Fill
<1>3. TypeOK'
  BY <1>1, <1>2 DEF TypeOK
<1>4. /\ states'[b] = "FILLED" /\ keys'[b] = k
      /\ \A c \in Buckets : c # b => states'[c] = states[c] /\ keys'[c] = keys[c]
  BY <1>1, <1>2 DEF TypeOK
<1>5. Filled' = Filled \cup {b} /\ b \notin Filled
  BY <1>1, <1>4 DEF Filled
<1>6. \A c \in Filled : keys'[c] = keys[c] /\ keys[c] # k /\ c \in Buckets
                        /\ keys[c] \in Nat
  <2> SUFFICES ASSUME NEW c \in Filled
               PROVE  keys'[c] = keys[c] /\ keys[c] # k /\ c \in Buckets
                      /\ keys[c] \in Nat
    OBVIOUS
  <2>1. c \in Buckets /\ c # b
    BY <1>5 DEF Filled
  <2>2. keys[c] \in Keys \cup {0}
    BY <1>2, <2>1 DEF TypeOK
  <2>3. keys[c] # k
    BY DEF Elems
  <2>4. keys[c] \in Nat
    <3>1. CASE keys[c] \in Keys
      BY <3>1
    <3>2. CASE keys[c] = 0
      BY <3>2
    <3> QED BY <2>2, <3>1, <3>2
  <2> QED BY <1>4, <2>1, <2>3, <2>4
<1>7. NoDuplicates'
  BY <1>4, <1>5, <1>6 DEF IInv, NoDuplicates
<1>8. Reach'
  <2>1. \E q \in 0 .. max_probe_length' :
          FirstStop(keys[b], q)' /\ Probe(keys[b], q)' = b
    <3>1. StopsAt(k, o)'
      BY <1>4 DEF StopsAt, Holds
    <3>2. ASSUME NEW p \in 0 .. o - 1 PROVE ~StopsAt(k, p)'
      <4>1. Probe(k, p) \in Buckets /\ Probe(k, p) # b
        BY <1>1, ProbeType
      <4>2. states'[Probe(k, p)] = states[Probe(k, p)]
            /\ keys'[Probe(k, p)] = keys[Probe(k, p)]
        BY <1>4, <4>1
      <4>3. ~Holds(Probe(k, p), k)
        BY <4>1 DEF Holds, Elems, Filled
      <4> QED BY <4>2, <4>3 DEF StopsAt, Holds
    <3>3. FirstStop(k, o)'
      BY <3>1, <3>2, <1>2 DEF FirstStop, TypeOK
    <3> QED BY <1>2, <1>4, <3>3 DEF FirstStop
  <2>2. ASSUME NEW c \in Filled
        PROVE  \E q \in 0 .. max_probe_length' :
                 FirstStop(keys[c], q)' /\ Probe(keys[c], q)' = c
    <3>1. PICK q \in 0 .. max_probe_length :
            FirstStop(keys[c], q) /\ Probe(keys[c], q) = c
      BY DEF IInv, Reach
    <3>2. c # b /\ c \in Buckets /\ keys'[c] = keys[c] /\ keys[c] \in Nat
          /\ keys[c] # k
      BY <1>5, <1>6
    <3>3. PICK kc : kc = keys[c]
      OBVIOUS
    <3>4. StopsAt(kc, q)'
      BY <1>4, <3>1, <3>2, <3>3 DEF StopsAt, Holds, Filled
    <3>5. ASSUME NEW p \in 0 .. q - 1 PROVE ~StopsAt(kc, p)'
      <4>1. Probe(kc, p) \in Buckets
        BY <3>2, <3>3, ProbeType
      <4>2. ~StopsAt(kc, p)
        BY <3>1, <3>3 DEF FirstStop
      <4>3. CASE Probe(kc, p) = b
        BY <1>4, <3>2, <3>3, <4>3 DEF StopsAt, Holds
      <4>4. CASE Probe(kc, p) # b
        BY <1>4, <4>1, <4>2, <4>4 DEF StopsAt, Holds
      <4> QED BY <4>3, <4>4
    <3>6. q \in 0 .. max_probe_length'
      BY <1>2 DEF TypeOK
    <3> QED BY <3>1, <3>2, <3>3, <3>4, <3>5, <3>6 DEF FirstStop
  <2> QED BY <1>5, <2>1, <2>2 DEF Reach
<1>9. CountExact'
  BY <1>2, <1>5, FilledFinite, FS_AddElement DEF IInv, CountExact
<1>10. Elems' = Elems \cup {k}
  BY <1>4, <1>5, <1>6 DEF Elems
<1> QED BY <1>3, <1>7, <1>8, <1>9, <1>10 DEF IInv

(* check_insert keeps the invariant and answers as the set would.          *)
LEMMA CheckInsertStep ==
  ASSUME IInv, NEW k \in Keys, CheckInsert(k)
  PROVE  IInv' /\ Abstract!CheckInsert(k)
<1> USE CapacityAssumption, SomeBuckets
<1>1. TypeOK /\ num_filled < Capacity /\ k \in Nat
      /\ max_probe_length \in Int /\ max_probe_length >= -1
  BY DEF IInv, TypeOK, CheckInsert
<1>2. ASSUME NEW o \in 0 .. max_probe_length,
             FirstStop(k, o), Holds(Probe(k, o), k), res' = FALSE,
             UNCHANGED <<states, keys, num_filled, max_probe_length>>
      PROVE  IInv' /\ Abstract!CheckInsert(k)
  <2>1. k \in Elems
    BY <1>1, <1>2, ProbeType DEF Elems, Filled, Holds
  <2>2. IInv'
    BY <1>2 DEF IInv, TypeOK, NoDuplicates, Reach, CountExact, Filled,
                FirstStop, StopsAt, Holds
  <2>3. Elems' = Elems
    BY <1>2 DEF Elems, Filled
  <2> QED BY <1>2, <2>1, <2>2, <2>3 DEF Abstract!CheckInsert
<1>3. ASSUME NEW o \in 0 .. max_probe_length,
             FirstStop(k, o), states[Probe(k, o)] = "INACTIVE",
             Fill(Probe(k, o), k), res' = TRUE, UNCHANGED max_probe_length
      PROVE  IInv' /\ Abstract!CheckInsert(k)
  <2>1. k \notin Elems
    BY <1>3, LookupIsExact
  <2>2. \A p \in 0 .. o - 1 : /\ states[Probe(k, p)] # "INACTIVE"
                              /\ Probe(k, p) # Probe(k, o)
    BY <1>3 DEF FirstStop, StopsAt
  <2>3. IInv' /\ Elems' = Elems \cup {k}
    BY <1>1, <1>3, <2>1, <2>2, FillStep
  <2> QED BY <1>3, <2>1, <2>3 DEF Abstract!CheckInsert
<1>4. ASSUME NEW o \in 0 .. max_probe_length, NoStop(k), FirstHole(k, o),
             Fill(Probe(k, o), k), res' = TRUE, UNCHANGED max_probe_length
      PROVE  IInv' /\ Abstract!CheckInsert(k)
  <2>1. k \notin Elems
    BY <1>4, LookupIsExact
  <2>2. /\ states[Probe(k, o)] # "FILLED"
        /\ \A p \in 0 .. o - 1 : /\ states[Probe(k, p)] # "INACTIVE"
                                 /\ Probe(k, p) # Probe(k, o)
    BY <1>1, <1>4 DEF FirstHole, NoStop, StopsAt
  <2>3. IInv' /\ Elems' = Elems \cup {k}
    BY <1>1, <1>4, <2>1, <2>2, FillStep
  <2> QED BY <1>4, <2>1, <2>3 DEF Abstract!CheckInsert
<1>5. ASSUME NEW o \in max_probe_length + 1 .. max_probe_length + NumBuckets,
             NoStop(k), NoHole(k), FirstFree(k, max_probe_length + 1, o),
             Fill(Probe(k, o), k), max_probe_length' = o, res' = TRUE
      PROVE  IInv' /\ Abstract!CheckInsert(k)
  <2>1. k \notin Elems
    BY <1>5, LookupIsExact
  <2>2. ASSUME NEW p \in 0 .. o - 1
        PROVE  states[Probe(k, p)] = "FILLED"
    <3>1. CASE p <= max_probe_length
      <4>1. Probe(k, p) \in Buckets
        BY <1>1, ProbeType
      <4>2. states[Probe(k, p)] \in {"INACTIVE", "ACTIVE", "FILLED"}
        BY <1>1, <4>1 DEF TypeOK
      <4>3. p \in 0 .. max_probe_length
        BY <1>1, <3>1
      <4> QED BY <1>5, <4>2, <4>3 DEF NoStop, NoHole, StopsAt
    <3>2. CASE p > max_probe_length
      BY <1>1, <1>5, <3>2 DEF FirstFree
    <3> QED BY <1>1, <3>1, <3>2
  <2>3. states[Probe(k, o)] # "FILLED"
    BY <1>5 DEF FirstFree
  <2>4. IInv' /\ Elems' = Elems \cup {k}
    <3>1. o \in Nat /\ o \in Int /\ max_probe_length <= o
      BY <1>1
    <3>2. \A p \in 0 .. o - 1 : /\ states[Probe(k, p)] # "INACTIVE"
                                /\ Probe(k, p) # Probe(k, o)
      BY <2>2, <2>3
    <3> QED BY <1>1, <1>5, <2>1, <2>3, <3>1, <3>2, FillStep
  <2> QED BY <1>5, <2>1, <2>4 DEF Abstract!CheckInsert
<1> QED BY <1>2, <1>3, <1>4, <1>5 DEF CheckInsert

(* So does insert_unique.                                                  *)
LEMMA InsertUniqueStep ==
  ASSUME IInv, NEW k \in Keys, InsertUnique(k)
  PROVE  IInv' /\ Abstract!InsertUnique(k)
<1> USE CapacityAssumption, SomeBuckets
<1>1. TypeOK /\ num_filled < Capacity /\ k \in Nat /\ res' = res
      /\ max_probe_length \in Int /\ max_probe_length >= -1
  BY DEF IInv, TypeOK, InsertUnique
<1>2. k \notin Elems
  BY LookupIsExact DEF InsertUnique
<1>3. PICK o \in 0 .. NumBuckets - 1 :
        /\ FirstFree(k, 0, o)
        /\ Fill(Probe(k, o), k)
        /\ max_probe_length' = IF o > max_probe_length THEN o ELSE max_probe_length
  BY DEF InsertUnique
<1>4. /\ states[Probe(k, o)] # "FILLED"
      /\ \A p \in 0 .. o - 1 : /\ states[Probe(k, p)] # "INACTIVE"
                               /\ Probe(k, p) # Probe(k, o)
  BY <1>3 DEF FirstFree
<1>5. IInv' /\ Elems' = Elems \cup {k}
  BY <1>1, <1>2, <1>3, <1>4, FillStep DEF TypeOK
<1> QED BY <1>1, <1>2, <1>5 DEF Abstract!InsertUnique

(* An erased bucket is a hole, which no chain ends at.                     *)
LEMMA HoleStep ==
  ASSUME IInv, NEW b \in Filled, states' = [states EXCEPT ![b] = "ACTIVE"],
         num_filled' = num_filled - 1, UNCHANGED <<keys, max_probe_length>>,
         res' \in BOOLEAN
  PROVE  /\ IInv' /\ Filled' = Filled \ {b}
         /\ Elems' = Elems \ {keys[b]} /\ keys[b] \in Elems
<1> USE CapacityAssumption, SomeBuckets
<1>1. b \in Buckets
  BY DEF Filled
<1>2. TypeOK /\ num_filled \in Nat /\ num_filled = Cardinality(Filled)
  BY DEF IInv, TypeOK, CountExact
<1>3. /\ states'[b] = "ACTIVE"
      /\ \A c \in Buckets : c # b => states'[c] = states[c]
  BY <1>1, <1>2 DEF TypeOK
<1>4. Filled' = Filled \ {b}
  BY <1>1, <1>3 DEF Filled
<1>5. CountExact'
  BY <1>2, <1>4, FilledFinite, FS_RemoveElement DEF CountExact
<1>6. TypeOK'
  <2>1. Cardinality(Filled) # 0
    BY FilledFinite, FS_EmptySet
  <2>2. num_filled - 1 \in 0 .. Capacity
    BY <1>2, <2>1 DEF TypeOK
  <2> QED BY <1>1, <1>2, <2>2 DEF TypeOK
<1>7. NoDuplicates'
  BY <1>4 DEF IInv, NoDuplicates
<1>8. Reach'
  <2> SUFFICES ASSUME NEW c \in Filled, c # b
               PROVE  \E q \in 0 .. max_probe_length :
                        FirstStop(keys[c], q)' /\ Probe(keys[c], q)' = c
    BY <1>4 DEF Reach
  <2>1. PICK q \in 0 .. max_probe_length :
          FirstStop(keys[c], q) /\ Probe(keys[c], q) = c
    BY DEF IInv, Reach
  <2>2. PICK kc : kc = keys[c]
    OBVIOUS
  <2>3. kc \in Nat /\ c \in Buckets
    BY <1>2, <2>2 DEF TypeOK, Filled
  <2>4. StopsAt(kc, q)'
    BY <1>3, <2>1, <2>2, <2>3 DEF StopsAt, Holds, Filled
  <2>5. ASSUME NEW p \in 0 .. q - 1 PROVE ~StopsAt(kc, p)'
    <3>1. Probe(kc, p) \in Buckets
      BY <2>3, ProbeType
    <3>2. ~StopsAt(kc, p)
      BY <2>1, <2>2 DEF FirstStop
    <3> QED BY <1>3, <3>1, <3>2 DEF StopsAt, Holds
  <2> QED BY <2>1, <2>2, <2>4, <2>5 DEF FirstStop
<1>9. Elems' = Elems \ {keys[b]} /\ keys[b] \in Elems
  <2>1. \A c \in Filled : c # b => keys[c] # keys[b]
    BY DEF IInv, NoDuplicates
  <2> QED BY <1>4, <2>1 DEF Elems
<1> QED BY <1>4, <1>5, <1>6, <1>7, <1>8, <1>9 DEF IInv

(* erase answers as the set would.                                         *)
LEMMA EraseStep ==
  ASSUME IInv, NEW k \in Keys, Erase(k)
  PROVE  IInv' /\ Abstract!Erase(k)
<1> USE CapacityAssumption, SomeBuckets
<1>1. CASE /\ ~Contains(k) /\ res' = FALSE
           /\ UNCHANGED <<states, num_filled, keys, max_probe_length>>
  <2>1. k \notin Elems
    BY <1>1, LookupIsExact
  <2>2. IInv'
    BY <1>1 DEF IInv, TypeOK, NoDuplicates, Reach, CountExact, Filled,
                FirstStop, StopsAt, Holds
  <2>3. Elems' = Elems
    BY <1>1 DEF Elems, Filled
  <2>4. res' = (k \in Elems)
    <3>1. res' = FALSE
      BY <1>1
    <3>2. (k \in Elems) = FALSE
      BY <2>1
    <3> QED BY <3>1, <3>2
  <2>5. Elems' = Elems \ {k}
    BY <2>1, <2>3
  <2> QED BY <2>2, <2>4, <2>5 DEF Abstract!Erase
<1>2. ASSUME NEW o \in 0 .. max_probe_length, Contains(k), FirstStop(k, o),
             states' = [states EXCEPT ![Probe(k, o)] = "ACTIVE"],
             num_filled' = num_filled - 1, res' = TRUE,
             UNCHANGED <<keys, max_probe_length>>
      PROVE  IInv' /\ Abstract!Erase(k)
  <2>0. PICK b : b = Probe(k, o)
    OBVIOUS
  <2>1. b \in Filled /\ keys[b] = k
    <3>1. PICK q \in 0 .. max_probe_length : FirstStop(k, q) /\ Holds(Probe(k, q), k)
      BY <1>2 DEF Contains
    <3>2. q = o
      BY <1>2, <3>1 DEF FirstStop
    <3>3. Probe(k, o) \in Buckets
      BY ProbeType
    <3> QED BY <2>0, <3>1, <3>2, <3>3 DEF Holds, Filled
  <2>2. IInv' /\ Elems' = Elems \ {k} /\ k \in Elems
    BY <1>2, <2>0, <2>1, HoleStep
  <2> QED BY <1>2, <2>2 DEF Abstract!Erase
<1> QED BY <1>1, <1>2 DEF Erase

(* clear empties the table.                                                *)
LEMMA ClearStep ==
  ASSUME IInv, Clear
  PROVE  IInv' /\ Abstract!Clear
<1> USE CapacityAssumption, SomeBuckets
<1>1. TypeOK /\ num_filled' = 0 /\ max_probe_length' = -1
      /\ UNCHANGED <<keys, res>>
  BY DEF IInv, Clear
<1>2. states' \in [Buckets -> {"INACTIVE", "ACTIVE", "FILLED"}]
  BY <1>1 DEF Clear, TypeOK
<1>3. Filled' = {}
  BY <1>1 DEF Filled, Clear
<1>4. TypeOK'
  BY <1>1, <1>2 DEF TypeOK
<1>5. NoDuplicates' /\ Reach' /\ CountExact'
  BY <1>1, <1>3, FS_EmptySet DEF NoDuplicates, Reach, CountExact
<1>6. Elems' = {}
  BY <1>3 DEF Elems
<1> QED BY <1>1, <1>4, <1>5, <1>6 DEF IInv, Abstract!Clear

(* The reserved, empty table.                                              *)
LEMMA InitStep == Init => IInv /\ Abstract!Init
<1> SUFFICES ASSUME Init PROVE IInv /\ Abstract!Init
  OBVIOUS
<1> USE CapacityAssumption, SomeBuckets
<1>1. TypeOK
  <2>1. keys \in [Buckets -> Keys \cup {0}]
    BY DEF Init
  <2>2. /\ states \in [Buckets -> {"INACTIVE", "ACTIVE", "FILLED"}]
        /\ num_filled \in 0 .. Capacity
        /\ max_probe_length \in Int /\ max_probe_length >= -1
    BY DEF Init
  <2>3. res \in BOOLEAN
    BY DEF Init
  <2> QED BY <2>1, <2>2, <2>3 DEF TypeOK
<1>2. Filled = {}
  BY DEF Init, Filled
<1> QED BY <1>1, <1>2, FS_EmptySet
        DEF Init, IInv, NoDuplicates, Reach, CountExact, Elems, Abstract!Init

(* Every step keeps the invariant and is a step of the set.                *)
LEMMA StepSimulation ==
  IInv /\ [Next]_vars => IInv' /\ [Abstract!Next]_<<Elems, res>>
<1> SUFFICES ASSUME IInv, [Next]_vars
             PROVE  IInv' /\ [Abstract!Next]_<<Elems, res>>
  OBVIOUS
<1>1. ASSUME NEW k \in Keys, CheckInsert(k) \/ InsertUnique(k) \/ Erase(k)
      PROVE  IInv' /\ Abstract!Next
  BY <1>1, CheckInsertStep, InsertUniqueStep, EraseStep DEF Abstract!Next
<1>2. CASE Clear
  BY <1>2, ClearStep DEF Abstract!Next
<1>3. CASE UNCHANGED vars
  BY <1>3 DEF vars, IInv, TypeOK, NoDuplicates, Reach, CountExact, Filled,
              FirstStop, StopsAt, Holds, Elems
<1> QED BY <1>1, <1>2, <1>3 DEF Next

(* The invariant holds in every behaviour.                                 *)
THEOREM Invariance == Spec => []IInv
  BY InitStep, StepSimulation, PTL DEF Spec

(* A lookup finds exactly the keys in the table, whatever sequence of      *)
(* inserts, erases and clears has shaped its chains.                       *)
THEOREM LookupsAreExact == Spec => []LookupExact
<1>1. IInv => LookupExact
  BY LookupIsExact DEF LookupExact
<1> QED BY <1>1, Invariance, PTL

(* No key is stored twice.                                                 *)
THEOREM KeysAreUnique == Spec => []NoDuplicates
<1>1. IInv => NoDuplicates
  BY DEF IInv
<1> QED BY <1>1, Invariance, PTL

(* The comment on _max_probe_length holds.                                 *)
THEOREM ProbeLengthComment == Spec => []NegativeOnlyWhenEmpty
<1>1. IInv => NegativeOnlyWhenEmpty
  <2> SUFFICES ASSUME IInv, max_probe_length < 0 PROVE num_filled = 0
    BY DEF NegativeOnlyWhenEmpty
  <2>1. max_probe_length \in Int
    BY DEF IInv, TypeOK
  <2>2. Filled = {}
    BY <2>1 DEF IInv, Reach
  <2> QED BY <2>2, FS_EmptySet DEF IInv, CountExact
<1> QED BY <1>1, Invariance, PTL

(* A quotient and a remainder are the ones of the division.                *)
LEMMA RemainderUnique ==
  ASSUME NEW N \in Nat \ {0}, NEW q \in Nat, NEW r \in 0 .. N - 1
  PROVE  (N * q + r) % N = r
<1>1. PICK a \in Nat : a = N * q + r
  OBVIOUS
<1>2. PICK d \in Int : a = N * d + (a % N)
  <2>1. a \div N \in Int
    OBVIOUS
  <2>2. a = N * (a \div N) + (a % N)
    OBVIOUS
  <2> QED BY <2>1, <2>2
<1>3. a % N \in 0 .. N - 1
  OBVIOUS
<1>4. PICK s \in 0 .. N - 1 : s = a % N
  BY <1>3
<1>5. N * d + s = N * q + r
  BY <1>1, <1>2, <1>4
<1>6. N * (d - q) = N * d - N * q
  OBVIOUS
<1>7. PICK e \in Int : e = d - q
  OBVIOUS
<1>8. N * e = r - s
  BY <1>5, <1>6, <1>7
<1>9. ~(e >= 1)
  <2> SUFFICES ASSUME e >= 1 PROVE FALSE
    OBVIOUS
  <2>1. N * e >= N
    OBVIOUS
  <2> QED BY <1>8, <2>1
<1>10. ~(e <= -1)
  <2> SUFFICES ASSUME e <= -1 PROVE FALSE
    OBVIOUS
  <2>1. N * e <= -N
    OBVIOUS
  <2> QED BY <1>8, <2>1
<1>11. e = 0
  BY <1>9, <1>10
<1>12. r = s
  BY <1>8, <1>11
<1> QED BY <1>1, <1>4, <1>12

(* A chain passes every bucket of a table.                                 *)
LEMMA ChainsPassAll ==
  ASSUME NEW N \in Nat \ {0}, NEW k \in Nat, NEW b \in 0 .. N - 1
  PROVE  \E o \in 0 .. N - 1 : (k + o) % N = b
<1>h. PICK h : h = k % N
  OBVIOUS
<1>q. PICK q : q = k \div N
  OBVIOUS
<1>2. h \in 0 .. N - 1 /\ k = N * q + h /\ q \in Nat
  BY <1>h, <1>q
<1>3. CASE h <= b
  <2>1. b - h \in 0 .. N - 1 /\ k + (b - h) = N * q + b
    BY <1>2, <1>3
  <2> QED BY <1>2, <2>1, RemainderUnique
<1>4. CASE h > b
  <2>1. /\ (b + N) - h \in 0 .. N - 1
        /\ k + ((b + N) - h) = N * (q + 1) + b /\ q + 1 \in Nat
    BY <1>2, <1>4
  <2> QED BY <2>1, RemainderUnique
<1> QED BY <1>2, <1>3, <1>4

LEMMA ChainsPassAllBuckets ==
  ASSUME NEW k \in Nat, NEW b \in Buckets
  PROVE  \E o \in 0 .. NumBuckets - 1 : Probe(k, o) = b
BY SomeBuckets, ChainsPassAll DEF Probe, Buckets

(* With fewer keys than buckets every chain passes a bucket that is not    *)
(* filled.                                                                 *)
LEMMA LoopsEndInv ==
  ASSUME IInv
  PROVE  LoopsEnd
<1> SUFFICES ASSUME NEW k \in Keys,
                    \A o \in 0 .. NumBuckets - 1 : states[Probe(k, o)] = "FILLED"
             PROVE  FALSE
  BY DEF LoopsEnd
<1>1. k \in Nat /\ NumBuckets \in Nat
  BY CapacityAssumption, SomeBuckets
<1>2. Filled = Buckets
  BY <1>1, ChainsPassAllBuckets DEF Filled
<1>3. Cardinality(Buckets) = NumBuckets
  BY <1>1, FS_Interval DEF Buckets
<1> QED BY <1>2, <1>3, CapacityAssumption DEF IInv, CountExact, TypeOK

(* The unbounded loops of find_or_allocate and find_empty_bucket end.      *)
THEOREM ProbeLoopsEnd == Spec => []LoopsEnd
<1>1. IInv => LoopsEnd
  BY LoopsEndInv
<1> QED BY <1>1, Invariance, PTL

(* The table implements a set of keys.                                     *)
THEOREM Refinement == Spec => ImplementsKeySet
  BY InitStep, StepSimulation, Invariance, PTL
  DEF Spec, ImplementsKeySet, Abstract!Spec

-----------------------------------------------------------------------------
(* Tables as values: the copy, and this set seen as one.                   *)

(* The tables of n buckets.                                                *)
Tables(n) ==
  [num_buckets : {n}, num_filled : Nat, max_probe_length : Int,
   states : [0 .. n - 1 -> {"INACTIVE", "ACTIVE", "FILLED"}],
   keys : [0 .. n - 1 -> Nat]]

TableType(t) ==
  /\ t.num_buckets \in Nat /\ t \in Tables(t.num_buckets)
  /\ t.max_probe_length >= -1

(* A search for k stops at offset o.                                       *)
Stopping(t, k, o) == KeyAt(t, k, o) \/ t.states[BucketAt(t, k, o)] = "INACTIVE"

(* The search for k ends at bucket b, o buckets from its first.            *)
Reaches(t, k, o, b) ==
  /\ o \in 0 .. t.max_probe_length /\ BucketAt(t, k, o) = b
  /\ \A p \in 0 .. o - 1 : ~Stopping(t, k, p)

UniqueKeys(t) == \A b, c \in FilledOf(t) : t.keys[b] = t.keys[c] => b = c
AllReached(t) == \A b \in FilledOf(t) : \E o \in Nat : Reaches(t, t.keys[b], o, b)
Counted(t) == t.num_filled = Cardinality(FilledOf(t))

(* A table in which the operations find what was put there.                *)
Sound(t) == TableType(t) /\ UniqueKeys(t) /\ AllReached(t) /\ Counted(t)

LEMMA TableTypes ==
  ASSUME NEW t, TableType(t)
  PROVE  /\ t.num_buckets \in Nat /\ t.num_filled \in Nat
         /\ t.max_probe_length \in Int /\ t.max_probe_length >= -1
         /\ t.states \in [0 .. t.num_buckets - 1 -> {"INACTIVE", "ACTIVE", "FILLED"}]
         /\ t.keys \in [0 .. t.num_buckets - 1 -> Nat]
         /\ FilledOf(t) = {b \in 0 .. t.num_buckets - 1 : t.states[b] = "FILLED"}
<1>n. PICK n \in Nat : n = t.num_buckets
  BY DEF TableType
<1>1. t \in Tables(n) /\ t.max_probe_length >= -1
  BY <1>n DEF TableType
<1>2. /\ t.num_filled \in Nat /\ t.max_probe_length \in Int
      /\ t.states \in [0 .. n - 1 -> {"INACTIVE", "ACTIVE", "FILLED"}]
      /\ t.keys \in [0 .. n - 1 -> Nat]
  BY <1>1 DEF Tables
<1>3. FilledOf(t) = {b \in 0 .. n - 1 : t.states[b] = "FILLED"}
  BY <1>2 DEF FilledOf
<1> QED BY <1>n, <1>1, <1>2, <1>3

LEMMA BucketInTable ==
  ASSUME NEW t, t.num_buckets \in Nat \ {0}, NEW k \in Nat, NEW o \in Nat
  PROVE  BucketAt(t, k, o) \in 0 .. t.num_buckets - 1
BY DEF BucketAt

LEMMA FilledOfFinite ==
  ASSUME NEW t, TableType(t)
  PROVE  /\ IsFiniteSet(FilledOf(t)) /\ Cardinality(FilledOf(t)) \in Nat
         /\ Cardinality(FilledOf(t)) <= t.num_buckets
<1>n. PICK n \in Nat : n = t.num_buckets
  BY DEF TableType
<1>1. FilledOf(t) \subseteq 0 .. n - 1
  BY <1>n, TableTypes
<1>2. IsFiniteSet(0 .. n - 1) /\ Cardinality(0 .. n - 1) = n
  BY FS_Interval
<1>3. IsFiniteSet(FilledOf(t)) /\ Cardinality(FilledOf(t)) <= n
  BY <1>1, <1>2, FS_Subset
<1> QED BY <1>n, <1>3, FS_CardinalityType

(* The elements are as many as the filled buckets.                         *)
LEMMA ElemsCounted ==
  ASSUME NEW t, Sound(t)
  PROVE  /\ IsFiniteSet(ElemsOf(t)) /\ Cardinality(ElemsOf(t)) = t.num_filled
         /\ t.num_filled <= t.num_buckets
         /\ t.num_filled = 0 <=> FilledOf(t) = {}
<1>1. IsFiniteSet(FilledOf(t)) /\ Cardinality(FilledOf(t)) <= t.num_buckets
  BY FilledOfFinite DEF Sound
<1>2. PICK f : f = [b \in FilledOf(t) |-> t.keys[b]]
  OBVIOUS
<1>3. f \in Bijection(FilledOf(t), ElemsOf(t))
  <2>1. f \in [FilledOf(t) -> ElemsOf(t)]
    BY <1>2 DEF ElemsOf
  <2>2. \A a, b \in FilledOf(t) : f[a] = f[b] => a = b
    BY <1>2 DEF Sound, UniqueKeys
  <2>3. \A y \in ElemsOf(t) : \E x \in FilledOf(t) : f[x] = y
    BY <1>2 DEF ElemsOf
  <2>4. f \in Injection(FilledOf(t), ElemsOf(t))
    BY <2>1, <2>2 DEF Injection, IsInjective
  <2>5. f \in Surjection(FilledOf(t), ElemsOf(t))
    BY <2>1, <2>3 DEF Surjection
  <2> QED BY <2>4, <2>5 DEF Bijection
<1>4. ExistsBijection(FilledOf(t), ElemsOf(t))
  BY <1>3 DEF ExistsBijection
<1>5. IsFiniteSet(ElemsOf(t)) /\ Cardinality(ElemsOf(t)) = Cardinality(FilledOf(t))
  BY <1>1, <1>4, FS_Bijection
<1> QED BY <1>1, <1>5, FS_EmptySet DEF Sound, Counted

(* A search finds the elements and nothing else, wherever it stops.        *)
LEMMA SearchExact ==
  ASSUME NEW t, Sound(t), NEW k \in Nat
  PROVE  /\ Finds(t, k) <=> k \in ElemsOf(t)
         /\ Finds(t, k) => /\ find(t, k) \in FilledOf(t) /\ t.keys[find(t, k)] = k
         /\ Stops(t, k) # {} /\ t.num_buckets # 0 =>
              (KeyAt(t, k, Min(Stops(t, k))) <=> k \in ElemsOf(t))
         /\ Stops(t, k) = {} => k \notin ElemsOf(t)
<1> DEFINE s == Min(Stops(t, k))
<1>1. Stops(t, k) \subseteq Nat /\ \A o \in Stops(t, k) : Stopping(t, k, o)
  BY DEF Stops, Stopping
<1>2. ASSUME Stops(t, k) # {}
      PROVE  s \in Stops(t, k) /\ s \in Nat /\ \A o \in Stops(t, k) : s <= o
  BY <1>1, <1>2, MinNat
<1>3. ASSUME k \in ElemsOf(t)
      PROVE  /\ Stops(t, k) # {} /\ KeyAt(t, k, s) /\ t.num_filled # 0
  <2>1. PICK b \in FilledOf(t) : t.keys[b] = k
    BY <1>3 DEF ElemsOf
  <2>2. PICK o \in Nat : Reaches(t, k, o, b)
    BY <2>1 DEF Sound, AllReached
  <2>3. KeyAt(t, k, o)
    BY <2>1, <2>2 DEF Reaches, KeyAt, FilledOf
  <2>4. o \in Stops(t, k)
    BY <2>2, <2>3 DEF Stops, Reaches
  <2>5. s \in Nat /\ s <= o /\ Stopping(t, k, s)
    BY <1>1, <1>2, <2>4
  <2>6. ~(s \in 0 .. o - 1)
    BY <2>2, <2>5 DEF Reaches
  <2>7. s = o
    BY <2>5, <2>6
  <2> QED BY <2>1, <2>3, <2>4, <2>7, ElemsCounted
<1>4. ASSUME Stops(t, k) # {}, KeyAt(t, k, s), t.num_buckets # 0
      PROVE  /\ k \in ElemsOf(t) /\ BucketAt(t, k, s) \in FilledOf(t)
             /\ t.keys[BucketAt(t, k, s)] = k
  <2>1. BucketAt(t, k, s) \in 0 .. t.num_buckets - 1
    BY <1>2, <1>4, BucketInTable DEF Sound, TableType
  <2>2. BucketAt(t, k, s) \in FilledOf(t)
    BY <1>4, <2>1, TableTypes DEF Sound, KeyAt
  <2> QED BY <1>4, <2>2 DEF KeyAt, ElemsOf
<1>5. t.num_filled # 0 => t.num_buckets # 0
  BY ElemsCounted, TableTypes DEF Sound
<1> QED BY <1>3, <1>4, <1>5 DEF Finds, find

(* A table after k went to bucket b and the search length became m.        *)
Grown(t, k, b, m) ==
  [num_buckets |-> t.num_buckets, num_filled |-> t.num_filled + 1, max_probe_length |-> m,
   states |-> [t.states EXCEPT ![b] = "FILLED"], keys |-> [t.keys EXCEPT ![b] = k]]

LEMMA FillingGrows ==
  ASSUME NEW t, TableType(t), NEW k, NEW o, NEW m
  PROVE  /\ Filling(t, k, o) = Grown(t, k, BucketAt(t, k, o), t.max_probe_length)
         /\ Filling(t, k, o).max_probe_length = t.max_probe_length
         /\ [Filling(t, k, o) EXCEPT !.max_probe_length = m] = Grown(t, k, BucketAt(t, k, o), m)
<1>n. PICK n : n = t.num_buckets
  OBVIOUS
<1>1. t \in Tables(n)
  BY <1>n DEF TableType
<1>b. PICK b : b = BucketAt(t, k, o)
  OBVIOUS
<1>2. Filling(t, k, o) = Grown(t, k, b, t.max_probe_length)
  <2>1. PICK nb, nf, mp, ss, kk : t = [num_buckets |-> nb, num_filled |-> nf, max_probe_length |-> mp,
                                      states |-> ss, keys |-> kk]
    BY <1>1 DEF Tables
  <2>2. t.num_buckets = nb /\ t.num_filled = nf /\ t.max_probe_length = mp /\ t.states = ss /\ t.keys = kk
    BY <2>1
  <2>s. PICK s1 : s1 = [ss EXCEPT ![b] = "FILLED"]
    OBVIOUS
  <2>k. PICK k1 : k1 = [kk EXCEPT ![b] = k]
    OBVIOUS
  <2>3. PICK t1 : t1 = [t EXCEPT !.states = s1]
    OBVIOUS
  <2>4. t1 = [num_buckets |-> nb, num_filled |-> nf, max_probe_length |-> mp,
              states |-> s1, keys |-> kk]
    BY <2>1, <2>3
  <2>5. PICK t2 : t2 = [t1 EXCEPT !.keys = k1]
    OBVIOUS
  <2>6. t2 = [num_buckets |-> nb, num_filled |-> nf, max_probe_length |-> mp,
              states |-> s1, keys |-> k1]
    BY <2>4, <2>5
  <2>7. t1.keys = kk /\ t2.num_filled = nf
    BY <2>4, <2>6
  <2>8. [t2 EXCEPT !.num_filled = nf + 1] =
          [num_buckets |-> nb, num_filled |-> nf + 1, max_probe_length |-> mp,
           states |-> s1, keys |-> k1]
    BY <2>6
  <2>9. Filling(t, k, o) = [t2 EXCEPT !.num_filled = nf + 1]
    BY <1>b, <2>2, <2>s, <2>k, <2>3, <2>5, <2>7 DEF Filling
  <2> QED BY <2>2, <2>s, <2>k, <2>8, <2>9 DEF Grown
<1>3. [Grown(t, k, b, t.max_probe_length) EXCEPT !.max_probe_length = m] = Grown(t, k, b, m)
  BY DEF Grown
<1>4. Grown(t, k, b, t.max_probe_length).max_probe_length = t.max_probe_length
  BY DEF Grown
<1> QED BY <1>b, <1>2, <1>3, <1>4

(* A key that is not in a table may be put at any place of its chain that  *)
(* the search for it reaches.                                              *)
LEMMA FillingSound ==
  ASSUME NEW t, Sound(t), NEW k \in Nat, k \notin ElemsOf(t), NEW o \in Nat,
         t.num_buckets # 0, t.states[BucketAt(t, k, o)] # "FILLED",
         \A p \in 0 .. o - 1 : /\ t.states[BucketAt(t, k, p)] # "INACTIVE"
                               /\ BucketAt(t, k, p) # BucketAt(t, k, o),
         NEW m \in Int, t.max_probe_length <= m, o <= m,
         NEW u, u = Grown(t, k, BucketAt(t, k, o), m)
  PROVE  /\ Sound(u) /\ ElemsOf(u) = ElemsOf(t) \cup {k}
         /\ u.num_buckets = t.num_buckets /\ u.num_filled = t.num_filled + 1
<1>b. PICK b : b = BucketAt(t, k, o)
  OBVIOUS
<1>n. PICK n : n = t.num_buckets
  OBVIOUS
<1>1. /\ n \in Nat \ {0} /\ t.num_filled \in Nat
      /\ t.max_probe_length \in Int /\ t.max_probe_length >= -1
      /\ t.states \in [0 .. n - 1 -> {"INACTIVE", "ACTIVE", "FILLED"}]
      /\ t.keys \in [0 .. n - 1 -> Nat] /\ t \in Tables(n)
      /\ FilledOf(t) = {c \in 0 .. n - 1 : t.states[c] = "FILLED"}
  BY <1>n, TableTypes DEF Sound, TableType
<1>2. b \in 0 .. n - 1 /\ \A kc, p \in Nat : BucketAt(t, kc, p) \in 0 .. n - 1
  BY <1>b, <1>n, <1>1, BucketInTable
<1>3. /\ u = [num_buckets |-> n, num_filled |-> t.num_filled + 1, max_probe_length |-> m,
              states |-> [t.states EXCEPT ![b] = "FILLED"], keys |-> [t.keys EXCEPT ![b] = k]]
  BY <1>b, <1>n DEF Grown
<1>4. /\ u.num_buckets = n /\ u.num_filled = t.num_filled + 1 /\ u.max_probe_length = m
      /\ u.states = [t.states EXCEPT ![b] = "FILLED"] /\ u.keys = [t.keys EXCEPT ![b] = k]
  BY <1>3
<1>5. TableType(u)
  <2>1. u.states \in [0 .. n - 1 -> {"INACTIVE", "ACTIVE", "FILLED"}]
    <3>1. PICK ss : ss = t.states
      OBVIOUS
    <3>2. ss \in [0 .. n - 1 -> {"INACTIVE", "ACTIVE", "FILLED"}] /\ u.states = [ss EXCEPT ![b] = "FILLED"]
      BY <1>1, <1>4, <3>1
    <3> QED BY <3>2
  <2>2. u.keys \in [0 .. n - 1 -> Nat]
    <3>1. PICK kk : kk = t.keys
      OBVIOUS
    <3>2. kk \in [0 .. n - 1 -> Nat] /\ u.keys = [kk EXCEPT ![b] = k]
      BY <1>1, <1>4, <3>1
    <3> QED BY <3>2
  <2>3. u = [num_buckets |-> n, num_filled |-> t.num_filled + 1, max_probe_length |-> m,
             states |-> u.states, keys |-> u.keys]
    BY <1>3, <1>4
  <2>4. t.num_filled + 1 \in Nat
    BY <1>1
  <2>5. u \in Tables(n)
    BY <2>1, <2>2, <2>3, <2>4 DEF Tables
  <2> QED BY <1>1, <1>4, <2>5 DEF TableType
<1>6. /\ u.states[b] = "FILLED" /\ u.keys[b] = k
      /\ \A c \in 0 .. n - 1 : c # b => u.states[c] = t.states[c] /\ u.keys[c] = t.keys[c]
  <2>1. PICK ss, kk : ss = t.states /\ kk = t.keys
    OBVIOUS
  <2>2. DOMAIN ss = 0 .. n - 1 /\ DOMAIN kk = 0 .. n - 1
    BY <1>1, <2>1
  <2>3. u.states = [ss EXCEPT ![b] = "FILLED"] /\ u.keys = [kk EXCEPT ![b] = k]
    BY <1>4, <2>1
  <2>4. /\ u.states[b] = "FILLED"
        /\ \A c \in 0 .. n - 1 : c # b => u.states[c] = ss[c]
    BY <1>2, <2>2, <2>3
  <2>5. /\ u.keys[b] = k
        /\ \A c \in 0 .. n - 1 : c # b => u.keys[c] = kk[c]
    BY <1>2, <2>2, <2>3
  <2> QED BY <2>1, <2>4, <2>5
<1>7. FilledOf(u) = FilledOf(t) \cup {b} /\ b \notin FilledOf(t)
  <2>1. FilledOf(u) = {c \in 0 .. n - 1 : u.states[c] = "FILLED"}
    BY <1>4, <1>5, TableTypes
  <2>2. FilledOf(t) = {c \in 0 .. n - 1 : t.states[c] = "FILLED"}
    BY <1>1
  <2>3. t.states[b] # "FILLED"
    BY <1>b
  <2>4. \A c : c \in FilledOf(u) <=> (c \in FilledOf(t) \/ c = b)
    BY <1>2, <1>6, <2>1, <2>2
  <2> QED BY <2>2, <2>3, <2>4
<1>8. \A c \in FilledOf(t) : u.keys[c] = t.keys[c] /\ t.keys[c] # k /\ t.keys[c] \in Nat
                             /\ u.states[c] = "FILLED"
  BY <1>1, <1>6, <1>7 DEF ElemsOf
<1>9. UniqueKeys(u)
  <2>1. UniqueKeys(t)
    BY DEF Sound
  <2> QED BY <1>6, <1>7, <1>8, <2>1 DEF UniqueKeys
<1>10. \A kc, p : BucketAt(u, kc, p) = BucketAt(t, kc, p)
  BY <1>n, <1>4 DEF BucketAt
<1>11. AllReached(u)
  <2>1. Reaches(u, k, o, b)
    <3>1. ASSUME NEW p \in 0 .. o - 1 PROVE ~Stopping(u, k, p)
      <4>p. p \in Nat
        OBVIOUS
      <4>1. PICK c : c = BucketAt(t, k, p) /\ c \in 0 .. n - 1
        BY <1>2, <4>p
      <4>2. c # b /\ t.states[c] # "INACTIVE"
        BY <1>b, <4>1
      <4>3. ~(t.states[c] = "FILLED" /\ t.keys[c] = k)
        BY <1>1, <4>1 DEF ElemsOf
      <4>4. BucketAt(u, k, p) = c /\ u.states[c] = t.states[c] /\ u.keys[c] = t.keys[c]
        BY <1>6, <1>10, <4>1, <4>2
      <4> QED BY <4>2, <4>3, <4>4 DEF Stopping, KeyAt
    <3>2. o \in 0 .. u.max_probe_length
      BY <1>4
    <3> QED BY <1>b, <1>10, <3>1, <3>2 DEF Reaches
  <2>2. ASSUME NEW c \in FilledOf(t)
        PROVE  \E q \in Nat : Reaches(u, u.keys[c], q, c)
    <3>1. PICK kc : kc = t.keys[c] /\ kc = u.keys[c] /\ kc # k /\ kc \in Nat
      BY <1>8
    <3>2. PICK q \in Nat : Reaches(t, kc, q, c)
      BY <3>1 DEF Sound, AllReached
    <3>3. ASSUME NEW p \in 0 .. q - 1 PROVE ~Stopping(u, kc, p)
      <4>p. p \in Nat
        OBVIOUS
      <4>1. PICK d : d = BucketAt(t, kc, p) /\ d \in 0 .. n - 1
        BY <1>2, <3>1, <4>p
      <4>2. ~Stopping(t, kc, p)
        BY <3>2 DEF Reaches
      <4>3. ~(t.states[d] = "FILLED" /\ t.keys[d] = kc) /\ t.states[d] # "INACTIVE"
        BY <4>1, <4>2 DEF Stopping, KeyAt
      <4>4. CASE d = b
        <5>1. BucketAt(u, kc, p) = b
          BY <1>10, <4>1, <4>4
        <5>2. u.states[b] = "FILLED" /\ u.keys[b] # kc
          BY <1>6, <3>1
        <5> QED BY <5>1, <5>2 DEF Stopping, KeyAt
      <4>5. CASE d # b
        <5>1. BucketAt(u, kc, p) = d /\ u.states[d] = t.states[d] /\ u.keys[d] = t.keys[d]
          BY <1>6, <1>10, <4>1, <4>5
        <5> QED BY <4>3, <5>1 DEF Stopping, KeyAt
      <4> QED BY <4>4, <4>5
    <3>4. q \in 0 .. t.max_probe_length /\ BucketAt(t, kc, q) = c
      BY <3>2 DEF Reaches
    <3>5. q \in 0 .. u.max_probe_length
      BY <1>1, <1>4, <3>4
    <3>6. Reaches(u, kc, q, c)
      BY <1>10, <3>3, <3>4, <3>5 DEF Reaches
    <3> QED BY <3>1, <3>6
  <2>3. \E q \in Nat : Reaches(u, u.keys[b], q, b)
    BY <1>6, <2>1
  <2> QED BY <1>7, <2>2, <2>3 DEF AllReached
<1>12. Counted(u)
  <2>1. IsFiniteSet(FilledOf(t)) /\ t.num_filled = Cardinality(FilledOf(t))
    BY FilledOfFinite DEF Sound, Counted
  <2>2. Cardinality(FilledOf(t) \cup {b}) = Cardinality(FilledOf(t)) + 1
    BY <1>7, <2>1, FS_AddElement
  <2> QED BY <1>4, <1>7, <2>1, <2>2 DEF Counted
<1>13. ElemsOf(u) = ElemsOf(t) \cup {k}
  BY <1>6, <1>7, <1>8 DEF ElemsOf
<1> QED BY <1>n, <1>4, <1>5, <1>9, <1>11, <1>12, <1>13 DEF Sound

(* A table that is not full has a free bucket on every chain, within one   *)
(* round from anywhere.                                                    *)
LEMMA FreeExists ==
  ASSUME NEW t, Sound(t), t.num_filled < t.num_buckets, NEW k \in Nat, NEW lo \in Nat
  PROVE  /\ FreeFrom(t, k, lo) \subseteq Nat /\ FreeFrom(t, k, lo) # {}
<1>n. PICK n : n = t.num_buckets
  OBVIOUS
<1>1. /\ n \in Nat /\ t.num_filled \in Nat
      /\ FilledOf(t) = {c \in 0 .. n - 1 : t.states[c] = "FILLED"}
  BY <1>n, TableTypes DEF Sound
<1>2. n # 0
  BY <1>n, <1>1
<1>3. Cardinality(0 .. n - 1) = n
  BY <1>1, FS_Interval
<1>4. FilledOf(t) # 0 .. n - 1
  <2> SUFFICES ASSUME FilledOf(t) = 0 .. n - 1 PROVE FALSE
    OBVIOUS
  <2>1. t.num_filled = n
    BY <1>3 DEF Sound, Counted
  <2> QED BY <1>n, <1>1, <2>1
<1>5. PICK b \in 0 .. n - 1 : t.states[b] # "FILLED"
  BY <1>1, <1>4
<1>6. PICK o \in 0 .. n - 1 : ((k + lo) + o) % n = b
  <2>1. k + lo \in Nat /\ n \in Nat \ {0}
    BY <1>1, <1>2
  <2> QED BY <2>1, ChainsPassAll
<1>7. lo + o \in lo .. lo + n - 1 /\ k + (lo + o) = (k + lo) + o
  BY <1>1
<1>8. BucketAt(t, k, lo + o) = b
  BY <1>n, <1>6, <1>7 DEF BucketAt
<1>9. lo + o \in FreeFrom(t, k, lo)
  BY <1>n, <1>5, <1>7, <1>8 DEF FreeFrom
<1>10. FreeFrom(t, k, lo) \subseteq Nat
  BY <1>n, <1>1 DEF FreeFrom
<1> QED BY <1>9, <1>10

(* insert adds the key.                                                    *)
LEMMA InsertSound ==
  ASSUME NEW t, Sound(t), NEW k \in Nat, t.num_filled < t.num_buckets
  PROVE  /\ Sound(Insert(t, k)) /\ ElemsOf(Insert(t, k)) = ElemsOf(t) \cup {k}
         /\ Insert(t, k).num_buckets = t.num_buckets
<1> DEFINE holes == {o \in 0 .. t.max_probe_length : t.states[BucketAt(t, k, o)] = "ACTIVE"}
           free == FreeFrom(t, k, t.max_probe_length + 1)
           stop == Min(Stops(t, k))
<1>1. /\ t.num_buckets \in Nat /\ t.num_filled \in Nat /\ t.max_probe_length \in Int
      /\ t.max_probe_length >= -1 /\ t.num_buckets # 0
      /\ t.states \in [0 .. t.num_buckets - 1 -> {"INACTIVE", "ACTIVE", "FILLED"}]
  BY TableTypes DEF Sound
<1>2. \A o \in Nat : /\ BucketAt(t, k, o) \in 0 .. t.num_buckets - 1
                     /\ t.states[BucketAt(t, k, o)] \in {"INACTIVE", "ACTIVE", "FILLED"}
  BY <1>1, BucketInTable
<1>3. \A o : /\ Filling(t, k, o) = Grown(t, k, BucketAt(t, k, o), t.max_probe_length)
            /\ [Filling(t, k, o) EXCEPT !.max_probe_length = o] = Grown(t, k, BucketAt(t, k, o), o)
  BY FillingGrows DEF Sound
<1>4. CASE Stops(t, k) # {} /\ KeyAt(t, k, stop)
  <2>1. k \in ElemsOf(t) /\ Insert(t, k) = t
    BY <1>1, <1>4, SearchExact DEF Insert
  <2>2. ElemsOf(t) = ElemsOf(t) \cup {k}
    BY <2>1
  <2> QED BY <2>1, <2>2
<1>5. CASE Stops(t, k) # {} /\ ~KeyAt(t, k, stop)
  <2>1. k \notin ElemsOf(t) /\ Insert(t, k) = Filling(t, k, stop)
    BY <1>1, <1>5, SearchExact DEF Insert
  <2>2. stop \in Stops(t, k) /\ stop \in Nat /\ \A o \in Stops(t, k) : stop <= o
    BY <1>5, MinNat DEF Stops
  <2>3. stop \in 0 .. t.max_probe_length /\ t.states[BucketAt(t, k, stop)] = "INACTIVE"
    BY <1>5, <2>2 DEF Stops
  <2>4. ASSUME NEW p \in 0 .. stop - 1 PROVE t.states[BucketAt(t, k, p)] # "INACTIVE"
    <3>1. p \in 0 .. t.max_probe_length /\ ~(stop <= p)
      BY <1>1, <2>2, <2>3
    <3> QED BY <2>2, <3>1 DEF Stops
  <2>5. \A p \in 0 .. stop - 1 : BucketAt(t, k, p) # BucketAt(t, k, stop)
    BY <2>3, <2>4
  <2>6. stop <= t.max_probe_length /\ t.states[BucketAt(t, k, stop)] # "FILLED"
    BY <1>1, <2>3
  <2> HIDE DEF stop
  <2>u. PICK u : u = Grown(t, k, BucketAt(t, k, stop), t.max_probe_length)
    OBVIOUS
  <2>7. Sound(u) /\ ElemsOf(u) = ElemsOf(t) \cup {k} /\ u.num_buckets = t.num_buckets
    BY <1>1, <2>u, <2>1, <2>2, <2>4, <2>5, <2>6, FillingSound
  <2> QED BY <1>3, <2>u, <2>1, <2>7
<1>6. ASSUME Stops(t, k) = {}
      PROVE  /\ k \notin ElemsOf(t)
             /\ \A p \in 0 .. t.max_probe_length : t.states[BucketAt(t, k, p)] # "INACTIVE"
  BY <1>6, SearchExact DEF Stops
<1>7. CASE Stops(t, k) = {} /\ holes # {}
  <2>h. PICK h : h = Min(holes)
    OBVIOUS
  <2>1. h \in holes /\ h \in Nat /\ \A o \in holes : h <= o
    <3>1. holes \subseteq Nat
      OBVIOUS
    <3> QED BY <1>7, <2>h, <3>1, MinNat
  <2>2. Insert(t, k) = Filling(t, k, h)
    BY <1>7, <2>h DEF Insert
  <2>3. h \in 0 .. t.max_probe_length /\ t.states[BucketAt(t, k, h)] = "ACTIVE"
    BY <2>1
  <2>4. ASSUME NEW p \in 0 .. h - 1
        PROVE  /\ t.states[BucketAt(t, k, p)] # "INACTIVE"
               /\ BucketAt(t, k, p) # BucketAt(t, k, h)
    <3>1. p \in 0 .. t.max_probe_length /\ ~(h <= p)
      BY <1>1, <2>1, <2>3
    <3>2. t.states[BucketAt(t, k, p)] # "ACTIVE"
      BY <2>1, <3>1
    <3> QED BY <1>6, <1>7, <2>3, <3>1, <3>2
  <2>5. h <= t.max_probe_length /\ t.states[BucketAt(t, k, h)] # "FILLED"
    BY <1>1, <2>3
  <2>6. k \notin ElemsOf(t)
    BY <1>6, <1>7
  <2>u. PICK u : u = Grown(t, k, BucketAt(t, k, h), t.max_probe_length)
    OBVIOUS
  <2>7. Sound(u) /\ ElemsOf(u) = ElemsOf(t) \cup {k} /\ u.num_buckets = t.num_buckets
    BY <1>1, <2>u, <2>1, <2>4, <2>5, <2>6, FillingSound
  <2> QED BY <1>3, <2>u, <2>2, <2>7
<1>8. CASE Stops(t, k) = {} /\ holes = {}
  <2>f. PICK f : f = Min(free)
    OBVIOUS
  <2>1. f \in free /\ f \in Nat /\ \A o \in free : f <= o
    <3>1. t.max_probe_length + 1 \in Nat
      BY <1>1
    <3>2. free \subseteq Nat /\ free # {}
      BY <3>1, FreeExists
    <3> QED BY <2>f, <3>2, MinNat
  <2>2. Insert(t, k) = [Filling(t, k, f) EXCEPT !.max_probe_length = f]
    BY <1>8, <2>f DEF Insert
  <2>3. /\ f \in t.max_probe_length + 1 .. t.max_probe_length + 1 + t.num_buckets - 1
        /\ t.states[BucketAt(t, k, f)] # "FILLED"
    BY <2>1 DEF FreeFrom
  <2>4. ASSUME NEW p \in 0 .. f - 1
        PROVE  t.states[BucketAt(t, k, p)] = "FILLED"
    <3>1. CASE p <= t.max_probe_length
      <4>1. p \in 0 .. t.max_probe_length /\ p \in Nat
        BY <1>1, <3>1
      <4>2. t.states[BucketAt(t, k, p)] # "ACTIVE" /\ t.states[BucketAt(t, k, p)] # "INACTIVE"
        BY <1>6, <1>8, <4>1
      <4> QED BY <1>2, <4>1, <4>2
    <3>2. CASE ~(p <= t.max_probe_length)
      <4>1. p \in t.max_probe_length + 1 .. t.max_probe_length + 1 + t.num_buckets - 1
            /\ ~(f <= p)
        BY <1>1, <2>1, <2>3, <3>2
      <4> QED BY <2>1, <4>1 DEF FreeFrom
    <3> QED BY <3>1, <3>2
  <2>5. \A p \in 0 .. f - 1 : /\ t.states[BucketAt(t, k, p)] # "INACTIVE"
                              /\ BucketAt(t, k, p) # BucketAt(t, k, f)
    BY <2>3, <2>4
  <2>6. f \in Int /\ t.max_probe_length <= f /\ f <= f
    BY <1>1, <2>1, <2>3
  <2>u. PICK u : u = Grown(t, k, BucketAt(t, k, f), f)
    OBVIOUS
  <2>7. k \notin ElemsOf(t)
    BY <1>6, <1>8
  <2>8. Sound(u) /\ ElemsOf(u) = ElemsOf(t) \cup {k} /\ u.num_buckets = t.num_buckets
    <3>1. t.num_buckets # 0 /\ f \in Nat /\ t.states[BucketAt(t, k, f)] # "FILLED"
      BY <1>1, <2>1, <2>3
    <3> QED BY <2>u, <2>5, <2>6, <2>7, <3>1, FillingSound
  <2> QED BY <1>3, <2>u, <2>2, <2>8
<1> QED BY <1>4, <1>5, <1>7, <1>8

(* An element that moves to a new table.                                   *)
LEMMA PlaceSound ==
  ASSUME NEW t, Sound(t), NEW k \in Nat, k \notin ElemsOf(t), t.num_filled < t.num_buckets
  PROVE  /\ Sound(Place(t, k)) /\ ElemsOf(Place(t, k)) = ElemsOf(t) \cup {k}
         /\ Place(t, k).num_buckets = t.num_buckets
         /\ Place(t, k).num_filled = t.num_filled + 1
<1>f. PICK f : f = Min(FreeFrom(t, k, 0))
  OBVIOUS
<1>1. /\ t.num_buckets \in Nat /\ t.num_filled \in Nat /\ t.max_probe_length \in Int
      /\ t.num_buckets # 0 /\ t \in Tables(t.num_buckets)
  BY TableTypes DEF Sound, TableType
<1>2. f \in FreeFrom(t, k, 0) /\ f \in Nat /\ \A o \in FreeFrom(t, k, 0) : f <= o
  <2>1. FreeFrom(t, k, 0) \subseteq Nat /\ FreeFrom(t, k, 0) # {}
    BY FreeExists
  <2> QED BY <1>f, <2>1, MinNat
<1>3. f \in 0 .. t.num_buckets - 1 /\ t.states[BucketAt(t, k, f)] # "FILLED"
  <2>1. f \in 0 .. 0 + t.num_buckets - 1 /\ t.states[BucketAt(t, k, f)] # "FILLED"
    BY <1>2 DEF FreeFrom
  <2> QED BY <1>1, <2>1
<1>4. ASSUME NEW p \in 0 .. f - 1 PROVE t.states[BucketAt(t, k, p)] = "FILLED"
  <2>1. p \in 0 .. 0 + t.num_buckets - 1 /\ ~(f <= p)
    BY <1>1, <1>2, <1>3
  <2> QED BY <1>2, <2>1 DEF FreeFrom
<1>5. \A p \in 0 .. f - 1 : /\ t.states[BucketAt(t, k, p)] # "INACTIVE"
                            /\ BucketAt(t, k, p) # BucketAt(t, k, f)
  BY <1>3, <1>4
<1>m. PICK m : m = Max({t.max_probe_length, f})
  OBVIOUS
<1>6. m \in Int /\ t.max_probe_length <= m /\ f <= m
  BY <1>m, <1>1, <1>2, MaxPair
<1>u. PICK u : u = Grown(t, k, BucketAt(t, k, f), m)
  OBVIOUS
<1>7. /\ Filling(t, k, f).max_probe_length = t.max_probe_length
      /\ [Filling(t, k, f) EXCEPT !.max_probe_length = m] = u
  BY <1>u, FillingGrows DEF Sound
<1>8. Place(t, k) = u
  BY <1>f, <1>m, <1>7 DEF Place
<1>9. /\ Sound(u) /\ ElemsOf(u) = ElemsOf(t) \cup {k}
      /\ u.num_buckets = t.num_buckets /\ u.num_filled = t.num_filled + 1
  BY <1>1, <1>2, <1>3, <1>5, <1>6, <1>u, FillingSound
<1> QED BY <1>8, <1>9

(* The new table of reserve, before the elements move.                     *)
LEMMA FreshSound ==
  ASSUME NEW n \in Nat
  PROVE  /\ Sound(Fresh(n)) /\ ElemsOf(Fresh(n)) = {}
         /\ Fresh(n).num_buckets = n /\ Fresh(n).num_filled = 0
<1>f. PICK f : f = Fresh(n)
  OBVIOUS
<1>1. /\ f.num_buckets = n /\ f.num_filled = 0 /\ f.max_probe_length = -1
      /\ f.states = [b \in 0 .. n - 1 |-> "INACTIVE"] /\ f.keys = [b \in 0 .. n - 1 |-> 0]
  BY <1>f DEF Fresh
<1>2. TableType(f)
  <2>1. f.states \in [0 .. n - 1 -> {"INACTIVE", "ACTIVE", "FILLED"}]
    BY <1>1
  <2>2. f.keys \in [0 .. n - 1 -> Nat]
    BY <1>1
  <2>3. f = [num_buckets |-> n, num_filled |-> 0, max_probe_length |-> -1,
             states |-> f.states, keys |-> f.keys]
    BY <1>f, <1>1 DEF Fresh
  <2>4. f \in Tables(n)
    BY <2>1, <2>2, <2>3 DEF Tables
  <2> QED BY <1>1, <2>4 DEF TableType
<1>3. FilledOf(f) = {}
  BY <1>1 DEF FilledOf
<1>4. UniqueKeys(f) /\ AllReached(f) /\ ElemsOf(f) = {}
  BY <1>3 DEF UniqueKeys, AllReached, ElemsOf
<1>5. Counted(f)
  BY <1>1, <1>3, FS_EmptySet DEF Counted
<1> QED BY <1>f, <1>1, <1>2, <1>4, <1>5 DEF Sound

(* The loop of reserve has moved the elements of the first b buckets.      *)
MovedTo(t, N, b, x) ==
  /\ Sound(x) /\ x.num_buckets = N /\ x.num_filled <= b
  /\ ElemsOf(x) = KeysBefore(t, b)

MoveBucket(t, b, x) ==
  IF t.states[b - 1] = "FILLED" THEN Place(x, t.keys[b - 1]) ELSE x

LEMMA MoveStep ==
  ASSUME NEW t, Sound(t), NEW N \in Nat, N > t.num_buckets,
         NEW b \in 1 .. t.num_buckets, NEW x, MovedTo(t, N, b - 1, x)
  PROVE  MovedTo(t, N, b, MoveBucket(t, b, x))
<1>1. /\ t.num_buckets \in Nat /\ t.keys \in [0 .. t.num_buckets - 1 -> Nat]
      /\ FilledOf(t) = {c \in 0 .. t.num_buckets - 1 : t.states[c] = "FILLED"}
  BY TableTypes DEF Sound
<1>2. PICK c : c = b - 1
  OBVIOUS
<1>3. c \in 0 .. t.num_buckets - 1 /\ c + 1 = b /\ c < b
  BY <1>1, <1>2
<1>4. \A d \in 0 .. t.num_buckets - 1 : d < b <=> (d < c \/ d = c)
  BY <1>1, <1>3
<1>5. Sound(x) /\ x.num_buckets = N /\ x.num_filled <= c /\ ElemsOf(x) = KeysBefore(t, c)
      /\ x.num_filled \in Nat
  BY <1>2, TableTypes DEF MovedTo, Sound
<1>6. CASE t.states[c] = "FILLED"
  <2>k. PICK k : k = t.keys[c] /\ k \in Nat
    BY <1>1, <1>3
  <2>1. c \in FilledOf(t)
    BY <1>1, <1>3, <1>6
  <2>2. k \notin ElemsOf(x)
    <3> SUFFICES ASSUME k \in KeysBefore(t, c) PROVE FALSE
      BY <1>5
    <3>1. PICK d \in FilledOf(t) : d < c /\ t.keys[d] = k
      BY DEF KeysBefore
    <3>2. d = c
      BY <2>k, <2>1, <3>1 DEF Sound, UniqueKeys
    <3> QED BY <1>3, <3>1, <3>2
  <2>3. x.num_filled < x.num_buckets
    BY <1>1, <1>3, <1>5
  <2>4. KeysBefore(t, b) = KeysBefore(t, c) \cup {k}
    BY <1>1, <1>4, <2>k, <2>1 DEF KeysBefore
  <2>y. PICK y : y = Place(x, k)
    OBVIOUS
  <2>5. /\ Sound(y) /\ ElemsOf(y) = ElemsOf(x) \cup {k}
        /\ y.num_buckets = x.num_buckets /\ y.num_filled = x.num_filled + 1
    BY <1>5, <2>k, <2>2, <2>3, <2>y, PlaceSound
  <2>6. y.num_filled <= b
    BY <1>3, <1>5, <2>5
  <2>7. MoveBucket(t, b, x) = y
    BY <1>2, <1>6, <2>k, <2>y DEF MoveBucket
  <2> QED BY <1>5, <2>4, <2>5, <2>6, <2>7 DEF MovedTo
<1>7. CASE t.states[c] # "FILLED"
  <2>1. KeysBefore(t, b) = KeysBefore(t, c)
    BY <1>1, <1>4, <1>7 DEF KeysBefore
  <2>2. x.num_filled <= b
    BY <1>3, <1>5
  <2>3. MoveBucket(t, b, x) = x
    BY <1>2, <1>7 DEF MoveBucket
  <2> QED BY <1>5, <2>1, <2>2, <2>3 DEF MovedTo
<1> QED BY <1>6, <1>7

LEMMA MoveLoop ==
  ASSUME NEW t, Sound(t), NEW N \in Nat, N > t.num_buckets, NEW f,
         f[0] = Fresh(N),
         \A b \in 1 .. t.num_buckets :
           MovedTo(t, N, b - 1, f[b - 1]) => f[b] = MoveBucket(t, b, f[b - 1])
  PROVE  \A b \in 0 .. t.num_buckets : MovedTo(t, N, b, f[b])
<1>1. t.num_buckets \in Nat /\ FilledOf(t) \subseteq Nat
  BY TableTypes DEF Sound
<1> DEFINE S == {b \in 0 .. t.num_buckets : MovedTo(t, N, b, f[b])}
<1>2. 0 \in S
  <2>1. KeysBefore(t, 0) = {}
    BY <1>1 DEF KeysBefore
  <2>2. MovedTo(t, N, 0, Fresh(N))
    BY <2>1, FreshSound DEF MovedTo
  <2> QED BY <1>1, <2>2
<1>3. ASSUME NEW b \in 1 .. t.num_buckets, b - 1 \in S PROVE b \in S
  <2>1. MovedTo(t, N, b - 1, f[b - 1])
    BY <1>3
  <2>2. MovedTo(t, N, b, MoveBucket(t, b, f[b - 1]))
    BY <2>1, MoveStep
  <2>3. f[b] = MoveBucket(t, b, f[b - 1])
    BY <2>1
  <2> QED BY <1>1, <2>2, <2>3
<1> HIDE DEF S
<1>4. \A b \in 0 .. t.num_buckets : b \in S
  BY <1>1, <1>2, <1>3, LoopInduction
<1> QED BY <1>4 DEF S

(* reserve keeps the elements and makes room.                              *)
LEMMA ReserveSound ==
  ASSUME NEW t, Sound(t), NEW n \in Nat
  PROVE  /\ Sound(Reserve(t, n)) /\ ElemsOf(Reserve(t, n)) = ElemsOf(t)
         /\ Reserve(t, n).num_buckets >= n + n \div 2 + 1
<1>1. t.num_buckets \in Nat /\ FilledOf(t) \subseteq 0 .. t.num_buckets - 1
  BY TableTypes DEF Sound
<1>r. PICK r : r = n + n \div 2 + 1 /\ r \in Nat
  OBVIOUS
<1>2. CASE r <= t.num_buckets
  BY <1>r, <1>1, <1>2 DEF Reserve
<1>3. CASE ~(r <= t.num_buckets)
  <2>N. PICK N : N = BucketsFor(n)
    OBVIOUS
  <2>1. N \in Nat /\ N >= r
    BY <1>r, <2>N, BucketsEnough
  <2>2. N > t.num_buckets
    BY <1>r, <1>1, <1>3, <2>1
  <2>M. PICK M \in Nat : M = t.num_buckets
    BY <1>1
  <2> DEFINE Eq(f) == f = [b \in 0 .. t.num_buckets |->
                             IF b = 0 THEN Fresh(BucketsFor(n))
                             ELSE IF t.states[b - 1] = "FILLED" THEN Place(f[b - 1], t.keys[b - 1])
                             ELSE f[b - 1]]
  <2>v. PICK v : v = CHOOSE f : Eq(f)
    OBVIOUS
  <2>3. Reserve(t, n) = v[t.num_buckets]
    BY <1>r, <1>3, <2>v DEF Reserve
  <2>4. ASSUME NEW f, Eq(f)
        PROVE  \A b \in 0 .. t.num_buckets :
                 f[b] = IF b = 0 THEN Fresh(N) ELSE MoveBucket(t, b, f[b - 1])
    BY <2>N, <2>4 DEF MoveBucket
  <2>s. PICK st : st = [p \in Nat \X Tables(N) |->
                          IF p[1] \in 1 .. M /\ MovedTo(t, N, p[1] - 1, p[2])
                          THEN MoveBucket(t, p[1], p[2]) ELSE p[2]]
    OBVIOUS
  <2>5. \A b \in 1 .. M : \A x : MovedTo(t, N, b - 1, x) => MovedTo(t, N, b, MoveBucket(t, b, x))
    BY <2>M, <2>1, <2>2, MoveStep
  <2>6. \A b, x : MovedTo(t, N, b, x) => x \in Tables(N)
    BY DEF MovedTo, Sound, TableType
  <2>7. st \in Steps(Tables(N))
    <3>1. \A p \in Nat \X Tables(N) :
            (IF p[1] \in 1 .. M /\ MovedTo(t, N, p[1] - 1, p[2])
             THEN MoveBucket(t, p[1], p[2]) ELSE p[2]) \in Tables(N)
      BY <2>5, <2>6
    <3> QED BY <2>s, <3>1 DEF Steps
  <2>8. Fresh(N) \in Tables(N)
    BY <2>1, FreshSound DEF Sound, TableType
  <2>9. PICK g \in [0 .. M -> Tables(N)] : Unfolds(g, Fresh(N), M, st)
    BY <2>7, <2>8, RecursionExists
  <2>10. g[0] = Fresh(N) /\ \A b \in 1 .. M : g[b] = st[<<b, g[b - 1]>>]
    <3>1. 0 \in 0 .. M /\ \A b \in 1 .. M : b \in 0 .. M /\ b # 0
      OBVIOUS
    <3> QED BY <2>9, <3>1 DEF Unfolds
  <2>11. ASSUME NEW b \in 1 .. M, MovedTo(t, N, b - 1, g[b - 1])
         PROVE  g[b] = MoveBucket(t, b, g[b - 1])
    <3>1. b \in Nat /\ g[b - 1] \in Tables(N)
      BY <2>6, <2>11
    <3>x. PICK x \in Tables(N) : x = g[b - 1]
      BY <3>1
    <3>2. st[<<b, x>>] = MoveBucket(t, b, x)
      BY <2>s, <2>11, <3>1, <3>x
    <3> QED BY <2>10, <3>x, <3>2
  <2>12. \A b \in 0 .. M : MovedTo(t, N, b, g[b])
    BY <2>M, <2>1, <2>2, <2>10, <2>11, MoveLoop
  <2>13. Eq(g)
    <3>1. ASSUME NEW b \in 1 .. M PROVE g[b] = MoveBucket(t, b, g[b - 1])
      <4>1. b - 1 \in 0 .. M
        OBVIOUS
      <4> QED BY <2>11, <2>12, <4>1
    <3>2. ASSUME NEW b \in 0 .. t.num_buckets
          PROVE  g[b] = IF b = 0 THEN Fresh(BucketsFor(n))
                        ELSE IF t.states[b - 1] = "FILLED" THEN Place(g[b - 1], t.keys[b - 1])
                        ELSE g[b - 1]
      <4>1. b = 0 \/ b \in 1 .. M
        BY <2>M
      <4> QED BY <2>N, <2>10, <3>1, <4>1 DEF MoveBucket
    <3> QED BY <2>M, <2>9, <3>2
  <2> HIDE DEF Eq
  <2>14. Eq(v)
    BY <2>v, <2>13
  <2>15. v[0] = Fresh(N) /\ \A b \in 1 .. t.num_buckets : v[b] = MoveBucket(t, b, v[b - 1])
    <3>1. 0 \in 0 .. t.num_buckets /\ \A b \in 1 .. t.num_buckets : b \in 0 .. t.num_buckets /\ b # 0
      BY <1>1
    <3>2. \A b \in 0 .. t.num_buckets :
            v[b] = IF b = 0 THEN Fresh(N) ELSE MoveBucket(t, b, v[b - 1])
      BY <2>4, <2>14
    <3> QED BY <3>1, <3>2
  <2>16. MovedTo(t, N, t.num_buckets, v[t.num_buckets])
    <3>1. t.num_buckets \in 0 .. t.num_buckets
      BY <1>1
    <3> QED BY <2>1, <2>2, <2>15, <3>1, MoveLoop
  <2>17. KeysBefore(t, t.num_buckets) = ElemsOf(t)
    <3>1. \A d \in FilledOf(t) : d < t.num_buckets
      BY <1>1
    <3> QED BY <3>1 DEF KeysBefore, ElemsOf
  <2> QED BY <1>r, <2>1, <2>3, <2>16, <2>17 DEF MovedTo
<1> QED BY <1>2, <1>3

(* clear empties a table and keeps its buckets.                            *)
LEMMA ClearedSound ==
  ASSUME NEW t, Sound(t)
  PROVE  /\ Sound(Cleared(t)) /\ ElemsOf(Cleared(t)) = {}
<1>n. PICK n : n = t.num_buckets
  OBVIOUS
<1>1. /\ n \in Nat /\ t \in Tables(n)
      /\ t.states \in [0 .. n - 1 -> {"INACTIVE", "ACTIVE", "FILLED"}]
      /\ t.keys \in [0 .. n - 1 -> Nat]
  BY <1>n, TableTypes DEF Sound, TableType
<1>s. PICK ss : ss = [b \in DOMAIN t.states |->
                        IF t.states[b] = "FILLED" THEN "INACTIVE" ELSE t.states[b]]
  OBVIOUS
<1>k. PICK kk : kk = [b \in DOMAIN t.keys |-> 0]
  OBVIOUS
<1>2. ss \in [0 .. n - 1 -> {"INACTIVE", "ACTIVE", "FILLED"}]
      /\ \A b \in 0 .. n - 1 : ss[b] # "FILLED"
  BY <1>s, <1>1
<1>3. kk \in [0 .. n - 1 -> Nat]
  BY <1>k, <1>1
<1>u. PICK u : u = Cleared(t)
  OBVIOUS
<1>4. u = [num_buckets |-> n, num_filled |-> 0, max_probe_length |-> -1,
           states |-> ss, keys |-> kk]
  <2>1. PICK nf, mp, s0, k0 :
          t = [num_buckets |-> n, num_filled |-> nf, max_probe_length |-> mp,
               states |-> s0, keys |-> k0]
    BY <1>1 DEF Tables
  <2>2. PICK t1 : t1 = [t EXCEPT !.states = ss]
    OBVIOUS
  <2>3. t1 = [num_buckets |-> n, num_filled |-> nf, max_probe_length |-> mp,
              states |-> ss, keys |-> k0]
    BY <2>1, <2>2
  <2>4. PICK t2 : t2 = [t1 EXCEPT !.keys = kk]
    OBVIOUS
  <2>5. t2 = [num_buckets |-> n, num_filled |-> nf, max_probe_length |-> mp,
              states |-> ss, keys |-> kk]
    BY <2>3, <2>4
  <2>6. PICK t3 : t3 = [t2 EXCEPT !.num_filled = 0]
    OBVIOUS
  <2>7. t3 = [num_buckets |-> n, num_filled |-> 0, max_probe_length |-> mp,
              states |-> ss, keys |-> kk]
    BY <2>5, <2>6
  <2>8. t1.keys = t.keys
    BY <2>1, <2>3
  <2>9. u = [t3 EXCEPT !.max_probe_length = -1]
    BY <1>s, <1>k, <1>u, <2>2, <2>4, <2>6, <2>8 DEF Cleared
  <2> QED BY <2>7, <2>9
<1>5. /\ u.num_buckets = n /\ u.num_filled = 0 /\ u.max_probe_length = -1
      /\ u.states = ss /\ u.keys = kk
  BY <1>4
<1>6. TableType(u)
  <2>1. u \in Tables(n)
    BY <1>2, <1>3, <1>4 DEF Tables
  <2> QED BY <1>1, <1>5, <2>1 DEF TableType
<1>7. FilledOf(u) = {}
  BY <1>2, <1>5 DEF FilledOf
<1>8. UniqueKeys(u) /\ AllReached(u) /\ ElemsOf(u) = {}
  BY <1>7 DEF UniqueKeys, AllReached, ElemsOf
<1>9. Counted(u)
  BY <1>5, <1>7, FS_EmptySet DEF Counted
<1> QED BY <1>u, <1>6, <1>8, <1>9 DEF Sound

(* erase at a bucket removes its key.                                      *)
LEMMA ErasedSound ==
  ASSUME NEW t, Sound(t), NEW b \in FilledOf(t)
  PROVE  /\ Sound(Erased(t, b)) /\ ElemsOf(Erased(t, b)) = ElemsOf(t) \ {t.keys[b]}
<1>n. PICK n : n = t.num_buckets
  OBVIOUS
<1>1. /\ n \in Nat /\ t \in Tables(n) /\ t.num_filled \in Nat
      /\ t.max_probe_length \in Int /\ t.max_probe_length >= -1
      /\ t.states \in [0 .. n - 1 -> {"INACTIVE", "ACTIVE", "FILLED"}]
      /\ t.keys \in [0 .. n - 1 -> Nat]
      /\ FilledOf(t) = {c \in 0 .. n - 1 : t.states[c] = "FILLED"}
  BY <1>n, TableTypes DEF Sound, TableType
<1>s. PICK ss : ss = [t.states EXCEPT ![b] = "ACTIVE"]
  OBVIOUS
<1>k. PICK kk : kk = [t.keys EXCEPT ![b] = 0]
  OBVIOUS
<1>u. PICK u : u = Erased(t, b)
  OBVIOUS
<1>2. u = [num_buckets |-> n, num_filled |-> t.num_filled - 1,
           max_probe_length |-> t.max_probe_length, states |-> ss, keys |-> kk]
  <2>1. PICK nf, mp, s0, k0 :
          t = [num_buckets |-> n, num_filled |-> nf, max_probe_length |-> mp,
               states |-> s0, keys |-> k0]
    BY <1>1 DEF Tables
  <2>2. PICK t1 : t1 = [t EXCEPT !.states = ss]
    OBVIOUS
  <2>3. t1 = [num_buckets |-> n, num_filled |-> nf, max_probe_length |-> mp,
              states |-> ss, keys |-> k0]
    BY <2>1, <2>2
  <2>4. PICK t2 : t2 = [t1 EXCEPT !.keys = kk]
    OBVIOUS
  <2>5. t2 = [num_buckets |-> n, num_filled |-> nf, max_probe_length |-> mp,
              states |-> ss, keys |-> kk]
    BY <2>3, <2>4
  <2>6. t1.keys = t.keys /\ t2.num_filled = t.num_filled /\ t.num_filled = nf
        /\ t.max_probe_length = mp
    BY <2>1, <2>3, <2>5
  <2>7. u = [t2 EXCEPT !.num_filled = nf - 1]
    BY <1>s, <1>k, <1>u, <2>2, <2>4, <2>6 DEF Erased
  <2> QED BY <2>5, <2>6, <2>7
<1>3. /\ u.num_buckets = n /\ u.num_filled = t.num_filled - 1
      /\ u.max_probe_length = t.max_probe_length /\ u.states = ss /\ u.keys = kk
  BY <1>2
<1>4. b \in 0 .. n - 1 /\ t.states[b] = "FILLED"
  BY <1>1
<1>5. /\ ss[b] = "ACTIVE" /\ \A c \in 0 .. n - 1 : c # b => ss[c] = t.states[c]
      /\ ss \in [0 .. n - 1 -> {"INACTIVE", "ACTIVE", "FILLED"}]
  <2>1. PICK s0 : s0 = t.states
    OBVIOUS
  <2>2. s0 \in [0 .. n - 1 -> {"INACTIVE", "ACTIVE", "FILLED"}] /\ ss = [s0 EXCEPT ![b] = "ACTIVE"]
    BY <1>1, <1>s, <2>1
  <2>3. /\ ss[b] = "ACTIVE" /\ \A c \in 0 .. n - 1 : c # b => ss[c] = s0[c]
        /\ ss \in [0 .. n - 1 -> {"INACTIVE", "ACTIVE", "FILLED"}]
    BY <1>4, <2>2
  <2> QED BY <2>1, <2>3
<1>6. /\ \A c \in 0 .. n - 1 : c # b => kk[c] = t.keys[c]
      /\ kk \in [0 .. n - 1 -> Nat]
  <2>1. PICK k0 : k0 = t.keys
    OBVIOUS
  <2>2. k0 \in [0 .. n - 1 -> Nat] /\ kk = [k0 EXCEPT ![b] = 0]
    BY <1>1, <1>k, <2>1
  <2>3. /\ \A c \in 0 .. n - 1 : c # b => kk[c] = k0[c]
        /\ kk \in [0 .. n - 1 -> Nat]
    BY <1>4, <2>2
  <2> QED BY <2>1, <2>3
<1>7. FilledOf(u) = FilledOf(t) \ {b}
  <2>1. FilledOf(u) = {c \in 0 .. n - 1 : ss[c] = "FILLED"}
    BY <1>3, <1>5 DEF FilledOf
  <2> QED BY <1>1, <1>4, <1>5, <2>1
<1>8. Counted(t) /\ IsFiniteSet(FilledOf(t)) /\ t.num_filled # 0
  BY ElemsCounted, FilledOfFinite DEF Sound
<1>9. Counted(u)
  BY <1>1, <1>3, <1>7, <1>8, FS_RemoveElement DEF Counted
<1>10. TableType(u)
  <2>1. t.num_filled - 1 \in Nat
    BY <1>1, <1>8
  <2>2. u \in Tables(n)
    BY <1>1, <1>2, <1>5, <1>6, <2>1 DEF Tables
  <2> QED BY <1>1, <1>3, <2>2 DEF TableType
<1>11. \A c \in FilledOf(u) : c \in FilledOf(t) /\ c # b /\ u.keys[c] = t.keys[c]
  BY <1>1, <1>3, <1>6, <1>7
<1>12. UniqueKeys(u)
  BY <1>11 DEF Sound, UniqueKeys
<1>13. \A kc, p : BucketAt(u, kc, p) = BucketAt(t, kc, p)
  BY <1>n, <1>3 DEF BucketAt
<1>14. AllReached(u)
  <2> SUFFICES ASSUME NEW c \in FilledOf(u)
               PROVE  \E o \in Nat : Reaches(u, u.keys[c], o, c)
    BY DEF AllReached
  <2>1. PICK kc : kc = t.keys[c] /\ kc = u.keys[c]
    BY <1>11
  <2>2. PICK o \in Nat : Reaches(t, kc, o, c)
    BY <1>11, <2>1 DEF Sound, AllReached
  <2>3. kc \in Nat /\ n # 0
    BY <1>1, <1>4, <1>11, <2>1
  <2>4. ASSUME NEW p \in 0 .. o - 1 PROVE ~Stopping(u, kc, p)
    <3>p. p \in Nat
      OBVIOUS
    <3>1. PICK d : d = BucketAt(t, kc, p) /\ d \in 0 .. n - 1
      BY <1>n, <1>1, <2>3, <3>p, BucketInTable
    <3>2. ~Stopping(t, kc, p)
      BY <2>2 DEF Reaches
    <3>3. ~(t.states[d] = "FILLED" /\ t.keys[d] = kc) /\ t.states[d] # "INACTIVE"
      BY <3>1, <3>2 DEF Stopping, KeyAt
    <3>4. BucketAt(u, kc, p) = d
      BY <1>13, <3>1
    <3>5. CASE d = b
      BY <1>3, <1>5, <3>4, <3>5 DEF Stopping, KeyAt
    <3>6. CASE d # b
      <4>1. u.states[d] = t.states[d] /\ u.keys[d] = t.keys[d]
        BY <1>3, <1>5, <1>6, <3>1, <3>6
      <4> QED BY <3>3, <3>4, <4>1 DEF Stopping, KeyAt
    <3> QED BY <3>5, <3>6
  <2>5. o \in 0 .. u.max_probe_length /\ BucketAt(u, kc, o) = c
    BY <1>3, <1>13, <2>2 DEF Reaches
  <2>6. Reaches(u, kc, o, c)
    BY <2>4, <2>5 DEF Reaches
  <2> QED BY <2>1, <2>6
<1>15. ElemsOf(u) = ElemsOf(t) \ {t.keys[b]}
  <2>1. \A c \in FilledOf(t) : c # b => t.keys[c] # t.keys[b]
    BY DEF Sound, UniqueKeys
  <2> QED BY <1>7, <1>11, <2>1 DEF ElemsOf
<1> QED BY <1>u, <1>9, <1>10, <1>12, <1>14, <1>15 DEF Sound

-----------------------------------------------------------------------------
(* Iterators.                                                              *)

(* The iterator is at an element or at the end.                            *)
OnTable(t, i) == i = end(t) \/ i \in FilledOf(t)

LEMMA NextElement ==
  ASSUME NEW t, Sound(t), NEW b \in Nat
  PROVE  /\ OnTable(t, NextFrom(t, b)) /\ NextFrom(t, b) \in Nat
         /\ \A c \in FilledOf(t) : c < NextFrom(t, b) => c < b
         /\ NextFrom(t, b) # end(t) => NextFrom(t, b) >= b
<1>1. t.num_buckets \in Nat /\ FilledOf(t) \subseteq 0 .. t.num_buckets - 1
  BY TableTypes DEF Sound
<1> DEFINE later == {c \in FilledOf(t) : c >= b}
<1>2. CASE later = {}
  <2>1. NextFrom(t, b) = t.num_buckets
    BY <1>2 DEF NextFrom
  <2>2. \A c \in FilledOf(t) : c < b
    BY <1>1, <1>2
  <2> QED BY <1>1, <2>1, <2>2 DEF OnTable, end
<1>3. CASE later # {}
  <2>m. PICK m : m = Min(later)
    OBVIOUS
  <2>1. NextFrom(t, b) = m
    BY <1>3, <2>m DEF NextFrom
  <2>2. later \subseteq Nat
    BY <1>1
  <2>3. m \in later /\ \A c \in later : m <= c
    BY <1>3, <2>m, <2>2, MinNat
  <2>4. m \in FilledOf(t) /\ m >= b /\ m \in Nat
    BY <1>1, <2>3
  <2>5. ASSUME NEW c \in FilledOf(t), c < m PROVE c < b
    <3>1. c \in Nat /\ ~(m <= c)
      BY <1>1, <2>4, <2>5
    <3>2. c \notin later
      BY <2>3, <3>1
    <3> QED BY <3>1, <3>2
  <2> QED BY <2>1, <2>4, <2>5 DEF OnTable
<1> QED BY <1>2, <1>3

(* A walk starts before all elements and ends behind them.                 *)
LEMMA WalkEnds ==
  ASSUME NEW t, Sound(t)
  PROVE  /\ OnTable(t, begin(t)) /\ KeysBefore(t, begin(t)) = {}
         /\ KeysBefore(t, end(t)) = ElemsOf(t)
<1>1. t.num_buckets \in Nat /\ FilledOf(t) \subseteq 0 .. t.num_buckets - 1
  BY TableTypes DEF Sound
<1>2. OnTable(t, begin(t)) /\ \A c \in FilledOf(t) : c < begin(t) => c < 0
  BY NextElement DEF begin
<1>3. \A c \in FilledOf(t) : ~(c < 0) /\ c < end(t)
  BY <1>1 DEF end
<1> QED BY <1>2, <1>3 DEF KeysBefore, ElemsOf

(* ++ passes the element the iterator is at and no other one.              *)
LEMMA WalkStep ==
  ASSUME NEW t, Sound(t), NEW b, OnTable(t, b), b # end(t)
  PROVE  /\ b \in FilledOf(t) /\ b \in Nat
         /\ OnTable(t, goto_next_element(t, b))
         /\ b < goto_next_element(t, b)
         /\ \A c \in FilledOf(t) : c < goto_next_element(t, b) <=> (c < b \/ c = b)
         /\ KeysBefore(t, goto_next_element(t, b)) = KeysBefore(t, b) \cup {t.keys[b]}
<1>1. t.num_buckets \in Nat /\ FilledOf(t) \subseteq 0 .. t.num_buckets - 1
  BY TableTypes DEF Sound
<1>2. b \in FilledOf(t) /\ b \in Nat /\ b < t.num_buckets
  BY <1>1 DEF OnTable
<1>n. PICK n : n = goto_next_element(t, b)
  OBVIOUS
<1>3. /\ OnTable(t, n) /\ n \in Nat /\ (n # end(t) => n >= b + 1)
      /\ \A c \in FilledOf(t) : c < n => c < b + 1
  BY <1>n, <1>2, NextElement DEF goto_next_element
<1>4. n >= b + 1
  BY <1>1, <1>2, <1>3 DEF end
<1>5. \A c \in FilledOf(t) : c < n <=> (c < b \/ c = b)
  <2> SUFFICES ASSUME NEW c \in FilledOf(t) PROVE c < n <=> (c < b \/ c = b)
    OBVIOUS
  <2>1. c \in Nat /\ (c < n => c < b + 1)
    BY <1>1, <1>3
  <2> QED BY <1>2, <1>3, <1>4, <2>1
<1>6. KeysBefore(t, n) = KeysBefore(t, b) \cup {t.keys[b]}
  BY <1>2, <1>5 DEF KeysBefore
<1>7. b < n
  BY <1>2, <1>3, <1>4
<1> QED BY <1>n, <1>2, <1>3, <1>5, <1>6, <1>7

(* The elements are those before the iterator and those from it on.        *)
LEMMA WalkSplits ==
  ASSUME NEW t, Sound(t), NEW b, OnTable(t, b)
  PROVE  ElemsOf(t) = KeysBefore(t, b) \cup KeysFrom(t, b)
<1>1. t.num_buckets \in Nat /\ FilledOf(t) \subseteq 0 .. t.num_buckets - 1
  BY TableTypes DEF Sound
<1>2. b \in Nat
  BY <1>1 DEF OnTable, end
<1>3. \A c \in FilledOf(t) : c < b \/ c >= b
  BY <1>1, <1>2
<1> QED BY <1>3 DEF ElemsOf, KeysBefore, KeysFrom

-----------------------------------------------------------------------------
(* This set and its copy.                                                  *)

(* This set is a table in which the operations find what was put there.    *)
LEMMA ThisSound ==
  ASSUME IInv
  PROVE  /\ Sound(this) /\ FilledOf(this) = Filled /\ ElemsOf(this) = Elems
         /\ this.num_buckets = NumBuckets /\ this.num_filled = num_filled
         /\ this.keys = keys /\ this.states = states
<1>t. PICK t : t = this
  OBVIOUS
<1>1. /\ t.num_buckets = NumBuckets /\ t.num_filled = num_filled
      /\ t.max_probe_length = max_probe_length /\ t.states = states /\ t.keys = keys
  BY <1>t DEF this
<1>2. /\ states \in [Buckets -> {"INACTIVE", "ACTIVE", "FILLED"}]
      /\ keys \in [Buckets -> Nat] /\ num_filled \in Nat
      /\ max_probe_length \in Int /\ max_probe_length >= -1
      /\ Buckets = 0 .. NumBuckets - 1 /\ NumBuckets \in Nat
  <2>1. Keys \cup {0} \subseteq Nat
    BY CapacityAssumption
  <2>2. keys \in [Buckets -> Keys \cup {0}]
    BY DEF IInv, TypeOK
  <2>3. keys \in [Buckets -> Nat]
    BY <2>1, <2>2
  <2> QED BY <2>3, SomeBuckets DEF IInv, TypeOK, Buckets
<1>3. TableType(t)
  <2>1. t = [num_buckets |-> NumBuckets, states |-> states, keys |-> keys,
             num_filled |-> num_filled, max_probe_length |-> max_probe_length]
    BY <1>t DEF this
  <2>2. t \in Tables(NumBuckets)
    BY <1>2, <2>1 DEF Tables
  <2> QED BY <1>1, <1>2, <2>2 DEF TableType
<1>4. FilledOf(t) = Filled
  BY <1>1, <1>2, <1>3, TableTypes DEF Filled
<1>5. UniqueKeys(t) /\ Counted(t) /\ ElemsOf(t) = Elems
  BY <1>1, <1>4 DEF IInv, NoDuplicates, CountExact, UniqueKeys, Counted, ElemsOf, Elems
<1>6. \A k, o : BucketAt(t, k, o) = Probe(k, o) /\ (Stopping(t, k, o) <=> StopsAt(k, o))
  BY <1>1 DEF BucketAt, Probe, Stopping, KeyAt, StopsAt, Holds
<1>7. AllReached(t)
  <2> SUFFICES ASSUME NEW b \in Filled PROVE \E o \in Nat : Reaches(t, keys[b], o, b)
    BY <1>1, <1>4 DEF AllReached
  <2>1. PICK o \in 0 .. max_probe_length : FirstStop(keys[b], o) /\ Probe(keys[b], o) = b
    BY DEF IInv, Reach
  <2>2. Reaches(t, keys[b], o, b)
    BY <1>1, <1>6, <2>1 DEF Reaches, FirstStop
  <2> QED BY <2>1, <2>2
<1> QED BY <1>t, <1>1, <1>3, <1>4, <1>5, <1>7 DEF Sound

(* What the loops have done so far.                                        *)
CopyingInv ==
  loop = "copying" =>
    /\ OnTable(this, it) /\ ElemsOf(copy) = KeysBefore(this, it)
    /\ copy.num_buckets > num_filled

AssigningInv ==
  loop = "assigning" => OnTable(copy, it) /\ Elems = KeysBefore(copy, it)

SweepingInv ==
  loop = "sweeping" => OnTable(this, it) /\ kept = KeysBefore(this, it)

CopiesInv ==
  /\ IInv /\ Elems \subseteq Keys
  /\ Sound(copy) /\ ElemsOf(copy) \subseteq Keys
  /\ CopyingInv /\ AssigningInv /\ SweepingInv

(* A step of the set keeps it a set of keys.                               *)
LEMMA KeysKept ==
  ASSUME Elems \subseteq Keys, [Abstract!Next]_<<Elems, res>>
  PROVE  Elems' \subseteq Keys
BY DEF Abstract!Next, Abstract!CheckInsert, Abstract!InsertUnique, Abstract!Erase,
       Abstract!EraseAt, Abstract!Clear

(* Nothing is said of the loops while none runs.                           *)
LEMMA NoLoop ==
  ASSUME loop' = "none"
  PROVE  CopyingInv' /\ AssigningInv' /\ SweepingInv'
BY DEF CopyingInv, AssigningInv, SweepingInv

LEMMA OperateStep ==
  ASSUME CopiesInv, Operate
  PROVE  CopiesInv' /\ [Abstract!Next]_<<Elems, res>>
<1>1. loop' = "none" /\ copy' = copy /\ Next
  BY DEF Operate, copyVars
<1>2. IInv' /\ [Abstract!Next]_<<Elems, res>>
  BY <1>1, StepSimulation DEF CopiesInv
<1>3. Elems' \subseteq Keys
  BY <1>2, KeysKept DEF CopiesInv
<1>4. Sound(copy)' /\ (ElemsOf(copy) \subseteq Keys)'
  BY <1>1 DEF CopiesInv
<1>5. CopyingInv' /\ AssigningInv' /\ SweepingInv'
  BY <1>1, NoLoop
<1> QED BY <1>2, <1>3, <1>4, <1>5 DEF CopiesInv

(* A step that leaves this set alone.                                      *)
LEMMA ThisKept ==
  ASSUME CopiesInv, UNCHANGED vars
  PROVE  /\ IInv' /\ Elems' = Elems /\ Elems' \subseteq Keys /\ this' = this
         /\ num_filled' = num_filled /\ UNCHANGED <<Elems, res>>
<1>1. IInv
  BY DEF CopiesInv
<1>2. IInv' /\ Elems' = Elems
  BY <1>1 DEF vars, IInv, TypeOK, NoDuplicates, Reach, CountExact, Filled,
              FirstStop, StopsAt, Holds, Elems
<1>3. this' = this
  BY DEF vars, this
<1> QED BY <1>2, <1>3 DEF CopiesInv, vars

(* The copy is empty and large enough when the loop that fills it starts.  *)
LEMMA StartCopying ==
  ASSUME CopiesInv, NEW t, Sound(t), ElemsOf(t) = {}, copy' = Reserve(t, num_filled),
         loop' = "copying", it' = begin(this), UNCHANGED <<vars, kept>>
  PROVE  CopiesInv' /\ [Abstract!Next]_<<Elems, res>>
<1>1. /\ IInv' /\ Elems' \subseteq Keys /\ this' = this
      /\ num_filled' = num_filled /\ UNCHANGED <<Elems, res>>
  BY ThisKept
<1>2. num_filled \in Nat /\ Sound(this)
  BY ThisSound DEF CopiesInv, IInv, TypeOK
<1>r. PICK u : u = Reserve(t, num_filled)
  OBVIOUS
<1>3. Sound(u) /\ ElemsOf(u) = {} /\ u.num_buckets >= num_filled + num_filled \div 2 + 1
  BY <1>r, <1>2, ReserveSound
<1>4. u.num_buckets \in Nat
  BY <1>3 DEF Sound, TableType
<1>5. u.num_buckets > num_filled
  BY <1>2, <1>3, <1>4
<1>6. OnTable(this, begin(this)) /\ KeysBefore(this, begin(this)) = {}
  BY <1>2, WalkEnds
<1>7. CopyingInv'
  BY <1>r, <1>1, <1>3, <1>5, <1>6 DEF CopyingInv
<1>8. AssigningInv' /\ SweepingInv'
  BY DEF AssigningInv, SweepingInv
<1> QED BY <1>r, <1>1, <1>3, <1>7, <1>8 DEF CopiesInv

LEMMA CopyConstructStep ==
  ASSUME CopiesInv, CopyConstruct
  PROVE  CopiesInv' /\ [Abstract!Next]_<<Elems, res>>
<1>1. Sound(NoTable) /\ ElemsOf(NoTable) = {}
  BY FreshSound DEF NoTable
<1> QED BY <1>1, StartCopying DEF CopyConstruct

LEMMA AssignToCopyStep ==
  ASSUME CopiesInv, AssignToCopy
  PROVE  CopiesInv' /\ [Abstract!Next]_<<Elems, res>>
<1>1. Sound(Cleared(copy)) /\ ElemsOf(Cleared(copy)) = {}
  BY ClearedSound DEF CopiesInv
<1> QED BY <1>1, StartCopying DEF AssignToCopy

LEMMA CopyElementStep ==
  ASSUME CopiesInv, CopyElement
  PROVE  CopiesInv' /\ [Abstract!Next]_<<Elems, res>>
<1>1. /\ IInv' /\ Elems' \subseteq Keys /\ this' = this
      /\ num_filled' = num_filled /\ UNCHANGED <<Elems, res>>
  BY ThisKept DEF CopyElement
<1>2. /\ Sound(this) /\ Sound(copy) /\ ElemsOf(copy) \subseteq Keys /\ this.keys = keys
      /\ FilledOf(this) = Filled /\ Elems \subseteq Keys
  BY ThisSound DEF CopiesInv
<1>3. /\ OnTable(this, it) /\ ElemsOf(copy) = KeysBefore(this, it)
      /\ copy.num_buckets > num_filled /\ it # end(this)
      /\ copy.num_filled < copy.num_buckets /\ loop' = "copying"
      /\ it' = goto_next_element(this, it) /\ copy' = Insert(copy, keys[it])
  BY DEF CopyElement, CopiesInv, CopyingInv
<1>k. PICK k : k = keys[it]
  OBVIOUS
<1>n. PICK n : n = goto_next_element(this, it)
  OBVIOUS
<1>4. it \in Filled /\ OnTable(this, n) /\ KeysBefore(this, n) = KeysBefore(this, it) \cup {k}
  BY <1>k, <1>n, <1>2, <1>3, WalkStep
<1>5. k \in Keys /\ k \in Nat
  BY <1>k, <1>2, <1>4, CapacityAssumption DEF Elems
<1>u. PICK u : u = Insert(copy, k)
  OBVIOUS
<1>6. Sound(u) /\ ElemsOf(u) = ElemsOf(copy) \cup {k} /\ u.num_buckets = copy.num_buckets
  BY <1>u, <1>2, <1>3, <1>5, InsertSound
<1>7. copy' = u /\ it' = n
  BY <1>k, <1>n, <1>u, <1>3
<1>8. CopyingInv'
  BY <1>1, <1>3, <1>4, <1>6, <1>7 DEF CopyingInv
<1>9. AssigningInv' /\ SweepingInv'
  BY <1>3 DEF AssigningInv, SweepingInv
<1>10. ElemsOf(u) \subseteq Keys
  BY <1>2, <1>5, <1>6
<1> QED BY <1>1, <1>6, <1>7, <1>8, <1>9, <1>10 DEF CopiesInv

LEMMA AssignToThisStep ==
  ASSUME CopiesInv, AssignToThis
  PROVE  CopiesInv' /\ [Abstract!Next]_<<Elems, res>>
<1>1. Clear /\ loop' = "assigning" /\ it' = begin(copy) /\ copy' = copy
  BY DEF AssignToThis
<1>2. IInv' /\ Abstract!Clear
  BY <1>1, ClearStep DEF CopiesInv
<1>3. Elems' = {} /\ [Abstract!Next]_<<Elems, res>>
  BY <1>2 DEF Abstract!Next, Abstract!Clear
<1>4. Sound(copy) /\ ElemsOf(copy) \subseteq Keys
  BY DEF CopiesInv
<1>5. OnTable(copy, begin(copy)) /\ KeysBefore(copy, begin(copy)) = {}
  BY <1>4, WalkEnds
<1>6. AssigningInv'
  BY <1>1, <1>3, <1>5 DEF AssigningInv
<1>7. CopyingInv' /\ SweepingInv'
  BY <1>1 DEF CopyingInv, SweepingInv
<1> QED BY <1>1, <1>2, <1>3, <1>4, <1>6, <1>7 DEF CopiesInv

LEMMA AssignElementStep ==
  ASSUME CopiesInv, AssignElement
  PROVE  CopiesInv' /\ [Abstract!Next]_<<Elems, res>>
<1>k. PICK k : k = copy.keys[it]
  OBVIOUS
<1>n. PICK n : n = goto_next_element(copy, it)
  OBVIOUS
<1>1. /\ CheckInsert(k) /\ loop' = "assigning" /\ it' = n /\ copy' = copy /\ it # end(copy)
      /\ OnTable(copy, it) /\ Elems = KeysBefore(copy, it)
  BY <1>k, <1>n DEF AssignElement, CopiesInv, AssigningInv
<1>2. Sound(copy) /\ ElemsOf(copy) \subseteq Keys
  BY DEF CopiesInv
<1>3. /\ it \in FilledOf(copy) /\ OnTable(copy, n)
      /\ KeysBefore(copy, n) = KeysBefore(copy, it) \cup {k}
  BY <1>k, <1>n, <1>1, <1>2, WalkStep
<1>4. k \in Keys
  BY <1>k, <1>2, <1>3 DEF ElemsOf
<1>5. IInv' /\ Abstract!CheckInsert(k)
  BY <1>1, <1>4, CheckInsertStep DEF CopiesInv
<1>6. Elems' = Elems \cup {k} /\ [Abstract!Next]_<<Elems, res>>
  BY <1>4, <1>5 DEF Abstract!Next, Abstract!CheckInsert
<1>7. AssigningInv'
  BY <1>1, <1>3, <1>6 DEF AssigningInv
<1>8. CopyingInv' /\ SweepingInv'
  BY <1>1 DEF CopyingInv, SweepingInv
<1>9. Elems' \subseteq Keys
  BY <1>4, <1>6 DEF CopiesInv
<1> QED BY <1>1, <1>2, <1>5, <1>6, <1>7, <1>8, <1>9 DEF CopiesInv

LEMMA StartSweepStep ==
  ASSUME CopiesInv, StartSweep
  PROVE  CopiesInv' /\ [Abstract!Next]_<<Elems, res>>
<1>1. /\ IInv' /\ Elems' \subseteq Keys /\ this' = this /\ UNCHANGED <<Elems, res>>
  BY ThisKept DEF StartSweep
<1>2. Sound(this) /\ Sound(copy) /\ ElemsOf(copy) \subseteq Keys
  BY ThisSound DEF CopiesInv
<1>3. /\ it' \in {begin(this)} \cup {find(this, k) : k \in Keys}
      /\ kept' = KeysBefore(this, it') /\ loop' = "sweeping" /\ copy' = copy
  BY DEF StartSweep
<1>4. ASSUME NEW k \in Keys PROVE OnTable(this, find(this, k))
  <2>1. k \in Nat
    BY CapacityAssumption
  <2>2. Finds(this, k) => find(this, k) \in FilledOf(this)
    BY <1>2, <2>1, SearchExact
  <2>3. ~Finds(this, k) => find(this, k) = end(this)
    BY DEF find
  <2> QED BY <2>2, <2>3 DEF OnTable
<1>5. OnTable(this, begin(this))
  BY <1>2, WalkEnds
<1>6. OnTable(this, it')
  BY <1>3, <1>4, <1>5
<1>7. SweepingInv'
  BY <1>1, <1>3, <1>6 DEF SweepingInv
<1>8. CopyingInv' /\ AssigningInv'
  BY <1>3 DEF CopyingInv, AssigningInv
<1> QED BY <1>1, <1>2, <1>3, <1>7, <1>8 DEF CopiesInv

LEMMA AdvanceStep ==
  ASSUME CopiesInv, Advance
  PROVE  CopiesInv' /\ [Abstract!Next]_<<Elems, res>>
<1>1. /\ IInv' /\ Elems' \subseteq Keys /\ this' = this /\ UNCHANGED <<Elems, res>>
  BY ThisKept DEF Advance
<1>2. Sound(this) /\ Sound(copy) /\ ElemsOf(copy) \subseteq Keys /\ this.keys = keys
  BY ThisSound DEF CopiesInv
<1>n. PICK n : n = goto_next_element(this, it)
  OBVIOUS
<1>3. /\ it' = n /\ kept' = kept \cup {keys[it]} /\ loop' = "sweeping" /\ copy' = copy
      /\ it # end(this) /\ OnTable(this, it) /\ kept = KeysBefore(this, it)
  BY <1>n DEF Advance, CopiesInv, SweepingInv
<1>4. OnTable(this, n) /\ KeysBefore(this, n) = KeysBefore(this, it) \cup {keys[it]}
  BY <1>n, <1>2, <1>3, WalkStep
<1>5. SweepingInv'
  BY <1>1, <1>3, <1>4 DEF SweepingInv
<1>6. CopyingInv' /\ AssigningInv'
  BY <1>3 DEF CopyingInv, AssigningInv
<1> QED BY <1>1, <1>2, <1>3, <1>5, <1>6 DEF CopiesInv

LEMMA EraseAtStep ==
  ASSUME CopiesInv, EraseAt
  PROVE  CopiesInv' /\ [Abstract!Next]_<<Elems, res>>
<1>n. PICK n : n = goto_next_element(this, it)
  OBVIOUS
<1>1. /\ Sound(this) /\ Sound(copy) /\ ElemsOf(copy) \subseteq Keys /\ IInv
      /\ FilledOf(this) = Filled /\ this.keys = keys /\ this.num_buckets = NumBuckets
  BY ThisSound DEF CopiesInv
<1>2. /\ it # end(this) /\ it' = n /\ loop' = "sweeping" /\ copy' = copy
      /\ states' = [states EXCEPT ![it] = "ACTIVE"] /\ num_filled' = num_filled - 1
      /\ UNCHANGED <<keys, max_probe_length, res, kept>>
      /\ OnTable(this, it) /\ kept = KeysBefore(this, it)
  BY <1>n DEF EraseAt, CopiesInv, SweepingInv
<1>3. /\ it \in Filled /\ OnTable(this, n) /\ it < n /\ it \in Nat
      /\ \A c \in Filled : c < n <=> (c < it \/ c = it)
  BY <1>n, <1>1, <1>2, WalkStep
<1>4. res' \in BOOLEAN
  BY <1>1, <1>2 DEF IInv, TypeOK
<1>5. /\ IInv' /\ Filled' = Filled \ {it}
      /\ Elems' = Elems \ {keys[it]} /\ keys[it] \in Elems
  BY <1>1, <1>2, <1>3, <1>4, HoleStep
<1>6. keys[it] \in Keys /\ Elems' \subseteq Keys
  BY <1>5 DEF CopiesInv
<1>7. Abstract!Next
  BY <1>2, <1>5, <1>6 DEF Abstract!Next, Abstract!EraseAt
<1>8. this'.num_buckets = NumBuckets /\ this'.keys = keys /\ FilledOf(this') = Filled'
  <2>1. this'.num_buckets = NumBuckets /\ this'.keys = keys' /\ this'.states = states'
    BY DEF this
  <2>2. DOMAIN states' = Buckets
    BY <1>5 DEF IInv, TypeOK
  <2> QED BY <1>2, <2>1, <2>2 DEF FilledOf, Filled
<1>9. OnTable(this', n)
  <2>1. n # it
    BY <1>3
  <2>2. end(this') = end(this)
    BY <1>1, <1>8 DEF end
  <2> QED BY <1>1, <1>3, <1>5, <1>8, <2>1, <2>2 DEF OnTable
<1>10. KeysBefore(this', n) = KeysBefore(this, it)
  <2>1. {d \in FilledOf(this') : d < n} = {d \in FilledOf(this) : d < it}
    <3>1. ~(it < it)
      BY <1>3
    <3> QED BY <1>1, <1>3, <1>5, <1>8, <3>1
  <2> QED BY <1>1, <1>8, <2>1 DEF KeysBefore
<1>11. SweepingInv'
  BY <1>2, <1>9, <1>10 DEF SweepingInv
<1>12. CopyingInv' /\ AssigningInv'
  BY <1>2 DEF CopyingInv, AssigningInv
<1> QED BY <1>1, <1>2, <1>5, <1>6, <1>7, <1>11, <1>12 DEF CopiesInv

(* A step between the loops that gives the copy another table.             *)
LEMMA CopyChanged ==
  ASSUME CopiesInv, UNCHANGED vars, loop' = "none", Sound(copy'), ElemsOf(copy') \subseteq Keys
  PROVE  CopiesInv' /\ [Abstract!Next]_<<Elems, res>>
<1>1. IInv' /\ Elems' \subseteq Keys /\ UNCHANGED <<Elems, res>>
  BY ThisKept
<1>2. CopyingInv' /\ AssigningInv' /\ SweepingInv'
  BY NoLoop
<1> QED BY <1>1, <1>2 DEF CopiesInv

LEMMA OnTheCopy ==
  ASSUME CopiesInv,
         \/ EndLoop \/ Destroy
         \/ \E k \in CopyKeys : CopyInsert(k) \/ CopyErase(k)
         \/ \E n \in Reserves : CopyReserve(n)
  PROVE  CopiesInv' /\ [Abstract!Next]_<<Elems, res>>
<1>1. Sound(copy) /\ ElemsOf(copy) \subseteq Keys /\ CopyKeys \subseteq Keys /\ Keys \subseteq Nat
  BY CopiesAssumption, CapacityAssumption DEF CopiesInv
<1>2. CASE EndLoop
  BY <1>1, <1>2, CopyChanged DEF EndLoop
<1>3. CASE Destroy
  <2>1. Sound(NoTable) /\ ElemsOf(NoTable) = {}
    BY FreshSound DEF NoTable
  <2> QED BY <1>3, <2>1, CopyChanged DEF Destroy
<1>4. ASSUME NEW k \in CopyKeys, CopyInsert(k) PROVE CopiesInv' /\ [Abstract!Next]_<<Elems, res>>
  <2>1. k \in Nat /\ k \in Keys
    BY <1>1
  <2>2. copy.num_filled < copy.num_buckets
    <3>1. copy.num_filled \in Nat /\ copy.num_buckets \in Nat
      BY <1>1, TableTypes DEF Sound
    <3> QED BY <1>4, <3>1 DEF CopyInsert
  <2>3. Sound(Insert(copy, k)) /\ ElemsOf(Insert(copy, k)) = ElemsOf(copy) \cup {k}
    BY <1>1, <2>1, <2>2, InsertSound
  <2>4. ElemsOf(Insert(copy, k)) \subseteq Keys
    BY <1>1, <2>1, <2>3
  <2> QED BY <1>4, <2>3, <2>4, CopyChanged DEF CopyInsert
<1>5. ASSUME NEW k \in CopyKeys, CopyErase(k) PROVE CopiesInv' /\ [Abstract!Next]_<<Elems, res>>
  <2>b. PICK b : b = find(copy, k)
    OBVIOUS
  <2>1. k \in Nat
    BY <1>1
  <2>2. Finds(copy, k)
    BY <1>5 DEF CopyErase, find
  <2>3. b \in FilledOf(copy)
    BY <1>1, <2>b, <2>1, <2>2, SearchExact
  <2>4. Sound(Erased(copy, b)) /\ ElemsOf(Erased(copy, b)) \subseteq ElemsOf(copy)
    BY <1>1, <2>3, ErasedSound
  <2>5. ElemsOf(Erased(copy, b)) \subseteq Keys
    BY <1>1, <2>4
  <2> QED BY <1>5, <2>b, <2>4, <2>5, CopyChanged DEF CopyErase
<1>6. ASSUME NEW n \in Reserves, CopyReserve(n) PROVE CopiesInv' /\ [Abstract!Next]_<<Elems, res>>
  <2>1. n \in Nat
    BY CopiesAssumption
  <2>2. Sound(Reserve(copy, n)) /\ ElemsOf(Reserve(copy, n)) = ElemsOf(copy)
    BY <1>1, <2>1, ReserveSound
  <2> QED BY <1>1, <1>6, <2>2, CopyChanged DEF CopyReserve
<1> QED BY <1>2, <1>3, <1>4, <1>5, <1>6

LEMMA CopyInitStep == CopyInit => CopiesInv /\ Abstract!Init
<1> SUFFICES ASSUME CopyInit PROVE CopiesInv /\ Abstract!Init
  OBVIOUS
<1>1. IInv /\ Abstract!Init
  BY InitStep DEF CopyInit
<1>2. Elems = {}
  BY <1>1 DEF Abstract!Init
<1>3. Sound(NoTable) /\ ElemsOf(NoTable) = {}
  BY FreshSound DEF NoTable
<1>4. copy = NoTable /\ loop = "none"
  BY DEF CopyInit
<1>5. CopyingInv /\ AssigningInv /\ SweepingInv
  BY <1>4 DEF CopyingInv, AssigningInv, SweepingInv
<1> QED BY <1>1, <1>2, <1>3, <1>4, <1>5 DEF CopiesInv

LEMMA CopyStep ==
  CopiesInv /\ [CopyNext]_<<vars, copyVars>> => CopiesInv' /\ [Abstract!Next]_<<Elems, res>>
<1> SUFFICES ASSUME CopiesInv, [CopyNext]_<<vars, copyVars>>
             PROVE  CopiesInv' /\ [Abstract!Next]_<<Elems, res>>
  OBVIOUS
<1>1. CASE UNCHANGED <<vars, copyVars>>
  <2>1. /\ IInv' /\ Elems' \subseteq Keys /\ this' = this
        /\ num_filled' = num_filled /\ UNCHANGED <<Elems, res>>
    BY <1>1, ThisKept
  <2>2. copy' = copy /\ loop' = loop /\ it' = it /\ kept' = kept
    BY <1>1 DEF copyVars
  <2>3. CopyingInv' /\ AssigningInv' /\ SweepingInv'
    BY <2>1, <2>2 DEF CopiesInv, CopyingInv, AssigningInv, SweepingInv
  <2> QED BY <2>1, <2>2, <2>3 DEF CopiesInv
<1>2. CASE Operate
  BY <1>2, OperateStep
<1>3. CASE CopyConstruct \/ AssignToCopy \/ CopyElement
  BY <1>3, CopyConstructStep, AssignToCopyStep, CopyElementStep
<1>4. CASE AssignToThis \/ AssignElement
  BY <1>4, AssignToThisStep, AssignElementStep
<1>5. CASE StartSweep \/ Advance \/ EraseAt
  BY <1>5, StartSweepStep, AdvanceStep, EraseAtStep
<1>6. CASE \/ EndLoop \/ Destroy
           \/ \E k \in CopyKeys : CopyInsert(k) \/ CopyErase(k)
           \/ \E n \in Reserves : CopyReserve(n)
  BY <1>6, OnTheCopy
<1> QED BY <1>1, <1>2, <1>3, <1>4, <1>5, <1>6 DEF CopyNext

(* The invariant of this set, its copy and the loops.                      *)
THEOREM CopiesInvariance == CopySpec => []CopiesInv
BY CopyInitStep, CopyStep, PTL DEF CopySpec

(* The copy's lookups are exact and size() counts its elements, whatever   *)
(* copying, moving to a larger table and erasing have made of its chains.  *)
THEOREM CopiesAreExact == CopySpec => []CopyExact
<1>1. ASSUME CopiesInv PROVE CopyExact
  <2>1. Sound(copy) /\ Keys \subseteq Nat
    BY <1>1, CapacityAssumption DEF CopiesInv
  <2>2. \A k \in Keys : Finds(copy, k) <=> k \in ElemsOf(copy)
    BY <2>1, SearchExact
  <2>3. copy.num_filled = Cardinality(FilledOf(copy))
    BY <2>1 DEF Sound, Counted
  <2>4. copy.num_filled = Cardinality(ElemsOf(copy))
    BY <2>1, ElemsCounted
  <2> QED BY <2>2, <2>3, <2>4 DEF CopyExact
<1> QED BY <1>1, CopiesInvariance, PTL

(* A loop over a table sees every element exactly once, also one that      *)
(* erases what it stands on, and a copy always has room for the next one.  *)
THEOREM WalksAreExact == CopySpec => []WalksExact
<1>1. ASSUME CopiesInv PROVE WalksExact
  <2>1. /\ Sound(this) /\ Sound(copy) /\ ElemsOf(this) = Elems
        /\ CopyingInv /\ AssigningInv /\ SweepingInv /\ this.num_filled = num_filled
    BY <1>1, ThisSound DEF CopiesInv
  <2>2. ASSUME loop = "copying"
        PROVE  ElemsOf(copy) = KeysBefore(this, it) /\ copy.num_filled < copy.num_buckets
    <3>1. OnTable(this, it) /\ ElemsOf(copy) = KeysBefore(this, it) /\ copy.num_buckets > num_filled
      BY <2>1, <2>2 DEF CopyingInv
    <3>2. ElemsOf(copy) \subseteq ElemsOf(this)
      BY <2>1, <3>1, WalkSplits
    <3>3. IsFiniteSet(ElemsOf(this)) /\ Cardinality(ElemsOf(this)) = num_filled
          /\ Cardinality(ElemsOf(copy)) = copy.num_filled
      BY <2>1, ElemsCounted
    <3>4. copy.num_filled <= num_filled
      BY <3>2, <3>3, FS_Subset
    <3>5. copy.num_filled \in Nat /\ num_filled \in Nat /\ copy.num_buckets \in Nat
      BY <2>1, TableTypes DEF Sound
    <3>6. copy.num_filled < copy.num_buckets
      BY <3>1, <3>4, <3>5
    <3> QED BY <3>1, <3>6
  <2>3. loop = "assigning" => Elems = KeysBefore(copy, it)
    BY <2>1 DEF AssigningInv
  <2>4. loop = "sweeping" => Elems = kept \cup KeysFrom(this, it)
    BY <2>1, WalkSplits DEF SweepingInv
  <2> QED BY <2>2, <2>3, <2>4 DEF WalksExact
<1> QED BY <1>1, CopiesInvariance, PTL

(* This set stays a set of keys under every operation, those that walk it  *)
(* or assign to it included.                                               *)
THEOREM CopiesRefineKeySet == CopySpec => ImplementsKeySet
BY CopyInitStep, CopyStep, CopiesInvariance, PTL
DEF CopySpec, ImplementsKeySet, Abstract!Spec

(* Its lookups stay exact and its probe loops end.                         *)
THEOREM CopiesKeepLookups == CopySpec => [](LookupExact /\ LoopsEnd)
<1>1. CopiesInv => LookupExact /\ LoopsEnd
  BY LookupIsExact, LoopsEndInv DEF CopiesInv, LookupExact
<1> QED BY <1>1, CopiesInvariance, PTL
=============================================================================
