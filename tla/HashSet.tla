------------------------------- MODULE HashSet -------------------------------
(***************************************************************************)
(* emilib::HashSet (src/rtl/sword_hashset.h): the open-addressing table    *)
(* behind the filter of repeated accesses.  A key's chain is the sequence  *)
(* of buckets key, key + 1, ... (the key is its own hash).  A search ends  *)
(* at the key, at a bucket that was never touched, or after                *)
(* _max_probe_length.                                                      *)
(*                                                                         *)
(* The table never grows: the calls of check_expand_need are commented     *)
(* out, and the runtime calls reserve once, on the empty set.  The caller  *)
(* keeps it from filling up (FilterBounded of TraceBuffer), which is the   *)
(* guard on Capacity below.  A loop that ends at offset o is written as an *)
(* offset o that satisfies its exit condition and no smaller one does.     *)
(***************************************************************************)
EXTENDS Integers, FiniteSets

CONSTANTS
  Keys,       \* the hashes the program inserts
  SET_SIZE,   \* the argument of reserve
  Capacity    \* bound kept by the caller: keys in the set at one time

(* reserve: 4, doubled until it holds half as much again as the elements   *)
(* asked for.                                                              *)
BucketsFor(num_elems) ==
  LET required == num_elems + num_elems \div 2 + 1
      num_buckets[i \in 0 .. required] ==
        IF i = 0 THEN 4 ELSE 2 * num_buckets[i - 1]
  IN  num_buckets[CHOOSE i \in 0 .. required :
                    /\ num_buckets[i] >= required
                    /\ \A j \in 0 .. i - 1 : num_buckets[j] < required]

NumBuckets == BucketsFor(SET_SIZE)
Buckets == 0 .. NumBuckets - 1

ASSUME CapacityAssumption ==
  /\ Keys \subseteq Nat
  /\ SET_SIZE \in Nat
  /\ Capacity \in Nat /\ Capacity < NumBuckets

VARIABLES
  states,            \* _states
  keys,              \* _keys; what a bucket that is not FILLED holds is stale
  num_filled,        \* _num_filled
  max_probe_length,  \* _max_probe_length
  res                \* what the last operation returned

vars == <<states, keys, num_filled, max_probe_length, res>>

-----------------------------------------------------------------------------
(* Bucket number offset of the chain of a key.                             *)
Probe(k, offset) == (k + offset) % NumBuckets

Holds(b, k) == states[b] = "FILLED" /\ keys[b] = k

(* The search within _max_probe_length ends at this offset: at the key or  *)
(* at a bucket never touched.                                              *)
StopsAt(k, o) == states[Probe(k, o)] = "INACTIVE" \/ Holds(Probe(k, o), k)

(* o is the least offset from 0 at which the search stops.                 *)
FirstStop(k, o) ==
  /\ o \in 0 .. max_probe_length /\ StopsAt(k, o)
  /\ \A p \in 0 .. o - 1 : ~StopsAt(k, p)

NoStop(k) == \A o \in 0 .. max_probe_length : ~StopsAt(k, o)

(* o is the offset of the first hole a search that did not stop has seen.  *)
FirstHole(k, o) ==
  /\ o \in 0 .. max_probe_length /\ states[Probe(k, o)] = "ACTIVE"
  /\ \A p \in 0 .. o - 1 : states[Probe(k, p)] # "ACTIVE"

NoHole(k) == \A o \in 0 .. max_probe_length : states[Probe(k, o)] # "ACTIVE"

(* o is the first offset from lo with a bucket that is not filled.         *)
FirstFree(k, lo, o) ==
  /\ o \in lo .. lo + NumBuckets - 1 /\ states[Probe(k, o)] # "FILLED"
  /\ \A p \in lo .. o - 1 : states[Probe(k, p)] = "FILLED"

(* contains: find_filled_bucket finds the key.                             *)
Contains(k) ==
  /\ num_filled # 0
  /\ \E o \in 0 .. max_probe_length : FirstStop(k, o) /\ Holds(Probe(k, o), k)

-----------------------------------------------------------------------------
(* The set after reserve on the empty set.                                 *)
Init ==
  /\ states = [b \in Buckets |-> "INACTIVE"]
  /\ keys \in [Buckets -> {0}]
  /\ num_filled = 0
  /\ max_probe_length = -1
  /\ res = FALSE

(* Mutant: the count of filled buckets is not kept.                        *)
FillUncounted(b, k) ==
  /\ states' = [states EXCEPT ![b] = "FILLED"]
  /\ keys' = [keys EXCEPT ![b] = k]
  /\ UNCHANGED num_filled

(* The new key goes to bucket b.                                           *)
Fill(b, k) ==
  /\ states' = [states EXCEPT ![b] = "FILLED"]
  /\ keys' = [keys EXCEPT ![b] = k]
  /\ num_filled' = num_filled + 1

(* check_insert and insert: the bucket is the one find_or_allocate finds.  *)
CheckInsert(k) ==
  /\ num_filled < Capacity
  /\ \/ \E o \in 0 .. max_probe_length :
          /\ FirstStop(k, o) /\ Holds(Probe(k, o), k)
          /\ res' = FALSE
          /\ UNCHANGED <<states, keys, num_filled, max_probe_length>>
     \/ \E o \in 0 .. max_probe_length :
          /\ FirstStop(k, o) /\ states[Probe(k, o)] = "INACTIVE"
          /\ Fill(Probe(k, o), k)
          /\ res' = TRUE
          /\ UNCHANGED max_probe_length
     \/ \E o \in 0 .. max_probe_length :
          /\ NoStop(k) /\ FirstHole(k, o)
          /\ Fill(Probe(k, o), k)
          /\ res' = TRUE
          /\ UNCHANGED max_probe_length
     \/ \E o \in max_probe_length + 1 .. max_probe_length + NumBuckets :
          /\ NoStop(k) /\ NoHole(k) /\ FirstFree(k, max_probe_length + 1, o)
          /\ Fill(Probe(k, o), k)
          /\ max_probe_length' = o
          /\ res' = TRUE

(* insert_unique, whose caller vouches that the key is not in the set.     *)
InsertUnique(k) ==
  /\ num_filled < Capacity /\ ~Contains(k)
  /\ \E o \in 0 .. NumBuckets - 1 :
       /\ FirstFree(k, 0, o)
       /\ Fill(Probe(k, o), k)
       /\ max_probe_length' = IF o > max_probe_length THEN o ELSE max_probe_length
  /\ UNCHANGED res

(* Mutant: the erased bucket becomes an untouched one and cuts the chains  *)
(* that pass through it.                                                   *)
EraseCutting(k) ==
  /\ \/ \E o \in 0 .. max_probe_length :
          /\ Contains(k) /\ FirstStop(k, o)
          /\ states' = [states EXCEPT ![Probe(k, o)] = "INACTIVE"]
          /\ num_filled' = num_filled - 1
          /\ res' = TRUE
     \/ /\ ~Contains(k)
        /\ res' = FALSE
        /\ UNCHANGED <<states, num_filled>>
  /\ UNCHANGED <<keys, max_probe_length>>

(* erase(key): the bucket stays in the chains that pass through it.        *)
Erase(k) ==
  /\ \/ \E o \in 0 .. max_probe_length :
          /\ Contains(k) /\ FirstStop(k, o)
          /\ states' = [states EXCEPT ![Probe(k, o)] = "ACTIVE"]
          /\ num_filled' = num_filled - 1
          /\ res' = TRUE
     \/ /\ ~Contains(k)
        /\ res' = FALSE
        /\ UNCHANGED <<states, num_filled>>
  /\ UNCHANGED <<keys, max_probe_length>>

(* clear: filled buckets become untouched ones, holes stay holes.          *)
Clear ==
  /\ states' = [b \in Buckets |-> IF states[b] = "FILLED" THEN "INACTIVE"
                                  ELSE states[b]]
  /\ num_filled' = 0
  /\ max_probe_length' = -1
  /\ UNCHANGED <<keys, res>>

Next ==
  \/ \E k \in Keys : CheckInsert(k) \/ InsertUnique(k) \/ Erase(k)
  \/ Clear

Spec == Init /\ [][Next]_vars

-----------------------------------------------------------------------------
(* Properties.                                                             *)

(* Every variable has its type, and the count stays within the capacity.   *)
TypeOK ==
  /\ states \in [Buckets -> {"INACTIVE", "ACTIVE", "FILLED"}]
  /\ keys \in [Buckets -> Keys \cup {0}]
  /\ num_filled \in 0 .. Capacity
  /\ max_probe_length \in Int /\ max_probe_length >= -1
  /\ res \in BOOLEAN

Filled == {b \in Buckets : states[b] = "FILLED"}

(* The keys in the table.                                                  *)
Elems == {keys[b] : b \in Filled}

(* No key is in two buckets: an insert never takes a hole while the key    *)
(* lies further down its chain.                                            *)
NoDuplicates == \A b, c \in Filled : keys[b] = keys[c] => b = c

(* A lookup finds exactly the keys in the table, through every chain that  *)
(* erased and cleared buckets have left behind.                            *)
LookupExact == \A k \in Keys : Contains(k) <=> k \in Elems

(* The unbounded loops of find_or_allocate and find_empty_bucket end: from *)
(* everywhere in the table there is a bucket that is not filled.           *)
LoopsEnd ==
  \A k \in Keys : \E o \in 0 .. NumBuckets - 1 : states[Probe(k, o)] # "FILLED"

(* The comment on _max_probe_length: it is negative only when there are no *)
(* elements.  Both searches rely on it.                                    *)
NegativeOnlyWhenEmpty == max_probe_length < 0 => num_filled = 0

Abstract == INSTANCE KeySet WITH elems <- Elems

(* The table implements a set of keys: every result an operation returns   *)
(* is the one the set would give.                                          *)
ImplementsKeySet == Abstract!Spec
=============================================================================
