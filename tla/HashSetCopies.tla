---------------------------- MODULE HashSetCopies ----------------------------
(***************************************************************************)
(* The operations of emilib::HashSet (src/rtl/sword_hashset.h) that walk a *)
(* table or build another one: iterators, find, erase(iterator), copy      *)
(* construction, copy assignment and reserve on a set with elements.       *)
(*                                                                         *)
(* The set of module HashSet (this) is joined by a second one, copy, whose *)
(* table has a size of its own.  A loop over a table is taken one element  *)
(* at a time: it is the bucket of the iterator, and the loop that runs     *)
(* keeps the other operations of the thread out.                           *)
(***************************************************************************)
EXTENDS HashSet, FiniteSetsExt

CONSTANTS
  CopyKeys,   \* the keys inserted into or erased from the copy
  Reserves    \* the arguments of reserve on the copy

ASSUME CopiesAssumption == CopyKeys \subseteq Keys /\ Reserves \subseteq Nat

VARIABLES
  copy,   \* the second set
  loop,   \* the loop that runs: "none", "copying", "assigning", "sweeping"
  it,     \* the bucket of its iterator
  kept    \* ghost: the keys a sweep has passed and not erased

copyVars == <<copy, loop, it, kept>>

-----------------------------------------------------------------------------
(* A table as a value.                                                     *)

(* n buckets and no elements; 0 stands for a key that was never there.     *)
Fresh(n) ==
  [num_buckets |-> n, num_filled |-> 0, max_probe_length |-> -1,
   states |-> [b \in 0 .. n - 1 |-> "INACTIVE"], keys |-> [b \in 0 .. n - 1 |-> 0]]

(* A default-constructed set has no buckets.                               *)
NoTable == Fresh(0)

BucketAt(t, k, offset) == (k + offset) % t.num_buckets
KeyAt(t, k, offset) ==
  LET b == BucketAt(t, k, offset) IN t.states[b] = "FILLED" /\ t.keys[b] = k

FilledOf(t) == {b \in DOMAIN t.states : t.states[b] = "FILLED"}
ElemsOf(t) == {t.keys[b] : b \in FilledOf(t)}

(* The offsets within _max_probe_length at which a search stops.           *)
Stops(t, k) ==
  {o \in 0 .. t.max_probe_length :
     KeyAt(t, k, o) \/ t.states[BucketAt(t, k, o)] = "INACTIVE"}

(* contains                                                                *)
Finds(t, k) ==
  /\ t.num_filled # 0
  /\ Stops(t, k) # {} /\ KeyAt(t, k, Min(Stops(t, k)))

Filling(t, k, offset) ==
  [t EXCEPT !.states[BucketAt(t, k, offset)] = "FILLED",
            !.keys[BucketAt(t, k, offset)] = k,
            !.num_filled = @ + 1]

(* The offsets from lo on, once round the table, of buckets not filled.    *)
FreeFrom(t, k, lo) ==
  {o \in lo .. lo + t.num_buckets - 1 : t.states[BucketAt(t, k, o)] # "FILLED"}

(* insert: the bucket is the one find_or_allocate finds.                   *)
Insert(t, k) ==
  LET holes == {o \in 0 .. t.max_probe_length :
                  t.states[BucketAt(t, k, o)] = "ACTIVE"}
      free == FreeFrom(t, k, t.max_probe_length + 1)
  IN  IF Stops(t, k) # {}
      THEN IF KeyAt(t, k, Min(Stops(t, k))) THEN t
           ELSE Filling(t, k, Min(Stops(t, k)))
      ELSE IF holes # {} THEN Filling(t, k, Min(holes))
      ELSE [Filling(t, k, Min(free)) EXCEPT !.max_probe_length = Min(free)]

(* Mutant: the search is not lengthened while the elements move.           *)
PlaceShort(t, k) == Filling(t, k, Min(FreeFrom(t, k, 0)))

(* A key known to be new goes to the bucket find_empty_bucket finds.       *)
Place(t, k) ==
  LET o == Min(FreeFrom(t, k, 0))
  IN  [Filling(t, k, o) EXCEPT !.max_probe_length = Max({@, o})]

(* reserve: when the table is too small its elements move, in the order of *)
(* their buckets, to a new one.                                            *)
Reserve(t, num_elems) ==
  LET moved[b \in 0 .. t.num_buckets] ==
        IF b = 0 THEN Fresh(BucketsFor(num_elems))
        ELSE IF t.states[b - 1] = "FILLED" THEN Place(moved[b - 1], t.keys[b - 1])
        ELSE moved[b - 1]
  IN  IF num_elems + num_elems \div 2 + 1 <= t.num_buckets THEN t
      ELSE moved[t.num_buckets]

(* clear; a key that was destroyed is 0 here and never read.               *)
Cleared(t) ==
  [t EXCEPT !.states = [b \in DOMAIN @ |-> IF @[b] = "FILLED" THEN "INACTIVE" ELSE @[b]],
            !.keys = [b \in DOMAIN @ |-> 0],
            !.num_filled = 0, !.max_probe_length = -1]

(* erase at a bucket                                                       *)
Erased(t, b) ==
  [t EXCEPT !.states[b] = "ACTIVE", !.keys[b] = 0, !.num_filled = @ - 1]

(* This set as such a table.                                               *)
this ==
  [num_buckets |-> NumBuckets, states |-> states, keys |-> keys,
   num_filled |-> num_filled, max_probe_length |-> max_probe_length]

-----------------------------------------------------------------------------
(* Iterators.                                                              *)

(* The first filled bucket from b on, or end().                            *)
NextFrom(t, b) ==
  LET later == {c \in FilledOf(t) : c >= b}
  IN  IF later = {} THEN t.num_buckets ELSE Min(later)

begin(t) == NextFrom(t, 0)
end(t) == t.num_buckets
goto_next_element(t, b) == NextFrom(t, b + 1)

(* find                                                                    *)
find(t, k) ==
  IF Finds(t, k) THEN BucketAt(t, k, Min(Stops(t, k))) ELSE end(t)

KeysBefore(t, b) == {t.keys[c] : c \in {d \in FilledOf(t) : d < b}}
KeysFrom(t, b) == {t.keys[c] : c \in {d \in FilledOf(t) : d >= b}}

-----------------------------------------------------------------------------
CopyInit ==
  /\ Init
  /\ copy = NoTable
  /\ loop = "none"
  /\ it = 0
  /\ kept = {}

(* Operations of module HashSet, between the loops.  Bound: this set rests *)
(* while the copy lives.                                                   *)
Operate == loop = "none" /\ copy = NoTable /\ Next /\ UNCHANGED copyVars

(* HashSet(const HashSet& other) with this as the other.                   *)
CopyConstruct ==
  /\ loop = "none"
  /\ copy' = Reserve(NoTable, num_filled)
  /\ loop' = "copying"
  /\ it' = begin(this)
  /\ UNCHANGED <<vars, kept>>

(* operator=(const HashSet& other) of the copy, with this as the other.    *)
AssignToCopy ==
  /\ loop = "none"
  /\ copy' = Reserve(Cleared(copy), num_filled)
  /\ loop' = "copying"
  /\ it' = begin(this)
  /\ UNCHANGED <<vars, kept>>

(* insert(begin, end) into the copy.  A table without a free bucket would  *)
(* keep find_or_allocate going for ever.                                   *)
CopyElement ==
  /\ loop = "copying" /\ it # end(this)
  /\ copy.num_filled < copy.num_buckets
  /\ copy' = Insert(copy, keys[it])
  /\ it' = goto_next_element(this, it)
  /\ UNCHANGED <<vars, loop, kept>>

(* operator= of this set with the copy as the other.  Bound: reserve finds *)
(* this table large enough.                                                *)
AssignToThis ==
  /\ loop = "none"
  /\ Reserve(this, copy.num_filled) = this
  /\ Clear
  /\ loop' = "assigning"
  /\ it' = begin(copy)
  /\ UNCHANGED <<copy, kept>>

(* insert(begin, end) into this set.                                       *)
AssignElement ==
  /\ loop = "assigning" /\ it # end(copy)
  /\ CheckInsert(copy.keys[it])
  /\ it' = goto_next_element(copy, it)
  /\ UNCHANGED <<copy, loop, kept>>

(* The program walks this set, from begin() or from find(k).               *)
StartSweep ==
  /\ loop = "none"
  /\ it' \in {begin(this)} \cup {find(this, k) : k \in Keys}
  /\ kept' = KeysBefore(this, it')
  /\ loop' = "sweeping"
  /\ UNCHANGED <<vars, copy>>

(* ++it                                                                    *)
Advance ==
  /\ loop = "sweeping" /\ it # end(this)
  /\ kept' = kept \cup {keys[it]}
  /\ it' = goto_next_element(this, it)
  /\ UNCHANGED <<vars, copy, loop>>

(* Mutant: the caller's ++ steps over the element erase returned.          *)
EraseAtTwice ==
  /\ loop = "sweeping" /\ it # end(this)
  /\ states' = [states EXCEPT ![it] = "ACTIVE"]
  /\ num_filled' = num_filled - 1
  /\ it' = LET n == goto_next_element(this, it)
           IN  IF n = end(this) THEN n ELSE goto_next_element(this, n)
  /\ UNCHANGED <<keys, max_probe_length, res, copy, loop, kept>>

(* it = erase(it)                                                          *)
EraseAt ==
  /\ loop = "sweeping" /\ it # end(this)
  /\ states' = [states EXCEPT ![it] = "ACTIVE"]
  /\ num_filled' = num_filled - 1
  /\ it' = goto_next_element(this, it)
  /\ UNCHANGED <<keys, max_probe_length, res, copy, loop, kept>>

(* A loop is over when its iterator is at the end; a sweep may stop sooner. *)
EndLoop ==
  /\ \/ loop = "copying" /\ it = end(this)
     \/ loop = "assigning" /\ it = end(copy)
     \/ loop = "sweeping"
  /\ loop' = "none"
  /\ it' = 0
  /\ kept' = {}
  /\ UNCHANGED <<vars, copy>>

(* insert, erase(find(k)) and reserve on the copy, whose caller sees to it *)
(* that a bucket is free.                                                  *)
CopyInsert(k) ==
  /\ loop = "none"
  /\ copy.num_filled < copy.num_buckets - 1
  /\ copy' = Insert(copy, k)
  /\ UNCHANGED <<vars, loop, it, kept>>

CopyErase(k) ==
  /\ loop = "none" /\ find(copy, k) # end(copy)
  /\ copy' = Erased(copy, find(copy, k))
  /\ UNCHANGED <<vars, loop, it, kept>>

(* reserve(n) of the program, or reserve(), whose n is the template's N.   *)
CopyReserve(n) ==
  /\ loop = "none"
  /\ copy' = Reserve(copy, n)
  /\ UNCHANGED <<vars, loop, it, kept>>

(* ~HashSet                                                                *)
Destroy ==
  /\ loop = "none"
  /\ copy' = NoTable
  /\ UNCHANGED <<vars, loop, it, kept>>

CopyNext ==
  \/ Operate
  \/ CopyConstruct \/ AssignToCopy \/ CopyElement
  \/ AssignToThis \/ AssignElement
  \/ StartSweep \/ Advance \/ EraseAt
  \/ EndLoop \/ Destroy
  \/ \E k \in CopyKeys : CopyInsert(k) \/ CopyErase(k)
  \/ \E n \in Reserves : CopyReserve(n)

CopySpec == CopyInit /\ [][CopyNext]_<<vars, copyVars>>

-----------------------------------------------------------------------------
(* Properties.                                                             *)

(* Whatever copying, moving to a larger table and erasing have made of it, *)
(* a lookup in the copy finds exactly its elements, none of which is there *)
(* twice, and size() counts them.                                          *)
CopyExact ==
  /\ \A k \in Keys : Finds(copy, k) <=> k \in ElemsOf(copy)
  /\ copy.num_filled = Cardinality(FilledOf(copy))
  /\ copy.num_filled = Cardinality(ElemsOf(copy))

(* A loop sees every element exactly once although its own body erases or  *)
(* the target's table is another: what was copied is what lies before the  *)
(* iterator, and a sweep has left what it kept and what is still ahead.    *)
(* The table of a copy always has room for the next element.               *)
WalksExact ==
  /\ loop = "copying" =>
       /\ ElemsOf(copy) = KeysBefore(this, it)
       /\ it # end(this) => copy.num_filled < copy.num_buckets
  /\ loop = "assigning" => Elems = KeysBefore(copy, it)
  /\ loop = "sweeping" => Elems = kept \cup KeysFrom(this, it)
=============================================================================
