------------------------------- MODULE KeySet -------------------------------
(***************************************************************************)
(* What a set of keys promises: the interface of emilib::HashSet           *)
(* (src/rtl/sword_hashset.h) without its table.  TraceBuffer uses its      *)
(* filter this way and HashSet implements it.                              *)
(***************************************************************************)
CONSTANT Keys

VARIABLES
  elems,   \* the keys in the set
  res      \* what the last operation returned

Init == elems = {} /\ res = FALSE

(* Insert a key; the result says whether it was new.                       *)
CheckInsert(k) ==
  /\ res' = (k \notin elems)
  /\ elems' = elems \cup {k}

(* Insert a key that is not in the set; there is no result.                *)
InsertUnique(k) ==
  /\ k \notin elems
  /\ elems' = elems \cup {k}
  /\ UNCHANGED res

(* Remove a key; the result says whether it was there.                     *)
Erase(k) ==
  /\ res' = (k \in elems)
  /\ elems' = elems \ {k}

(* Remove a key that is in the set, named by an iterator.                  *)
EraseAt(k) ==
  /\ k \in elems
  /\ elems' = elems \ {k}
  /\ UNCHANGED res

Clear ==
  /\ elems' = {}
  /\ UNCHANGED res

Next ==
  \/ \E k \in Keys : CheckInsert(k) \/ InsertUnique(k) \/ Erase(k) \/ EraseAt(k)
  \/ Clear

Spec == Init /\ [][Next]_<<elems, res>>
=============================================================================
