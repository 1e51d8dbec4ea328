--------------------------- MODULE OrderedIntervals ---------------------------
(***************************************************************************)
(* What the interval tree of src/tools promises its users, without the     *)
(* tree: a list of nodes in the order of their start addresses, nodes with *)
(* the same start in the order in which they came.  RbTree implements it.  *)
(***************************************************************************)
EXTENDS Naturals, SequencesExt

CONSTANTS
  Nodes,
  START,   \* the interval of a node
  LAST

VARIABLE order

Init == order = <<>>

(* A node goes behind the ones that do not start after it.                 *)
Insert(n) ==
  /\ n \notin ToSet(order)
  /\ LET k == Len(SelectSeq(order, LAMBDA m : START[m] <= START[n]))
     IN  order' = InsertAt(order, k + 1, n)

Erase(n) ==
  /\ n \in ToSet(order)
  /\ order' = Remove(order, n)

(* A node takes the place of one with the same interval.                   *)
Replace(victim, newn) ==
  /\ victim \in ToSet(order) /\ newn \notin ToSet(order)
  /\ START[newn] = START[victim] /\ LAST[newn] = LAST[victim]
  /\ order' = [i \in DOMAIN order |-> IF order[i] = victim THEN newn ELSE order[i]]

Next == \E n \in Nodes : Insert(n) \/ Erase(n) \/ \E m \in Nodes : Replace(n, m)

Spec == Init /\ [][Next]_order
=============================================================================
