----------------------------- MODULE RbTreeOrder -----------------------------
(***************************************************************************)
(* The interval tree (RbTree) implements a sorted list (OrderedIntervals). *)
(***************************************************************************)
EXTENDS RbTree

Order == INSTANCE OrderedIntervals WITH order <- InOrder(heap, heap.root)

(* Seen through its order the tree is a sorted list: an insertion puts the *)
(* node behind its equals, a removal takes just that node out, and no      *)
(* iteration of a rebalancing loop moves or loses a node.                  *)
ImplementsOrder == Order!Spec
=============================================================================
