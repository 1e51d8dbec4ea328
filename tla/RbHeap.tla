-------------------------------- MODULE RbHeap --------------------------------
(***************************************************************************)
(* The red-black tree of the race analyzer (src/tools/rbtree.c,            *)
(* rbtree.h, rbtree_augmented.h) as operators on a heap, which is the      *)
(* record of one tree:                                                     *)
(*   root    root->rb_node                                                 *)
(*   child   rb_left and rb_right, as child["left"] and child["right"]     *)
(*   parent  the pointer in __rb_parent_color                              *)
(*   color   the bit in __rb_parent_color                                  *)
(*   start, last, sub   the interval of a node and its __subtree_last      *)
(* The code is written twice, once per side; here the side is a parameter. *)
(* An iteration of a rebalancing loop is one operator: it takes and        *)
(* returns the loop's variables, NULL where the loop breaks.  The argument *)
(* cb says which callbacks the caller passed: "augment" those of the       *)
(* interval tree, "dummy" the empty ones.  A pointer that is followed      *)
(* while it is NULL is a function applied outside its domain.              *)
(***************************************************************************)
EXTENDS Naturals, SequencesExt

CONSTANT Nodes   \* the nodes that can be allocated

NULL == 0

ASSUME NodesAssumption == Nodes \subseteq Nat \ {NULL}

Sides == {"left", "right"}
Colors == {"red", "black"}
Opposite(side) == IF side = "left" THEN "right" ELSE "left"

EmptyHeap ==
  [root   |-> NULL,
   child  |-> [s \in Sides |-> [n \in Nodes |-> NULL]],
   parent |-> [n \in Nodes |-> NULL],
   color  |-> [n \in Nodes |-> "red"],
   start  |-> [n \in Nodes |-> 0],
   last   |-> [n \in Nodes |-> 0],
   sub    |-> [n \in Nodes |-> 0]]

(* The side of n below p, as the loops tell it: by the right link.         *)
SideOf(h, n, p) == IF h.child["right"][p] = n THEN "right" ELSE "left"

IsBlack(h, n) == n = NULL \/ h.color[n] = "black"

-----------------------------------------------------------------------------
(* Pointer updates.                                                        *)

rb_set_parent(h, n, p) == [h EXCEPT !.parent[n] = p]
rb_set_parent_color(h, n, p, c) == [h EXCEPT !.parent[n] = p, !.color[n] = c]

(* "if (tmp) rb_set_parent_color(tmp, p, RB_BLACK)"                        *)
AdoptBlack(h, n, p) == IF n = NULL THEN h ELSE rb_set_parent_color(h, n, p, "black")

rb_change_child(h, old, newn, parent) ==
  IF parent = NULL THEN [h EXCEPT !.root = newn]
  ELSE [h EXCEPT !.child[IF h.child["left"][parent] = old THEN "left" ELSE "right"][parent] = newn]

(* newn, the child of old on this side, takes old as its child on the      *)
(* other side and gives old the child it had there.                        *)
Lift(h, old, newn, side) ==
  [h EXCEPT !.child[side][old] = h.child[Opposite(side)][newn],
            !.child[Opposite(side)][newn] = old]

rb_rotate_set_parents(h, old, newn, color) ==
  rb_change_child([h EXCEPT !.parent[newn] = h.parent[old], !.color[newn] = h.color[old],
                            !.parent[old] = newn, !.color[old] = color],
                  old, newn, h.parent[old])

-----------------------------------------------------------------------------
(* The augmented value.                                                    *)

compute_subtree_last(h, n) ==
  LET values == {h.last[n]} \cup {h.sub[h.child[s][n]] : s \in {x \in Sides : h.child[x][n] # NULL}}
  IN  CHOOSE m \in values : \A v \in values : v <= m

augment_copy(h, old, newn, cb) ==
  IF cb = "dummy" THEN h ELSE [h EXCEPT !.sub[newn] = h.sub[old]]

(* Mutant: the node that moved down keeps its old value.                   *)
augment_rotate_copying(h, old, newn, cb) ==
  IF cb = "dummy" THEN h ELSE [h EXCEPT !.sub[newn] = h.sub[old]]

augment_rotate(h, old, newn, cb) ==
  IF cb = "dummy" THEN h
  ELSE [h EXCEPT !.sub[newn] = h.sub[old], !.sub[old] = compute_subtree_last(h, old)]

(* The nodes from n up to but not including stop.                          *)
Upward(h, n, stop) ==
  LET up[x \in Nodes \cup {NULL}] == IF x \in {stop, NULL} THEN <<>> ELSE <<x>> \o up[h.parent[x]]
  IN  up[n]

(* Recompute on the way up until a value is found right.                   *)
augment_propagate(h, n, stop, cb) ==
  LET visit(s, x) ==
        LET value == compute_subtree_last([h EXCEPT !.sub = s.sub], x)
        IN  IF s.broke \/ s.sub[x] = value THEN [s EXCEPT !.broke = TRUE]
            ELSE [s EXCEPT !.sub[x] = value]
  IN  IF cb = "dummy" THEN h
      ELSE [h EXCEPT !.sub = FoldLeft(visit, [sub |-> h.sub, broke |-> FALSE], Upward(h, n, stop)).sub]

-----------------------------------------------------------------------------
(* Insertion.                                                              *)

(* A leaf is hung below parent, red (an aligned pointer has colour bit 0). *)
rb_link_node(h, n, parent, side) ==
  LET g == [h EXCEPT !.parent[n] = parent, !.color[n] = "red",
                     !.child["left"][n] = NULL, !.child["right"][n] = NULL]
  IN  IF parent = NULL THEN [g EXCEPT !.root = n] ELSE [g EXCEPT !.child[side][parent] = n]

(* Case 1: parent and uncle are red; the loop goes on at the grandparent.  *)
InsertFlip(h, n) ==
  LET p == h.parent[n]
      g == h.parent[p]
      u == h.child[Opposite(SideOf(h, p, g))][g]
      flipped == rb_set_parent_color(rb_set_parent_color(h, u, g, "black"), p, g, "black")
  IN  rb_set_parent_color(flipped, g, h.parent[g], "red")

(* Case 2: an inner node changes places with its parent.                   *)
InsertInner(h, p, n, side, cb) ==
  LET lifted == Lift(h, p, n, Opposite(side))
      hung == AdoptBlack(lifted, h.child[side][n], p)
  IN  augment_rotate(rb_set_parent_color(hung, p, n, "red"), p, n, cb)

(* Case 3: the parent rotates over the grandparent.                        *)
InsertOuter(h, g, p, side, cb) ==
  LET lifted == Lift(h, g, p, side)
      hung == AdoptBlack(lifted, h.child[Opposite(side)][p], g)
  IN  augment_rotate(rb_rotate_set_parents(hung, g, p, "red"), g, p, cb)

(* Mutant: case 2 is left out.                                             *)
InsertRotateOuter(h, n, cb) ==
  LET p == h.parent[n]
      g == h.parent[p]
  IN  InsertOuter(h, g, p, SideOf(h, p, g), cb)

InsertRotate(h, n, cb) ==
  LET p == h.parent[n]
      g == h.parent[p]
      side == SideOf(h, p, g)
  IN  IF h.child[Opposite(side)][p] = n
      THEN InsertOuter(InsertInner(h, p, n, side, cb), g, n, side, cb)
      ELSE InsertOuter(h, g, p, side, cb)

(* Mutant: the loop stays at the node after the colours are flipped.       *)
InsertStepStays(h, n, cb) ==
  LET p == h.parent[n]
      g == h.parent[p]
      u == h.child[Opposite(SideOf(h, p, g))][g]
  IN  IF p = NULL THEN [heap |-> rb_set_parent_color(h, n, NULL, "black"), node |-> NULL]
      ELSE IF h.color[p] = "black" THEN [heap |-> h, node |-> NULL]
      ELSE IF u # NULL /\ h.color[u] = "red" THEN [heap |-> InsertFlip(h, n), node |-> n]
      ELSE [heap |-> InsertRotate(h, n, cb), node |-> NULL]

(* One iteration of the loop of __rb_insert at n.                          *)
InsertStep(h, n, cb) ==
  LET p == h.parent[n]
      g == h.parent[p]
      u == h.child[Opposite(SideOf(h, p, g))][g]
  IN  IF p = NULL THEN [heap |-> rb_set_parent_color(h, n, NULL, "black"), node |-> NULL]
      ELSE IF h.color[p] = "black" THEN [heap |-> h, node |-> NULL]
      ELSE IF u # NULL /\ h.color[u] = "red" THEN [heap |-> InsertFlip(h, n), node |-> g]
      ELSE [heap |-> InsertRotate(h, n, cb), node |-> NULL]

(* The whole of rb_insert_augmented: the loop ends before it has passed    *)
(* every node (LoopsClimb of RbTree).                                      *)
rb_insert_augmented(h, n) ==
  LET run(s, i) == IF s.node = NULL THEN s ELSE InsertStep(s.heap, s.node, "augment")
  IN  FoldLeft(run, [heap |-> h, node |-> n], SetToSeq(Nodes)).heap

(* Mutant: a node goes before the ones with the same start.                *)
TurnBefore(h, start, n) == IF start <= h.start[n] THEN "left" ELSE "right"

(* The link a search for start follows at n.                               *)
Turn(h, start, n) == IF start < h.start[n] THEN "left" ELSE "right"

(* The nodes the search for the place of start visits.                     *)
Descent(h, start) ==
  LET down[x \in Nodes \cup {NULL}] ==
        IF x = NULL THEN <<>> ELSE <<x>> \o down[h.child[Turn(h, start, x)][x]]
  IN  down[h.root]

(* The nodes a search has passed have seen this last address.              *)
Learn(h, passed, last) ==
  [h EXCEPT !.sub = [x \in Nodes |-> IF x \in passed /\ h.sub[x] < last THEN last ELSE h.sub[x]]]

(* The search of interval_tree_insert: the new node is linked where it     *)
(* ends.                                                                   *)
Place(h, n, start, last) ==
  LET path == Descent(h, start)
      p == IF path = <<>> THEN NULL ELSE Last(path)
      stored == [Learn(h, ToSet(path), last) EXCEPT !.start[n] = start, !.last[n] = last, !.sub[n] = last]
  IN  rb_link_node(stored, n, p, IF p = NULL THEN "left" ELSE Turn(h, start, p))

-----------------------------------------------------------------------------
(* Removal.                                                                *)

(* Case 1 of __rb_erase_augmented: the only child, if any, takes the       *)
(* place and the colour of the node.                                       *)
EraseSimple(h, n, cb) ==
  LET p == h.parent[n]
      c == IF h.child["left"][n] = NULL THEN h.child["right"][n] ELSE h.child["left"][n]
      cut == rb_change_child(h, n, c, p)
      placed == IF c = NULL THEN cut ELSE rb_set_parent_color(cut, c, p, h.color[n])
  IN  [heap |-> augment_propagate(placed, p, NULL, cb),
       parent |-> IF c = NULL /\ h.color[n] = "black" THEN p ELSE NULL]

(* The leftmost node below n, and the rightmost one.                       *)
Extreme(h, n, side) ==
  LET down[x \in Nodes] == IF h.child[side][x] = NULL THEN x ELSE down[h.child[side][x]]
  IN  down[n]

(* Cases 2 and 3: the successor leaves its place, whose right child moves  *)
(* up, and takes the place and the colour of the node.                     *)
EraseInner(h, n, cb) ==
  LET right == h.child["right"][n]
      succ == Extreme(h, right, "left")
      child2 == h.child["right"][succ]
      p == IF succ = right THEN succ ELSE h.parent[succ]
      out == IF succ = right THEN augment_copy(h, n, succ, cb)
             ELSE augment_propagate(
                    augment_copy([h EXCEPT !.child["left"][p] = child2,
                                           !.child["right"][succ] = right,
                                           !.parent[right] = succ], n, succ, cb),
                    p, succ, cb)
      left == h.child["left"][n]
      moved == rb_change_child([out EXCEPT !.child["left"][succ] = left, !.parent[left] = succ],
                               n, succ, h.parent[n])
      placed == rb_set_parent_color(moved, succ, h.parent[n], h.color[n])
  IN  [heap |-> augment_propagate(AdoptBlack(placed, child2, p), succ, NULL, cb),
       parent |-> IF child2 = NULL /\ h.color[succ] = "black" THEN p ELSE NULL]

(* __rb_erase_augmented: the heap and the node to rebalance at, or NULL.   *)
EraseNode(h, n, cb) ==
  IF \E s \in Sides : h.child[s][n] = NULL THEN EraseSimple(h, n, cb) ELSE EraseInner(h, n, cb)

(* Case 1 of ____rb_erase_color: a red sibling rotates over the parent.    *)
EraseRedSibling(h, p, s, side, cb) ==
  LET lifted == Lift(h, p, s, side)
      hung == rb_set_parent_color(lifted, h.child[Opposite(side)][s], p, "black")
  IN  augment_rotate(rb_rotate_set_parents(hung, p, s, "red"), p, s, cb)

(* Case 3: the sibling's red inner child rotates over the sibling.         *)
EraseInnerNephew(h, p, s, side, cb) ==
  LET inner == h.child[Opposite(side)][s]
      lifted == [Lift(h, s, inner, Opposite(side)) EXCEPT !.child[side][p] = inner]
      hung == AdoptBlack(lifted, h.child[side][inner], s)
  IN  augment_rotate(hung, s, inner, cb)

(* Case 4: the sibling s rotates over the parent; its outer child is made  *)
(* black.                                                                  *)
EraseOuterNephew(h, p, s, outer, side, cb) ==
  LET inner == h.child[Opposite(side)][s]
      lifted == rb_set_parent_color(Lift(h, p, s, side), outer, s, "black")
      hung == IF inner = NULL THEN lifted ELSE rb_set_parent(lifted, inner, p)
  IN  augment_rotate(rb_rotate_set_parents(hung, p, s, "black"), p, s, cb)

(* Case 2: the sibling turns red; a red parent turns black and ends the    *)
(* loop, a black one is the next node that lacks a black.                  *)
EraseFlip(h, p, s) ==
  LET g == rb_set_parent_color(h, s, p, "red")
  IN  IF h.color[p] = "red" THEN [heap |-> [g EXCEPT !.color[p] = "black"], node |-> p, parent |-> NULL]
      ELSE [heap |-> g, node |-> p, parent |-> h.parent[p]]

(* One iteration of the loop of ____rb_erase_color: the paths through the  *)
(* child n of p (NULL at first) lack a black node.                         *)
EraseStep(h0, n, p, cb) ==
  LET side == IF h0.child["right"][p] # n THEN "right" ELSE "left"    \* the sibling's
      s0 == h0.child[side][p]
      red == h0.color[s0] = "red"
      h == IF red THEN EraseRedSibling(h0, p, s0, side, cb) ELSE h0
      s == h.child[side][p]
      outer == h.child[side][s]
      inner == h.child[Opposite(side)][s]
  IN  IF IsBlack(h, outer) /\ IsBlack(h, inner) THEN EraseFlip(h, p, s)
      ELSE [heap |-> IF IsBlack(h, outer)
                     THEN EraseOuterNephew(EraseInnerNephew(h, p, s, side, cb), p, inner, s, side, cb)
                     ELSE EraseOuterNephew(h, p, s, outer, side, cb),
            node |-> n, parent |-> NULL]

(* The whole of rb_erase.                                                  *)
rb_erase(h, n) ==
  LET e == EraseNode(h, n, "dummy")
      run(s, i) == IF s.parent = NULL THEN s ELSE EraseStep(s.heap, s.node, s.parent, "dummy")
  IN  FoldLeft(run, [heap |-> e.heap, node |-> NULL, parent |-> e.parent], SetToSeq(Nodes)).heap

-----------------------------------------------------------------------------
(* Replacement and iteration.                                              *)

rb_replace_node(h, victim, newn) ==
  LET linked == rb_change_child(h, victim, newn, h.parent[victim])
      kids == {h.child[s][victim] : s \in Sides} \ {NULL}
  IN  [linked EXCEPT !.parent = [n \in Nodes |-> IF n = newn THEN h.parent[victim]
                                                 ELSE IF n \in kids THEN newn ELSE h.parent[n]],
                     !.color[newn] = h.color[victim],
                     !.child = [s \in Sides |-> [linked.child[s] EXCEPT ![newn] = h.child[s][victim]]]]

rb_first(h) == IF h.root = NULL THEN NULL ELSE Extreme(h, h.root, "left")
rb_last(h) == IF h.root = NULL THEN NULL ELSE Extreme(h, h.root, "right")

(* The first ancestor of n that n is not below on this side, or NULL.      *)
Ascend(h, n, side) ==
  LET climb[x \in Nodes] ==
        IF h.parent[x] # NULL /\ h.child[side][h.parent[x]] = x THEN climb[h.parent[x]] ELSE h.parent[x]
  IN  climb[n]

(* The neighbour of n on a side: the near end of its subtree there, or     *)
(* else that ancestor.                                                     *)
Neighbour(h, n, side) ==
  IF h.child[side][n] # NULL THEN Extreme(h, h.child[side][n], Opposite(side)) ELSE Ascend(h, n, side)

rb_next(h, n) == Neighbour(h, n, "right")
rb_prev(h, n) == Neighbour(h, n, "left")

rb_left_deepest_node(h, n) ==
  LET down[x \in Nodes] ==
        IF h.child["left"][x] # NULL THEN down[h.child["left"][x]]
        ELSE IF h.child["right"][x] # NULL THEN down[h.child["right"][x]] ELSE x
  IN  down[n]

rb_first_postorder(h) == IF h.root = NULL THEN NULL ELSE rb_left_deepest_node(h, h.root)

rb_next_postorder(h, n) ==
  LET p == h.parent[n]
  IN  IF p # NULL /\ h.child["left"][p] = n /\ h.child["right"][p] # NULL
      THEN rb_left_deepest_node(h, h.child["right"][p]) ELSE p

-----------------------------------------------------------------------------
(* What the pointers mean.                                                 *)

(* The nodes below and at n in order, and children before parents.         *)
InOrder(h, n) ==
  LET in[x \in Nodes \cup {NULL}] ==
        IF x = NULL THEN <<>> ELSE in[h.child["left"][x]] \o <<x>> \o in[h.child["right"][x]]
  IN  in[n]

PostOrder(h, n) ==
  LET in[x \in Nodes \cup {NULL}] ==
        IF x = NULL THEN <<>> ELSE in[h.child["left"][x]] \o in[h.child["right"][x]] \o <<x>>
  IN  in[n]

(* A node out of the tree: what its fields still hold is never read again. *)
Forget(h, n) ==
  [h EXCEPT !.child = [s \in Sides |-> [h.child[s] EXCEPT ![n] = NULL]], !.parent[n] = NULL,
            !.color[n] = "red", !.start[n] = 0, !.last[n] = 0, !.sub[n] = 0]

Members(h) == ToSet(InOrder(h, h.root))
=============================================================================
