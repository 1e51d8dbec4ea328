-------------------------------- MODULE RbTree --------------------------------
(***************************************************************************)
(* The interval tree as a red-black tree with users: interval_tree_insert, *)
(* interval_tree_remove and rb_replace_node on one tree, any number of     *)
(* times and in any order, the rebalancing loops an iteration at a time,   *)
(* and the iterators over the result (src/tools/interval_tree_generic.h,   *)
(* rbtree.c, rbtree_augmented.h).                                          *)
(***************************************************************************)
EXTENDS RbHeap

CONSTANTS
  START,   \* the interval of each node
  LAST

ASSUME IntervalAssumption ==
  /\ START \in [Nodes -> Nat] /\ LAST \in [Nodes -> Nat]
  /\ \A n \in Nodes : START[n] <= LAST[n]

VARIABLES
  heap,     \* the tree
  loop,     \* "idle", or the loop that rebalances: "insert" or "erase"
  node,     \* the variables of that loop
  parent

treeVars == <<heap, loop, node, parent>>

TreeInit ==
  /\ heap = EmptyHeap
  /\ loop = "idle"
  /\ node = NULL
  /\ parent = NULL

-----------------------------------------------------------------------------
interval_tree_insert(n) ==
  /\ loop = "idle" /\ n \notin Members(heap)
  /\ heap' = Place(heap, n, START[n], LAST[n])
  /\ loop' = "insert"
  /\ node' = n
  /\ UNCHANGED parent

(* An iteration of __rb_insert.                                            *)
RebalanceInserted ==
  /\ loop = "insert"
  /\ LET step == InsertStep(heap, node, "augment")
     IN  /\ heap' = step.heap
         /\ node' = step.node
         /\ loop' = IF step.node = NULL THEN "idle" ELSE "insert"
  /\ UNCHANGED parent

(* interval_tree_remove up to the rebalancing, if there is any.            *)
interval_tree_remove(n) ==
  /\ loop = "idle" /\ n \in Members(heap)
  /\ LET e == EraseNode(heap, n, "augment")
     IN  /\ heap' = Forget(e.heap, n)
         /\ parent' = e.parent
         /\ loop' = IF e.parent = NULL THEN "idle" ELSE "erase"
  /\ node' = NULL

(* An iteration of ____rb_erase_color.                                     *)
RebalanceErased ==
  /\ loop = "erase"
  /\ LET step == EraseStep(heap, node, parent, "augment")
     IN  /\ heap' = step.heap
         /\ parent' = step.parent
         /\ node' = IF step.parent = NULL THEN NULL ELSE step.node
         /\ loop' = IF step.parent = NULL THEN "idle" ELSE "erase"

(* rb_replace_node moves the links and the colour; the fields of the       *)
(* interval are the caller's, who has filled in the new node.              *)
Replace(victim, newn) ==
  /\ loop = "idle" /\ victim \in Members(heap) /\ newn \notin Members(heap)
  /\ START[newn] = START[victim] /\ LAST[newn] = LAST[victim]
  /\ heap' = Forget(rb_replace_node([heap EXCEPT !.start[newn] = START[newn], !.last[newn] = LAST[newn],
                                              !.sub[newn] = heap.sub[victim]],
                                 victim, newn), victim)
  /\ UNCHANGED <<loop, node, parent>>

Rebalance == RebalanceInserted \/ RebalanceErased

TreeNext ==
  \/ \E n \in Nodes : interval_tree_insert(n) \/ interval_tree_remove(n) \/ \E m \in Nodes : Replace(n, m)
  \/ Rebalance

TreeSpec == TreeInit /\ [][TreeNext]_treeVars

-----------------------------------------------------------------------------
(* The iterators over the intervals that meet [a, b].                      *)

(* The leftmost node of a subtree that meets [a, b].                       *)
interval_tree_subtree_search(h, n, a, b) ==
  LET search[x \in Nodes] ==
        LET l == h.child["left"][x]
            r == h.child["right"][x]
        IN  IF l # NULL /\ a <= h.sub[l] THEN search[l]
            ELSE IF h.start[x] > b THEN NULL
            ELSE IF a <= h.last[x] THEN x
            ELSE IF r # NULL /\ a <= h.sub[r] THEN search[r] ELSE NULL
  IN  search[n]

interval_tree_iter_first(h, a, b) ==
  IF h.root = NULL \/ h.sub[h.root] < a THEN NULL
  ELSE interval_tree_subtree_search(h, h.root, a, b)

interval_tree_iter_next(h, n, a, b) ==
  LET after[x \in Nodes] ==
        LET r == h.child["right"][x]
            p == Ascend(h, x, "right")
        IN  IF r # NULL /\ a <= h.sub[r] THEN interval_tree_subtree_search(h, r, a, b)
            ELSE IF p = NULL \/ b < h.start[p] THEN NULL
            ELSE IF a <= h.last[p] THEN p ELSE after[p]
  IN  after[n]

-----------------------------------------------------------------------------
(* Properties.                                                             *)

(* The black nodes on the paths from the root to a leaf, when all have the *)
(* same number; the link at (p, side) counts for one black node more.      *)
Uniform(h, p, side) ==
  LET extra(x, s) == IF x = p /\ s = side THEN 1 ELSE 0
      low == Nodes \cup {NULL}
      height[x \in low] ==
        IF x = NULL THEN {0}
        ELSE {k + (IF h.color[x] = "black" THEN 1 ELSE 0) :
                k \in UNION {{j + extra(x, s) : j \in height[h.child[s][x]]} : s \in Sides}}
  IN  Cardinality(height[h.root]) = 1

RedsApart(h, except) ==
  \A n \in Members(h) \ {except} :
    h.color[n] = "red" => h.parent[n] # NULL /\ h.color[h.parent[n]] = "black"

(* Between operations the root is black, no red node has a red parent and  *)
(* all paths to a leaf have as many black nodes.  Inside __rb_insert only  *)
(* the node of the loop, which is red, may break the second rule; inside   *)
(* ____rb_erase_color the paths through the node of the loop, which is     *)
(* black, lack exactly one black node (the loops' comments).               *)
RedBlack ==
  /\ loop = "idle" => RedsApart(heap, NULL) /\ Uniform(heap, NULL, "left")
  /\ loop = "insert" =>
       /\ heap.color[node] = "red"
       /\ RedsApart(heap, node) /\ Uniform(heap, NULL, "left")
  /\ loop = "erase" =>
       /\ parent # NULL /\ IsBlack(heap, node)
       /\ RedsApart(heap, NULL)
       /\ Uniform(heap, parent, IF heap.child["right"][parent] # node THEN "left" ELSE "right")

(* The sequence of nodes an iterator yields.                               *)
Walk(first, next(_)) ==
  LET from[n \in Nodes \cup {NULL}] == IF n = NULL THEN <<>> ELSE <<n>> \o from[next(n)]
  IN  from[first]

IteratorsExact ==
  /\ Walk(rb_first(heap), LAMBDA n : rb_next(heap, n)) = InOrder(heap, heap.root)
  /\ Walk(rb_last(heap), LAMBDA n : rb_prev(heap, n)) = Reverse(InOrder(heap, heap.root))
  /\ Walk(rb_first_postorder(heap), LAMBDA n : rb_next_postorder(heap, n)) = PostOrder(heap, heap.root)

SearchExact ==
  \A a, b \in {START[n] : n \in Nodes} \cup {LAST[n] : n \in Nodes} :
    a <= b =>
      Walk(interval_tree_iter_first(heap, a, b), LAMBDA n : interval_tree_iter_next(heap, n, a, b))
        = SelectSeq(InOrder(heap, heap.root), LAMBDA n : START[n] <= b /\ a <= LAST[n])

(* After every sequence of operations the iterators visit every node once: *)
(* forwards and backwards in order, and children before parents            *)
(* (IteratorsExact).  The search for the intervals that meet [a, b], which *)
(* skips subtrees by their __subtree_last, yields each of them once, in    *)
(* order: the augmented values survive every rotation and removal          *)
(* (SearchExact).                                                          *)
TraversalsExact == loop = "idle" => IteratorsExact /\ SearchExact

(* How far below the root the node is that a loop works at.                *)
Depth(h, n) == Len(Upward(h, n, NULL))

(* The unbounded rebalancing loops end: an iteration that does not leave   *)
(* its loop works nearer to the root than the one before.                  *)
LoopsClimb ==
  [][/\ loop = "insert" /\ loop' = "insert" => Depth(heap', node') < Depth(heap, node)
     /\ loop = "erase" /\ loop' = "erase" => Depth(heap', parent') < Depth(heap, parent)]_treeVars
=============================================================================
