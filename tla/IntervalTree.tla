----------------------------- MODULE IntervalTree -----------------------------
(***************************************************************************)
(* The interval trees of the race analyzer at work                         *)
(* (src/tools/interval_tree_generic.h, interval_tree.h): the accesses of   *)
(* three threads are loaded into a tree each, repeated accesses of an      *)
(* instruction summarised as strided nodes (insert_data); the first two    *)
(* trees are compared (overlap) and merged (merge), and the result is      *)
(* compared with the third, as analyze_trees in sword-race-analysis.cc     *)
(* does for three threads.  Comparisons of one round work on different     *)
(* trees (TreesExclusive of Tournament), so one at a time is enough here.  *)
(*                                                                         *)
(* A node is a member of the heap of its tree with, besides the fields of  *)
(* RbHeap, count, diff and src: what insert_data compares for equality     *)
(* (size_type, pc and mutex).  Addresses stay far from 2^64, so a          *)
(* difference that wraps in the code is just out of range here.            *)
(***************************************************************************)
EXTENDS RbHeap, Integers

CONSTANTS
  Accesses,   \* what threads access: [addr, src], src: [type, size, pc, mutex]
  STRIDE,     \* the bound 64 on a new stride
  MaxLoad     \* bound: accesses and nodes of each thread

Trees == {1, 2, 3}
Types == {"unsafe_read", "unsafe_write", "atomic_read", "atomic_write"}
NoSource == [type |-> "unsafe_read", size |-> 0, pc |-> 0, mutex |-> {}]

ASSUME IntervalTreeAssumption ==
  /\ \A a \in Accesses : a.addr \in Nat /\ a.src.type \in Types /\ a.src.size \in Nat \ {0}
  /\ STRIDE \in Nat /\ MaxLoad \in [Trees -> Nat]
  /\ \A t \in Trees : Cardinality(Nodes) >= MaxLoad[1] + MaxLoad[2]

VARIABLES
  trees,    \* the heap of each tree
  pc,       \* "load", "overlap", "overlapped", "merge", "done" or "crashed"
  arg,      \* the tree that is loaded; then tree2 of analyze_trees(1, tree2)
  cur,      \* node2 of the loops over that tree
  races,    \* the reported pairs
  logged,   \* history: the accesses loaded by each thread
  held      \* history: the accesses that the trees stood for once loaded

vars == <<trees, pc, arg, cur, races, logged, held>>

EmptyTree ==
  [EmptyHeap EXCEPT !.root = NULL] @@
  [count |-> [n \in Nodes |-> 0], diff |-> [n \in Nodes |-> 0], src |-> [n \in Nodes |-> NoSource]]

Init ==
  /\ trees = [t \in Trees |-> EmptyTree]
  /\ pc = "load"
  /\ arg = 1
  /\ cur = NULL
  /\ races = {}
  /\ logged = [t \in Trees |-> {}]
  /\ held = {}

END(h, n) == h.start[n] + h.diff[n] * (h.count[n] - 1)

(* The addresses a node stands for.                                        *)
Addresses(h, n) == {h.start[n] + k * h.diff[n] : k \in 0 .. h.count[n] - 1}

(* The accesses a tree stands for.                                         *)
StandsFor(h) ==
  UNION {{[addr |-> x, src |-> h.src[n]] : x \in Addresses(h, n)} : n \in Members(h)}

(* new interval_tree_node(start, last, ...), linked and balanced.          *)
NewNode(h, start, last, src) ==
  LET n == CHOOSE m \in Nodes \ Members(h) : \A x \in Nodes \ Members(h) : m <= x
      made == [Place(h, n, start, last) EXCEPT !.count[n] = 1, !.diff[n] = 0, !.src[n] = src]
  IN  rb_insert_augmented(made, n)

-----------------------------------------------------------------------------
(* interval_tree_insert_data.                                              *)

(* The search ends at a node of the same source that has a stride when the *)
(* access continues it, lies inside it or precedes it; at one without a    *)
(* stride always.                                                          *)
Absorbs(h, n, a) ==
  /\ h.src[n] = a.src
  /\ \/ h.diff[n] = 0
     \/ a.addr = END(h, n) + h.diff[n]
     \/ h.start[n] <= a.addr /\ a.addr <= END(h, n)
     \/ a.addr = h.start[n] - h.diff[n]

(* What the node becomes.  A node of one access takes the distance as its  *)
(* stride if it is positive and below STRIDE; another access of the source *)
(* is forgotten, as is one between the ends of a strided node.             *)
Absorb(h, n, a) ==
  LET d == IF h.diff[n] = 0 THEN a.addr - h.start[n] ELSE h.diff[n]
  IN  IF h.diff[n] = 0 /\ d \notin 1 .. STRIDE - 1 THEN h
      ELSE IF a.addr = END(h, n) + d
      THEN [h EXCEPT !.diff[n] = d, !.count[n] = @ + 1, !.last[n] = a.addr]
      ELSE IF a.addr = h.start[n] - d
      THEN [h EXCEPT !.start[n] = a.addr, !.count[n] = @ + 1]
      ELSE h

interval_tree_insert_data(h, a) ==
  LET path == Descent(h, a.addr)
      hits == {i \in DOMAIN path : Absorbs(h, path[i], a)}
  IN  IF hits = {} THEN NewNode(h, a.addr, a.addr, a.src)
      ELSE LET i == CHOOSE i \in hits : \A j \in hits : i <= j
           IN  Learn(Absorb(h, path[i], a), {path[j] : j \in 1 .. i - 1}, a.addr)

(* load_and_convert_file hands over an access, which may be a repeated one. *)
Load(a) ==
  /\ pc = "load"
  /\ trees' = [trees EXCEPT ![arg] = interval_tree_insert_data(@, a)]
  /\ logged' = [logged EXCEPT ![arg] = @ \cup {a}]
  /\ Cardinality(logged'[arg]) <= MaxLoad[arg] /\ Cardinality(Members(trees'[arg])) <= MaxLoad[arg]
  /\ UNCHANGED <<pc, arg, cur, races, held>>

(* The file ends; after the last one analyze_trees starts on trees 1 and 2. *)
Loaded ==
  /\ pc = "load"
  /\ held' = held \cup StandsFor(trees[arg])
  /\ IF arg < 3 THEN arg' = arg + 1 /\ UNCHANGED <<pc, cur>>
     ELSE arg' = 2 /\ pc' = "overlap" /\ cur' = rb_first(trees[2])
  /\ UNCHANGED <<trees, races, logged>>

-----------------------------------------------------------------------------
(* interval_tree_overlap.                                                  *)

RACE(s1, s2) ==
  \/ "unsafe_write" \in {s1.type, s2.type}
  \/ {s1.type, s2.type} = {"atomic_write", "unsafe_read"}

(* solve_mip: GLPK finds a solution if there is one, but takes no column   *)
(* whose two bounds are equal, as those of the bytes of an access of one   *)
(* byte are.                                                               *)
solve_mip(h1, n1, h2, n2) ==
  /\ h1.src[n1].size > 1 /\ h2.src[n2].size > 1
  /\ \E x1 \in 0 .. h1.count[n1], x2 \in 0 .. h2.count[n2] :
       \E y1 \in 0 .. h1.src[n1].size - 1, y2 \in 0 .. h2.src[n2].size - 1 :
         h1.diff[n1] * x1 - h2.diff[n2] * x2 + y1 - y2 = h2.start[n2] - h1.start[n1]

(* Mutant: the sets of mutexes are not looked at.                          *)
ReportsUnlocked(h1, p, h2, n) ==
  /\ RACE(h2.src[n], h1.src[p])
  /\ h2.start[n] <= h1.last[p] /\ h1.start[p] <= h2.last[n]
  /\ \/ h1.count[p] = 1 /\ h2.count[n] = 1
     \/ IF h1.start[p] >= h2.start[n] THEN solve_mip(h1, p, h2, n) ELSE solve_mip(h2, n, h1, p)

(* Node n of tree2 meets node p of tree1 on its way: a race is reported.   *)
Reports(h1, p, h2, n) ==
  /\ RACE(h2.src[n], h1.src[p])
  /\ h2.src[n].mutex \cap h1.src[p].mutex = {}
  /\ h2.start[n] <= h1.last[p] /\ h1.start[p] <= h2.last[n]
  /\ \/ h1.count[p] = 1 /\ h2.count[n] = 1
     \/ IF h1.start[p] >= h2.start[n] THEN solve_mip(h1, p, h2, n) ELSE solve_mip(h2, n, h1, p)

(* The copy of a node that a report keeps.                                 *)
Copy(h, n) ==
  [start |-> h.start[n], last |-> h.last[n], count |-> h.count[n], diff |-> h.diff[n], src |-> h.src[n]]

(* Mutant: only the root is looked at.                                     *)
OverlapPathRoot(h1, start) ==
  IF h1.root = NULL THEN <<>> ELSE <<h1.root>>

(* The nodes of tree1 a node of tree2 is compared with: those on the way   *)
(* to the place of its start address.                                      *)
OverlapPath(h1, start) == Descent(h1, start)

OverlapNode ==
  /\ pc = "overlap" /\ cur # NULL
  /\ LET h1 == trees[1]
         h2 == trees[arg]
         path == ToSet(OverlapPath(h1, h2.start[cur]))
     IN  /\ races' = races \cup {<<Copy(h2, cur), Copy(h1, p)>> : p \in {q \in path : Reports(h1, q, h2, cur)}}
         /\ trees' = [trees EXCEPT ![1] = Learn(h1, path, h2.last[cur])]
         /\ cur' = rb_next(h2, cur)
  /\ UNCHANGED <<pc, arg, logged, held>>

(* interval_tree_overlap returns; the last comparison is not merged.       *)
Overlapped ==
  /\ pc = "overlap" /\ cur = NULL
  /\ pc' = "overlapped"
  /\ UNCHANGED <<trees, arg, cur, races, logged, held>>

AfterOverlap ==
  /\ pc = "overlapped"
  /\ IF arg = 3 THEN pc' = "done" /\ UNCHANGED cur
     ELSE pc' = "merge" /\ cur' = rb_last(trees[arg])
  /\ UNCHANGED <<trees, arg, races, logged, held>>

-----------------------------------------------------------------------------
(* interval_tree_merge.                                                    *)

Mergeable(h1, p, h2, n) == h2.src[n] = h1.src[p] /\ h2.diff[n] = h1.diff[p]

BothSingle(h1, p, h2, n) == h1.count[p] = 1 /\ h2.count[n] = 1

(* The node touches or meets the one of tree1, or repeats it.              *)
Merges(h1, p, h2, n) ==
  /\ Mergeable(h1, p, h2, n)
  /\ IF BothSingle(h1, p, h2, n) THEN h1.start[p] = h2.start[n]
     ELSE \/ h1.start[p] - h2.last[n] = h1.diff[p]
          \/ h2.start[n] - h1.last[p] = h1.diff[p]
          \/ h2.start[n] <= h1.last[p] /\ h1.start[p] <= h2.last[n]

(* Mutant: the union keeps the start of the node of tree1.                 *)
MergedKeepingStart(h1, p, h2, n) ==
  IF BothSingle(h1, p, h2, n) THEN h1
  ELSE LET last == IF h1.last[p] < h2.last[n] THEN h2.last[n] ELSE h1.last[p]
       IN  [h1 EXCEPT !.last[p] = last,
                      !.count[p] = IF h1.diff[p] = 0 THEN 1 ELSE (last - h1.start[p]) \div h1.diff[p] + 1]

(* The node of tree1 covers both.                                          *)
Merged(h1, p, h2, n) ==
  IF BothSingle(h1, p, h2, n) THEN h1
  ELSE LET start == IF h1.start[p] < h2.start[n] THEN h1.start[p] ELSE h2.start[n]
           last == IF h1.last[p] < h2.last[n] THEN h2.last[n] ELSE h1.last[p]
       IN  [h1 EXCEPT !.start[p] = start, !.last[p] = last,
                      !.count[p] = IF h1.diff[p] = 0 THEN 1 ELSE (last - start) \div h1.diff[p] + 1]

(* tree1 with a node of tree2 merged in.  A node that is not absorbed is   *)
(* made anew, of one access and without a stride.                          *)
MergeInto(h1, h2, n) ==
  LET path == Descent(h1, h2.start[n])
      hits == {i \in DOMAIN path : Merges(h1, path[i], h2, n)}
  IN  IF hits = {} THEN NewNode(h1, h2.start[n], h2.last[n], h2.src[n])
      ELSE LET i == CHOOSE i \in hits : \A j \in hits : i <= j
           IN  Learn(Merged(h1, path[i], h2, n), {path[j] : j \in 1 .. i - 1}, h2.last[n])

FreeNode(h, n) == [Forget(h, n) EXCEPT !.count[n] = 0, !.diff[n] = 0, !.src[n] = NoSource]

(* The iterator steps back, then the node is erased and freed.             *)
MergeNode ==
  /\ pc = "merge" /\ cur # NULL
  /\ trees' = [trees EXCEPT ![1] = MergeInto(@, trees[arg], cur),
                            ![arg] = FreeNode(rb_erase(@, cur), cur)]
  /\ cur' = rb_prev(trees[arg], cur)
  /\ UNCHANGED <<pc, arg, races, logged, held>>

(* In an empty tree1 the new root gets rb_parent, which was never set, for *)
(* its parent: unless that happens to be NULL the balancing follows it.    *)
MergeCrash ==
  /\ pc = "merge" /\ cur # NULL /\ trees[1].root = NULL
  /\ pc' = "crashed"
  /\ UNCHANGED <<trees, arg, cur, races, logged, held>>

(* The next round compares tree1 with tree 3.                              *)
MergeEnd ==
  /\ pc = "merge" /\ cur = NULL
  /\ arg' = 3 /\ pc' = "overlap" /\ cur' = rb_first(trees[3])
  /\ UNCHANGED <<trees, races, logged, held>>

Next ==
  \/ \E a \in Accesses : Load(a)
  \/ Loaded \/ OverlapNode \/ Overlapped \/ AfterOverlap
  \/ MergeNode \/ MergeCrash \/ MergeEnd

Spec == Init /\ [][Next]_vars

-----------------------------------------------------------------------------
(* Properties.                                                             *)

NodesAreAccesses ==
  \A t \in Trees :
    (t # 1 \/ pc = "load" \/ (arg = 2 /\ pc \in {"overlap", "overlapped"})) =>
      /\ StandsFor(trees[t]) \subseteq logged[t]
      /\ \A n \in Members(trees[t]) : trees[t].last[n] = END(trees[t], n)

(* A node that spans an access of its source.                              *)
Spanned(h, a) ==
  \E n \in Members(h) : h.src[n] = a.src /\ h.start[n] <= a.addr /\ a.addr <= h.last[n]

NothingHeldIsLost ==
  /\ \A a \in held : \E t \in Trees : Spanned(trees[t], a)
  /\ \A t \in Trees : \A a \in logged[t] :
       \E u \in Trees : \E n \in Members(trees[u]) : trees[u].src[n] = a.src

(* The summary adds nothing: until it is merged, a tree stands only for    *)
(* accesses its thread made, and last is the address of a node's last one, *)
(* whatever the order of the accesses and whichever nodes they met         *)
(* (NodesAreAccesses).  Merging loses nothing that the trees held: at      *)
(* every moment of a merge, which erases nodes while it iterates over      *)
(* them, each access lies between the ends of a node of its source, and    *)
(* every source of an access that was loaded has a node                    *)
(* (NothingHeldIsLost).                                                    *)
SummariesExact == NodesAreAccesses /\ NothingHeldIsLost

(* A conflict: one access is a write and they are not both atomic.         *)
Conflict(s1, s2) ==
  /\ {s1.type, s2.type} \cap {"unsafe_write", "atomic_write"} # {}
  /\ ~({s1.type, s2.type} \subseteq {"atomic_read", "atomic_write"})
  /\ s1.mutex \cap s2.mutex = {}

(* Every reported pair is one of conflicting accesses that two different   *)
(* threads made without a common mutex, for merged trees too.              *)
ReportsAreConflicts ==
  \A r \in races :
    /\ Conflict(r[1].src, r[2].src)
    /\ \E t, u \in Trees : /\ t # u
                           /\ \E a \in logged[t] : a.src = r[1].src
                           /\ \E a \in logged[u] : a.src = r[2].src

(* The bytes a node stands for.                                            *)
Bytes(h, n) == UNION {x .. x + h.src[n].size - 1 : x \in Addresses(h, n)}

(* The conflicts between nodes of the trees that are compared: those that  *)
(* share a byte, wherever they start.                                      *)
Conflicts(h1, h2) ==
  {<<n, p>> \in Members(h2) \X Members(h1) :
     Conflict(h2.src[n], h1.src[p]) /\ Bytes(h2, n) \cap Bytes(h1, p) # {}}

Missed(h1, h2) ==
  {c \in Conflicts(h1, h2) : <<Copy(h2, c[1]), Copy(h1, c[2])>> \notin races}

(* All nodes are of one access, and no two of tree1 start together.        *)
Points(h1, h2) ==
  /\ \A n \in Members(h1) : h1.count[n] = 1
  /\ \A n \in Members(h2) : h2.count[n] = 1
  /\ \A n, m \in Members(h1) : h1.start[n] = h1.start[m] => n = m

(* While tree1 holds single accesses that all start at different           *)
(* addresses, and tree2 single ones, the comparison along one path finds   *)
(* every conflict of accesses that start at the same address.  Those that  *)
(* share bytes but start at different addresses are missed: last is the    *)
(* address at which a single access starts, not that of its last byte.     *)
PointConflictsReported ==
  (pc = "overlapped" /\ arg = 2 /\ Points(trees[1], trees[2])) =>
    \A c \in Missed(trees[1], trees[2]) : trees[2].start[c[1]] # trees[1].start[c[2]]
=============================================================================
