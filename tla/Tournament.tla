----------------------------- MODULE Tournament ------------------------------
(***************************************************************************)
(* The rounds in which sword-race-analysis compares the interval trees of  *)
(* the threads of a barrier interval (main and analyze_trees in            *)
(* src/tools/sword-race-analysis.cc).  main walks over the list of trees,  *)
(* starts a thread for each pair of neighbours, takes the second tree of   *)
(* the pair off the list, and joins all threads before the next round.  A  *)
(* comparing thread reports the overlaps of its two trees and then moves   *)
(* the nodes of the second into the first, except in the last comparison.  *)
(*                                                                         *)
(* All that matters of a node is whose accesses it holds, so a tree is the *)
(* set of the threads whose accesses are in it: a thread's own tree holds  *)
(* its accesses, or nothing when it made none in the interval.             *)
(***************************************************************************)
EXTENDS Integers, Sequences, FiniteSets

CONSTANT N      \* bound: threads with a record of the barrier interval

ASSUME NAssumption == N \in Nat

VARIABLES
  pc,          \* where main is
  list,        \* interval_trees: the trees still on the list
  it,          \* position of the iterator, Len(list) + 1 is end()
  lst_size,    \* trees of the round that are not paired yet
  lm_thread,   \* the comparisons of the round
  nodes,       \* whose accesses a tree holds
  compared     \* pairs of threads whose accesses were compared

vars == <<pc, list, it, lst_size, lm_thread, nodes, compared>>

Trees == 1 .. N

(* Threads that made accesses in the interval: the ones whose tree was not *)
(* empty, wherever their nodes are now.                                    *)
Active == UNION {nodes[t] : t \in Trees}

(* Two threads, in either order.                                           *)
Pair(x, y) == {x, y}

-----------------------------------------------------------------------------
(* The trees are loaded and the list holds one of each thread that has a   *)
(* record of the interval.                                                 *)
Init ==
  /\ pc = "outer"
  /\ \E n \in 0 .. N, active \in SUBSET Trees :
       /\ list = [i \in 1 .. n |-> i]
       /\ nodes = [t \in Trees |-> {t} \cap active \cap 1 .. n]
  /\ it = 1 /\ lst_size = 0
  /\ lm_thread = {}
  /\ compared = {}

(* while(interval_trees.size() > 1): the next round begins.                *)
StartRound ==
  /\ pc = "outer" /\ Len(list) > 1
  /\ lst_size' = Len(list)
  /\ it' = 1
  /\ pc' = "inner"
  /\ UNCHANGED <<list, lm_thread, nodes, compared>>

(* The condition of the inner loop.                                        *)
MorePairs == lst_size # 1 /\ it <= Len(list)

(* Mutant: the size is read after the second tree has left the list.       *)
IsLastAfterErase == Len(list) - 1 = 2

(* The comparison after which no tree is needed any more.                  *)
IsLast == Len(list) = 2

(* Mutant: the second tree of a pair stays on the list.                    *)
StartPairKeeping ==
  /\ pc = "inner" /\ MorePairs
  /\ lm_thread' = lm_thread \cup
       {[t1 |-> list[it], t2 |-> list[it + 1], last |-> IsLast,
         todo |-> nodes[list[it + 1]], stage |-> "overlap"]}
  /\ it' = it + 2
  /\ lst_size' = lst_size - 2
  /\ UNCHANGED <<pc, list, nodes, compared>>

(* The body of the inner loop: a thread for the next two trees, the second *)
(* of which is erased from the list.                                       *)
StartPair ==
  /\ pc = "inner" /\ MorePairs
  /\ lm_thread' = lm_thread \cup
       {[t1 |-> list[it], t2 |-> list[it + 1], last |-> IsLast,
         todo |-> nodes[list[it + 1]], stage |-> "overlap"]}
  /\ list' = SubSeq(list, 1, it) \o SubSeq(list, it + 2, Len(list))
  /\ it' = it + 1
  /\ lst_size' = lst_size - 2
  /\ UNCHANGED <<pc, nodes, compared>>

EndPairing ==
  /\ pc = "inner" /\ ~MorePairs
  /\ pc' = "join"
  /\ UNCHANGED <<list, it, lst_size, lm_thread, nodes, compared>>

(* Mutant: the round does not wait for its comparisons.                    *)
JoinEarly ==
  /\ pc = "join"
  /\ pc' = "outer"
  /\ UNCHANGED <<list, it, lst_size, lm_thread, nodes, compared>>

(* All threads of the round are joined.                                    *)
Join ==
  /\ pc = "join" /\ \A w \in lm_thread : w.stage = "end"
  /\ lm_thread' = {}
  /\ pc' = "outer"
  /\ UNCHANGED <<list, it, lst_size, nodes, compared>>

(* One tree is left, or there was none: main goes on to the reports.       *)
Finish ==
  /\ pc = "outer" /\ Len(list) <= 1
  /\ pc' = "report"
  /\ UNCHANGED <<list, it, lst_size, lm_thread, nodes, compared>>

-----------------------------------------------------------------------------
(* A comparing thread goes on.                                             *)
Becomes(w, v) == lm_thread' = (lm_thread \ {w}) \cup {v}

(* interval_tree_overlap takes the next nodes of the second tree, the ones *)
(* of thread x, and compares them with the first tree.                     *)
Overlap(w, x) ==
  /\ w.stage = "overlap" /\ x \in w.todo
  /\ compared' = compared \cup {Pair(x, y) : y \in nodes[w.t1]}
  /\ Becomes(w, [w EXCEPT !.todo = @ \ {x}])
  /\ UNCHANGED <<pc, list, it, lst_size, nodes>>

(* The rest of analyze_trees: merge the trees unless this is the last.     *)
EndOverlap(w) ==
  /\ w.stage = "overlap" /\ w.todo = {}
  /\ Becomes(w, [w EXCEPT !.stage = IF w.last THEN "end" ELSE "merge"])
  /\ UNCHANGED <<pc, list, it, lst_size, nodes, compared>>

(* interval_tree_merge moves the nodes of thread x to the first tree.      *)
Merge(w, x) ==
  /\ w.stage = "merge" /\ x \in nodes[w.t2]
  /\ nodes' = [nodes EXCEPT ![w.t1] = @ \cup {x}, ![w.t2] = @ \ {x}]
  /\ UNCHANGED <<pc, list, it, lst_size, lm_thread, compared>>

(* When the first tree is empty the search for the place of the node does  *)
(* not set rb_parent, and the node is linked to whatever the variable      *)
(* holds: a null pointer, which is right, or one that is not.              *)
MergeIntoEmpty(w, x) ==
  /\ w.stage = "merge" /\ x \in nodes[w.t2] /\ nodes[w.t1] = {}
  /\ pc' = "crashed" /\ lm_thread' = {}
  /\ UNCHANGED <<list, it, lst_size, nodes, compared>>

EndMerge(w) ==
  /\ w.stage = "merge" /\ nodes[w.t2] = {}
  /\ Becomes(w, [w EXCEPT !.stage = "end"])
  /\ UNCHANGED <<pc, list, it, lst_size, nodes, compared>>

-----------------------------------------------------------------------------
Main == StartRound \/ StartPair \/ EndPairing \/ Join \/ Finish

Compare ==
  \E w \in lm_thread :
    \/ \E x \in Trees : Overlap(w, x) \/ Merge(w, x) \/ MergeIntoEmpty(w, x)
    \/ EndOverlap(w) \/ EndMerge(w)

(* exit() at the end of main, or the crash, has ended the process.         *)
Exited == pc \in {"report", "crashed"} /\ UNCHANGED vars

Next == Main \/ Compare \/ Exited

Spec == Init /\ [][Next]_vars

(* The operating system runs main and the threads it has started.          *)
FairSpec == Spec /\ WF_vars(Main) /\ WF_vars(Compare)

-----------------------------------------------------------------------------
(* Properties.                                                             *)

(* Every variable has its type; the iterator never passes the end of the   *)
(* list, and the count of unpaired trees never becomes negative, which the *)
(* inner loop's test for 1 would miss.                                     *)
TypeOK ==
  /\ pc \in {"outer", "inner", "join", "report", "crashed"}
  /\ list \in Seq(Trees)
  /\ it \in 1 .. Len(list) + 1 /\ lst_size \in Nat
  /\ lm_thread \subseteq [t1 : Trees, t2 : Trees, last : BOOLEAN,
                          todo : SUBSET Trees, stage : {"overlap", "merge", "end"}]
  /\ nodes \in [Trees -> SUBSET Trees]
  /\ compared \subseteq SUBSET Trees

IteratorValid == pc = "inner" /\ MorePairs => it < Len(list)

TreesExclusive ==
  \A w, v \in lm_thread : w # v => {w.t1, w.t2} \cap {v.t1, v.t2} = {}

(* The inner loop never reads past the end of the list: where it goes on,  *)
(* two trees are left in front of the iterator (IteratorValid).  And no    *)
(* tree it hands out is in the hands of two threads at a time: none of the *)
(* operations on the trees takes a lock (TreesExclusive).                  *)
PairingSafe == IteratorValid /\ TreesExclusive

AllPairsCompared ==
  pc = "report" => \A x, y \in Active : x # y => Pair(x, y) \in compared

ComparedOnce ==
  \A w \in lm_thread : w.stage = "overlap" =>
    \A x \in w.todo, y \in nodes[w.t1] : Pair(x, y) \notin compared

(* When the reports are written, the accesses of every two threads have    *)
(* been compared (AllPairsCompared), and none was compared a second time,  *)
(* which would report their races again (ComparedOnce).                    *)
EachPairOnce == AllPairsCompared /\ ComparedOnce

(* The rounds come to an end.                                              *)
Terminates == <>(pc \in {"report", "crashed"})
=============================================================================
