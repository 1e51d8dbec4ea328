------------------------- MODULE RaceTreesProofs -----------------------------
(***************************************************************************)
(* The trees of the race analyzer.  The pairing rounds (Tournament)        *)
(* compare the accesses of every two threads, exactly once, and no tree is *)
(* used by two comparisons at a time, for any number of threads.  A tree   *)
(* (RbTree) is a red-black tree between its operations and nearly one      *)
(* inside the rebalancing loops, which work nearer to the root with every  *)
(* iteration, for any number of nodes and intervals.                       *)
(***************************************************************************)
EXTENDS Tournament, RbTree, WellFoundedInduction, FiniteSetTheorems,
        SequenceTheorems, TLAPS

-----------------------------------------------------------------------------
(* The pairing rounds.                                                     *)

OnList(t) == \E i \in 1 .. Len(list) : list[i] = t

(* The list holds no tree twice, and the count of the inner loop is the    *)
(* number of trees from the iterator on.                                   *)
ListInv ==
  /\ \A i, j \in 1 .. Len(list) : list[i] = list[j] => i = j
  /\ pc = "inner" => lst_size = Len(list) - it + 1

(* The first tree of a running comparison is on the list in front of the   *)
(* iterator, the second has left it, and no other comparison has either.   *)
ThreadInv ==
  /\ pc \in {"outer", "report", "crashed"} => lm_thread = {}
  /\ \A w \in lm_thread :
       /\ \E i \in 1 .. Len(list) : i < it /\ list[i] = w.t1
       /\ ~OnList(w.t2) /\ w.t1 # w.t2
       /\ w.last => Len(list) = 1
       /\ w.todo \subseteq nodes[w.t2]
       /\ w.stage # "overlap" => w.todo = {}
       /\ w.stage = "end" /\ ~w.last => nodes[w.t2] = {}
  /\ \A w, v \in lm_thread :
       w # v => w.t1 # v.t1 /\ w.t1 # v.t2 /\ w.t2 # v.t1 /\ w.t2 # v.t2

(* The nodes of a thread are in one tree.                                  *)
NodesInv ==
  \A t, s \in Trees : \A x \in nodes[t] : x \in nodes[s] => t = s

(* They are in a tree that is on the list or being merged.                 *)
Located ==
  pc \in {"inner", "join"} \/ (pc = "outer" /\ Len(list) > 1) =>
    \A t \in Trees : nodes[t] # {} =>
      OnList(t) \/ \E w \in lm_thread : w.t2 = t

(* Threads whose nodes are in one tree were compared, and so were those in *)
(* the two trees of a comparison, as far as it has come.                   *)
Done ==
  /\ \A t \in Trees : \A x, y \in nodes[t] : x # y => Pair(x, y) \in compared
  /\ \A w \in lm_thread : \A x \in nodes[w.t2] \ w.todo, y \in nodes[w.t1] :
       Pair(x, y) \in compared

(* When the list is used up everything was compared.                       *)
Final ==
  (pc = "outer" /\ Len(list) <= 1) \/ pc = "report" =>
    \A t, s \in Trees : \A x \in nodes[t], y \in nodes[s] :
      x # y => Pair(x, y) \in compared

(* v has compared the nodes of x in tree t with those of y in tree s.      *)
DoneBy(v, t, x, s, y) ==
  \/ v.t1 = t /\ v.t2 = s /\ y \notin v.todo
  \/ v.t1 = s /\ v.t2 = t /\ x \notin v.todo

(* Threads in different trees were compared only by a comparison that is   *)
(* still running, or at the very end.                                      *)
NotDone ==
  \A t, s \in Trees : \A x \in nodes[t], y \in nodes[s] :
    t # s /\ Pair(x, y) \in compared =>
      \/ \E v \in lm_thread : DoneBy(v, t, x, s, y)
      \/ pc = "outer" /\ Len(list) <= 1
      \/ pc \in {"report", "crashed"}

IInv ==
  /\ TypeOK /\ ListInv /\ ThreadInv /\ NodesInv /\ Located /\ Done /\ Final
  /\ NotDone

-----------------------------------------------------------------------------
(* Pair is symmetric and determines its two threads.                       *)
LEMMA PairSym == \A x, y : Pair(x, y) = Pair(y, x)
BY DEF Pair

LEMMA PairEq ==
  ASSUME NEW x, NEW y, NEW a, NEW b, Pair(x, y) = Pair(a, b)
  PROVE  (x = a /\ y = b) \/ (x = b /\ y = a)
BY DEF Pair

LEMMA NotOne == \A k \in Nat : k > 1 => k # 1
OBVIOUS

(* Erasing the element after position p of a list.                         *)
LEMMA EraseAfter ==
  ASSUME NEW S, NEW s \in Seq(S), NEW p \in 1 .. Len(s) - 1
  PROVE  LET r == SubSeq(s, 1, p) \o SubSeq(s, p + 2, Len(s))
         IN /\ r \in Seq(S) /\ Len(r) = Len(s) - 1
            /\ \A i \in 1 .. Len(s) - 1 : r[i] = IF i <= p THEN s[i] ELSE s[i + 1]
<1> DEFINE a == SubSeq(s, 1, p)
           b == SubSeq(s, p + 2, Len(s))
<1>0. Len(s) \in Nat /\ p \in Nat /\ p <= Len(s) - 1
  OBVIOUS
<1>1. a \in Seq(S) /\ Len(a) = p /\ \A i \in 1 .. p : a[i] = s[i]
  OBVIOUS
<1>2. b \in Seq(S) /\ Len(b) = Len(s) - p - 1
      /\ \A i \in 1 .. Len(s) - p - 1 : b[i] = s[p + 1 + i]
  OBVIOUS
<1> HIDE DEF a, b
<1>3. /\ a \o b \in Seq(S) /\ Len(a \o b) = Len(a) + Len(b)
      /\ \A i \in 1 .. Len(a) + Len(b) :
           (a \o b)[i] = IF i <= Len(a) THEN a[i] ELSE b[i - Len(a)]
  BY <1>1, <1>2, ConcatProperties
<1>4. Len(a) + Len(b) = Len(s) - 1
  BY <1>0, <1>1, <1>2
<1>5. ASSUME NEW i \in 1 .. Len(s) - 1
      PROVE  (a \o b)[i] = IF i <= p THEN s[i] ELSE s[i + 1]
  <2>1. (a \o b)[i] = IF i <= p THEN a[i] ELSE b[i - p]
    BY <1>1, <1>3, <1>4
  <2>2. CASE i <= p
    BY <1>0, <1>1, <2>1, <2>2
  <2>3. CASE ~(i <= p)
    <3>1. i - p \in 1 .. Len(s) - p - 1 /\ p + 1 + (i - p) = i + 1
      BY <1>0, <2>3
    <3>2. b[i - p] = s[i + 1]
      BY <1>2, <3>1
    <3> QED BY <2>1, <2>3, <3>2
  <2> QED BY <2>2, <2>3
<1> QED BY <1>3, <1>4, <1>5 DEF a, b

-----------------------------------------------------------------------------
(* At the beginning every tree on the list holds at most its own thread.   *)
LEMMA InitInv == Init => IInv
<1> SUFFICES ASSUME Init PROVE IInv
  OBVIOUS
<1>1. PICK n \in 0 .. N, active \in SUBSET Trees :
        /\ list = [i \in 1 .. n |-> i]
        /\ nodes = [t \in Trees |-> {t} \cap active \cap 1 .. n]
  BY DEF Init
<1>2. n \in Nat /\ 1 .. n \subseteq Trees
  BY NAssumption DEF Trees
<1>3. list \in Seq(Trees) /\ Len(list) = n /\ \A i \in 1 .. n : list[i] = i
  BY <1>1, <1>2
<1>4. \A t \in Trees : \A x \in nodes[t] : x = t /\ t \in 1 .. n
  BY <1>1
<1>5. TypeOK
  BY <1>1, <1>3 DEF Init, TypeOK
<1>6. ListInv /\ ThreadInv /\ NodesInv
  BY <1>3, <1>4 DEF Init, ListInv, ThreadInv, NodesInv
<1>7. Located
  BY <1>3, <1>4 DEF Init, Located, OnList
<1>8. Done /\ NotDone
  BY <1>4 DEF Init, Done, NotDone
<1>9. Final
  <2>1. ASSUME n <= 1, NEW t \in Trees, NEW u \in Trees,
               NEW x \in nodes[t], NEW y \in nodes[u]
        PROVE  x = y
    BY <1>2, <1>4, <2>1
  <2>2. pc = "outer"
    BY DEF Init
  <2>3. CASE n <= 1
    BY <2>1, <2>3 DEF Final
  <2>4. CASE ~(n <= 1)
    BY <1>3, <2>2, <2>4 DEF Final
  <2> QED BY <2>3, <2>4
<1> QED BY <1>5, <1>6, <1>7, <1>8, <1>9 DEF IInv

(* What main does between the comparisons.                                 *)
LEMMA StartRoundStep == IInv /\ StartRound => IInv'
<1> SUFFICES ASSUME IInv, StartRound PROVE IInv'
  OBVIOUS
<1>1. TypeOK'
  BY DEF IInv, TypeOK, StartRound
<1>2. ListInv'
  BY DEF IInv, TypeOK, ListInv, StartRound
<1>3. lm_thread = {} /\ ThreadInv'
  BY DEF IInv, ThreadInv, StartRound
<1>4. NodesInv' /\ Done'
  BY DEF IInv, NodesInv, Done, StartRound
<1>5. Located'
  BY DEF IInv, Located, OnList, StartRound
<1>6. Final'
  BY DEF Final, StartRound
<1>7. NotDone'
  BY <1>3 DEF IInv, TypeOK, NotDone, StartRound
<1> QED BY <1>1, <1>2, <1>3, <1>4, <1>5, <1>6, <1>7 DEF IInv

LEMMA EndPairingStep == IInv /\ EndPairing => IInv'
<1> SUFFICES ASSUME IInv, EndPairing PROVE IInv'
  OBVIOUS
<1>1. TypeOK' /\ ListInv'
  BY DEF IInv, TypeOK, ListInv, EndPairing
<1>2. ThreadInv'
  BY DEF IInv, ThreadInv, OnList, EndPairing
<1>3. NodesInv' /\ Done'
  BY DEF IInv, NodesInv, Done, EndPairing
<1>4. Located'
  BY DEF IInv, Located, OnList, EndPairing
<1>5. Final'
  BY DEF Final, EndPairing
<1>6. NotDone'
  BY DEF IInv, NotDone, DoneBy, EndPairing
<1> QED BY <1>1, <1>2, <1>3, <1>4, <1>5, <1>6 DEF IInv

LEMMA FinishStep == IInv /\ Finish => IInv'
<1> SUFFICES ASSUME IInv, Finish PROVE IInv'
  OBVIOUS
<1>1. TypeOK' /\ ListInv'
  BY DEF IInv, TypeOK, ListInv, Finish
<1>2. ThreadInv'
  BY DEF IInv, ThreadInv, Finish
<1>3. NodesInv' /\ Done'
  BY DEF IInv, NodesInv, Done, Finish
<1>4. Located' /\ Final'
  BY DEF IInv, Located, Final, Finish
<1>5. NotDone'
  BY DEF IInv, NotDone, Finish
<1> QED BY <1>1, <1>2, <1>3, <1>4, <1>5 DEF IInv

(* A new comparison takes the two trees at the iterator, which nobody has. *)
LEMMA StartPairStep == IInv /\ StartPair => IInv'
<1> SUFFICES ASSUME IInv, StartPair PROVE IInv'
  OBVIOUS
<1> DEFINE w0 == [t1 |-> list[it], t2 |-> list[it + 1], last |-> IsLast,
                  todo |-> nodes[list[it + 1]], stage |-> "overlap"]
<1>1. /\ TypeOK /\ list \in Seq(Trees) /\ Len(list) \in Nat /\ it \in Nat
      /\ it >= 1 /\ it < Len(list) /\ pc = "inner"
  <2>1. TypeOK /\ ListInv
    BY Zenon DEF IInv
  <2>2. pc = "inner" /\ MorePairs
    BY DEF StartPair
  <2> QED BY <2>1, <2>2 DEF TypeOK, ListInv, MorePairs
<1>2. /\ list' \in Seq(Trees) /\ Len(list') = Len(list) - 1
      /\ \A i \in 1 .. Len(list) - 1 :
           list'[i] = IF i <= it THEN list[i] ELSE list[i + 1]
  BY <1>1, EraseAfter DEF StartPair
<1>3. /\ list[it] \in Trees /\ list[it + 1] \in Trees
      /\ list[it] # list[it + 1]
  BY <1>1 DEF IInv, ListInv
<1>4. /\ lm_thread' = lm_thread \cup {w0} /\ it' = it + 1 /\ pc' = "inner"
      /\ lst_size' = lst_size - 2 /\ nodes' = nodes /\ compared' = compared
      /\ lst_size = Len(list) - it + 1
  BY <1>1 DEF StartPair, IInv, ListInv
<1>5. /\ w0.t1 = list[it] /\ w0.t2 = list[it + 1] /\ w0.last = (Len(list) = 2)
      /\ w0.todo = nodes[list[it + 1]] /\ w0.stage = "overlap"
  BY DEF IsLast
<1>6. w0 \in [t1 : Trees, t2 : Trees, last : BOOLEAN, todo : SUBSET Trees,
              stage : {"overlap", "merge", "end"}]
  BY <1>1, <1>3 DEF TypeOK, IsLast
<1> HIDE DEF w0
<1>7. TypeOK'
  <2>1. it' \in 1 .. Len(list') + 1 /\ lst_size' \in Nat
    BY <1>1, <1>2, <1>4
  <2>2. lm_thread' \subseteq [t1 : Trees, t2 : Trees, last : BOOLEAN,
                              todo : SUBSET Trees, stage : {"overlap", "merge", "end"}]
    BY <1>1, <1>4, <1>6 DEF TypeOK
  <2>3. nodes' \in [Trees -> SUBSET Trees] /\ compared' \subseteq SUBSET Trees
    BY <1>1, <1>4 DEF TypeOK
  <2> QED BY <1>2, <1>4, <2>1, <2>2, <2>3 DEF TypeOK
<1>8. ListInv'
  <2>1. \A i, j \in 1 .. Len(list') : list'[i] = list'[j] => i = j
    <3> SUFFICES ASSUME NEW i \in 1 .. Len(list) - 1, NEW j \in 1 .. Len(list) - 1,
                        list'[i] = list'[j]
                 PROVE  i = j
      BY <1>2
    <3> DEFINE ii == IF i <= it THEN i ELSE i + 1
               jj == IF j <= it THEN j ELSE j + 1
    <3>1. /\ ii \in 1 .. Len(list) /\ jj \in 1 .. Len(list)
          /\ list'[i] = list[ii] /\ list'[j] = list[jj]
      BY <1>1, <1>2
    <3>2. ii = jj
      BY <3>1 DEF IInv, ListInv
    <3> QED BY <1>1, <3>2
  <2>2. lst_size' = Len(list') - it' + 1
    BY <1>1, <1>2, <1>4
  <2> QED BY <2>1, <2>2 DEF ListInv
(* A tree is on the shorter list exactly if it was on the list and is not  *)
(* the erased one.                                                         *)
<1>9. \A t : OnList(t)' <=> OnList(t) /\ t # list[it + 1]
  <2> TAKE t
  <2>1. ASSUME OnList(t)' PROVE OnList(t) /\ t # list[it + 1]
    <3>1. PICK i \in 1 .. Len(list) - 1 : list'[i] = t
      BY <1>2, <2>1 DEF OnList
    <3> DEFINE ii == IF i <= it THEN i ELSE i + 1
    <3>2. ii \in 1 .. Len(list) /\ ii # it + 1 /\ list[ii] = t
      BY <1>1, <1>2, <3>1
    <3>3. it + 1 \in 1 .. Len(list)
      BY <1>1
    <3> QED BY <3>2, <3>3 DEF OnList, IInv, ListInv
  <2>2. ASSUME OnList(t), t # list[it + 1] PROVE OnList(t)'
    <3>1. PICK i \in 1 .. Len(list) : list[i] = t
      BY <2>2 DEF OnList
    <3>2. i # it + 1
      BY <2>2, <3>1
    <3> DEFINE ii == IF i <= it THEN i ELSE i - 1
    <3>3. ii \in 1 .. Len(list) - 1 /\ list'[ii] = t
      BY <1>1, <1>2, <3>1, <3>2
    <3> QED BY <1>2, <3>3 DEF OnList
  <2> QED BY <2>1, <2>2
(* No comparison that runs already has one of the two trees.               *)
<1>10. ASSUME NEW w \in lm_thread
       PROVE  /\ \E i \in 1 .. Len(list') : i < it' /\ list'[i] = w.t1
              /\ w.t1 # list[it] /\ w.t1 # list[it + 1]
              /\ w.t2 # list[it] /\ w.t2 # list[it + 1]
              /\ ~w.last
  <2>1. PICK i \in 1 .. Len(list) : i < it /\ list[i] = w.t1
    BY DEF IInv, ThreadInv
  <2>2. i \in 1 .. Len(list') /\ i < it' /\ list'[i] = w.t1
    BY <1>1, <1>2, <1>4, <2>1
  <2>3. w.t1 # list[it] /\ w.t1 # list[it + 1]
    BY <1>1, <2>1 DEF IInv, ListInv
  <2>4. w.t2 # list[it] /\ w.t2 # list[it + 1]
    BY <1>1 DEF IInv, ThreadInv, OnList
  <2>5. ~w.last
    <3>1. Len(list) > 1
      BY <1>1
    <3>2. Len(list) # 1
      BY <1>1, <3>1, NotOne
    <3> QED BY <3>2 DEF IInv, ThreadInv
  <2> QED BY <2>2, <2>3, <2>4, <2>5
<1>11. ThreadInv'
  <2>1. ASSUME NEW w \in lm_thread'
        PROVE  /\ \E i \in 1 .. Len(list') : i < it' /\ list'[i] = w.t1
               /\ ~OnList(w.t2)' /\ w.t1 # w.t2
               /\ w.last => Len(list') = 1
               /\ w.todo \subseteq nodes'[w.t2]
               /\ w.stage # "overlap" => w.todo = {}
               /\ w.stage = "end" /\ ~w.last => nodes'[w.t2] = {}
    <3>1. CASE w \in lm_thread
      BY <1>4, <1>9, <1>10, <3>1 DEF IInv, ThreadInv
    <3>2. CASE w = w0
      <4>1. it \in 1 .. Len(list') /\ it < it' /\ list'[it] = w.t1
        BY <1>1, <1>2, <1>4, <1>5, <3>2
      <4>2. w.last => Len(list') = 1
        <5> SUFFICES ASSUME w.last PROVE Len(list') = 1
          OBVIOUS
        <5>1. Len(list) = 2
          BY <1>5, <3>2
        <5> QED BY <1>2, <5>1
      <4>3. ~OnList(w.t2)' /\ w.t1 # w.t2 /\ w.todo \subseteq nodes'[w.t2]
        BY <1>3, <1>4, <1>5, <1>9, <3>2
      <4>4. w.stage = "overlap"
        BY <1>5, <3>2
      <4> QED BY <4>1, <4>2, <4>3, <4>4
    <3> QED BY <1>4, <3>1, <3>2
  <2>2. ASSUME NEW w \in lm_thread', NEW v \in lm_thread', w # v
        PROVE  w.t1 # v.t1 /\ w.t1 # v.t2 /\ w.t2 # v.t1 /\ w.t2 # v.t2
    <3>1. CASE w \in lm_thread /\ v \in lm_thread
      BY <2>2, <3>1 DEF IInv, ThreadInv
    <3>2. CASE w \in lm_thread /\ v = w0
      BY <1>5, <1>10, <3>2
    <3>3. CASE w = w0 /\ v \in lm_thread
      BY <1>5, <1>10, <3>3
    <3> QED BY <1>4, <2>2, <3>1, <3>2, <3>3
  <2> QED BY <1>4, <2>1, <2>2 DEF ThreadInv
<1>12. NodesInv'
  BY <1>4 DEF IInv, NodesInv
<1>13. Located'
  <2> SUFFICES ASSUME NEW t \in Trees, nodes[t] # {}
               PROVE  OnList(t)' \/ \E w \in lm_thread' : w.t2 = t
    BY <1>4 DEF Located
  <2>1. OnList(t) \/ \E w \in lm_thread : w.t2 = t
    BY <1>1 DEF IInv, Located
  <2> QED BY <1>4, <1>5, <1>9, <2>1
<1>14. Done'
  BY <1>4, <1>5 DEF IInv, Done
<1>15. Final'
  BY <1>4 DEF Final
<1>16. NotDone'
  <2> SUFFICES ASSUME NEW t \in Trees, NEW s \in Trees,
                      NEW x \in nodes[t], NEW y \in nodes[s],
                      t # s, Pair(x, y) \in compared
               PROVE  \E v \in lm_thread' : DoneBy(v, t, x, s, y)
    BY <1>4 DEF NotDone, DoneBy
  <2>1. \E v \in lm_thread : DoneBy(v, t, x, s, y)
    BY <1>1 DEF IInv, NotDone
  <2> QED BY <1>4, <2>1
<1> QED BY <1>7, <1>8, <1>11, <1>12, <1>13, <1>14, <1>15, <1>16 DEF IInv

(* When all comparisons of a round have ended, every second tree is empty, *)
(* or the list is used up and there was only one comparison.               *)
LEMMA JoinStep == IInv /\ Join => IInv'
<1> SUFFICES ASSUME IInv, Join PROVE IInv'
  OBVIOUS
<1>1. /\ lm_thread' = {} /\ pc' = "outer" /\ pc = "join" /\ list' = list
      /\ nodes' = nodes /\ compared' = compared /\ it' = it
      /\ lst_size' = lst_size /\ \A w \in lm_thread : w.stage = "end"
  BY DEF Join
<1>2. TypeOK' /\ Len(list) \in Nat
  BY <1>1 DEF IInv, TypeOK
<1>3. ListInv' /\ ThreadInv' /\ NodesInv' /\ Done'
  BY <1>1 DEF IInv, ListInv, ThreadInv, NodesInv, Done
<1>4. Located'
  <2> SUFFICES ASSUME Len(list) > 1, NEW t \in Trees, nodes[t] # {}
               PROVE  OnList(t)
    BY <1>1 DEF Located, OnList
  <2>1. Len(list) # 1
    BY <1>2, NotOne
  <2>2. ASSUME NEW w \in lm_thread, w.t2 = t PROVE FALSE
    BY <1>1, <2>1, <2>2 DEF IInv, ThreadInv
  <2> QED BY <1>1, <2>2 DEF IInv, Located
<1>5. Final'
  <2> SUFFICES ASSUME Len(list) <= 1, NEW t \in Trees, NEW s \in Trees,
                      NEW x \in nodes[t], NEW y \in nodes[s], x # y
               PROVE  Pair(x, y) \in compared
    BY <1>1 DEF Final
  <2>1. \A w \in lm_thread : 1 \in 1 .. Len(list) /\ w.t1 = list[1] /\ w.todo = {}
    <3> TAKE w \in lm_thread
    <3>1. PICK i \in 1 .. Len(list) : i < it /\ list[i] = w.t1
      BY DEF IInv, ThreadInv
    <3>2. i = 1
      BY <1>2, <3>1
    <3>3. w.todo = {}
      BY <1>1 DEF IInv, ThreadInv
    <3> QED BY <3>1, <3>2, <3>3
  <2>2. \A w, v \in lm_thread : w = v
    BY <2>1 DEF IInv, ThreadInv
  <2>3. \A u : OnList(u) => u = list[1]
    BY <1>2 DEF OnList
  <2>4. /\ OnList(t) \/ \E w \in lm_thread : w.t2 = t
        /\ OnList(s) \/ \E w \in lm_thread : w.t2 = s
    BY <1>1 DEF IInv, Located
  <2>5. CASE t = s
    BY <2>5 DEF IInv, Done
  <2>6. CASE t # s
    <3>1. PICK w \in lm_thread : (t = w.t1 /\ s = w.t2) \/ (t = w.t2 /\ s = w.t1)
      BY <2>1, <2>2, <2>3, <2>4, <2>6
    <3>2. CASE t = w.t1 /\ s = w.t2
      <4>1. Pair(y, x) \in compared
        BY <2>1, <3>2 DEF IInv, Done
      <4> QED BY <4>1, PairSym
    <3>3. CASE t = w.t2 /\ s = w.t1
      BY <2>1, <3>3 DEF IInv, Done
    <3> QED BY <3>1, <3>2, <3>3
  <2> QED BY <2>5, <2>6
<1>6. NotDone'
  <2> SUFFICES ASSUME NEW t \in Trees, NEW s \in Trees,
                      NEW x \in nodes[t], NEW y \in nodes[s],
                      t # s, Pair(x, y) \in compared
               PROVE  Len(list) <= 1
    BY <1>1 DEF NotDone
  <2>1. PICK v \in lm_thread : DoneBy(v, t, x, s, y)
    BY <1>1 DEF IInv, NotDone
  <2>2. v.last
    <3>1. nodes[v.t2] # {}
      BY <2>1 DEF DoneBy
    <3> QED BY <1>1, <3>1 DEF IInv, ThreadInv
  <2>3. Len(list) = 1
    BY <2>2 DEF IInv, ThreadInv
  <2> QED BY <2>3
<1> QED BY <1>2, <1>3, <1>4, <1>5, <1>6 DEF IInv

-----------------------------------------------------------------------------
(* A comparison that goes on keeps its trees, so it stays apart from the   *)
(* others.                                                                 *)
LEMMA BecomesThreads ==
  ASSUME IInv, NEW w \in lm_thread, NEW v, Becomes(w, v),
         UNCHANGED <<pc, list, it, lst_size>>,
         v.t1 = w.t1, v.t2 = w.t2, v.last = w.last,
         v.todo \subseteq nodes'[v.t2], v.stage # "overlap" => v.todo = {},
         v.stage = "end" /\ ~v.last => nodes'[v.t2] = {},
         \A u \in lm_thread \ {w} : nodes'[u.t2] = nodes[u.t2]
  PROVE  ThreadInv'
<1>1. lm_thread' = (lm_thread \ {w}) \cup {v}
  BY DEF Becomes
<1>2. ASSUME NEW u \in lm_thread'
      PROVE  /\ \E i \in 1 .. Len(list') : i < it' /\ list'[i] = u.t1
             /\ ~OnList(u.t2)' /\ u.t1 # u.t2
             /\ u.last => Len(list') = 1
             /\ u.todo \subseteq nodes'[u.t2]
             /\ u.stage # "overlap" => u.todo = {}
             /\ u.stage = "end" /\ ~u.last => nodes'[u.t2] = {}
  <2>1. CASE u = v
    BY <2>1 DEF IInv, ThreadInv, OnList
  <2>2. CASE u \in lm_thread \ {w}
    BY <2>2 DEF IInv, ThreadInv, OnList
  <2> QED BY <1>1, <2>1, <2>2
<1>3. ASSUME NEW u \in lm_thread', NEW z \in lm_thread', u # z
      PROVE  u.t1 # z.t1 /\ u.t1 # z.t2 /\ u.t2 # z.t1 /\ u.t2 # z.t2
  <2>1. \A a \in lm_thread \ {w} :
          /\ v.t1 # a.t1 /\ v.t1 # a.t2 /\ v.t2 # a.t1 /\ v.t2 # a.t2
          /\ a.t1 # v.t1 /\ a.t1 # v.t2 /\ a.t2 # v.t1 /\ a.t2 # v.t2
    BY DEF IInv, ThreadInv
  <2>2. \A a, b \in lm_thread \ {w} :
          a # b => a.t1 # b.t1 /\ a.t1 # b.t2 /\ a.t2 # b.t1 /\ a.t2 # b.t2
    BY DEF IInv, ThreadInv
  <2> QED BY <1>1, <1>3, <2>1, <2>2
<1>4. pc' \in {"outer", "report", "crashed"} => lm_thread' = {}
  BY DEF IInv, ThreadInv
<1> QED BY <1>2, <1>3, <1>4 DEF ThreadInv

(* The nodes of thread x are compared with the first tree.                 *)
LEMMA OverlapStep ==
  ASSUME IInv, NEW w \in lm_thread, NEW x \in Trees, Overlap(w, x)
  PROVE  IInv'
<1> DEFINE v == [w EXCEPT !.todo = @ \ {x}]
<1>1. /\ UNCHANGED <<pc, list, it, lst_size, nodes>> /\ Becomes(w, v)
      /\ compared' = compared \cup {Pair(x, y) : y \in nodes[w.t1]}
      /\ w.stage = "overlap" /\ x \in w.todo
  BY DEF Overlap
<1>2. w \in [t1 : Trees, t2 : Trees, last : BOOLEAN, todo : SUBSET Trees,
             stage : {"overlap", "merge", "end"}]
  BY DEF IInv, TypeOK
<1>3. /\ v \in [t1 : Trees, t2 : Trees, last : BOOLEAN, todo : SUBSET Trees,
                stage : {"overlap", "merge", "end"}]
      /\ v.t1 = w.t1 /\ v.t2 = w.t2 /\ v.last = w.last /\ v.stage = "overlap"
      /\ v.todo = w.todo \ {x}
  BY <1>1, <1>2
<1> HIDE DEF v
<1>4. lm_thread' = (lm_thread \ {w}) \cup {v}
  BY <1>1 DEF Becomes
<1>5. x \in nodes[w.t2] /\ w.todo \subseteq nodes[w.t2] /\ w.t1 # w.t2
  BY <1>1 DEF IInv, ThreadInv
<1>6. TypeOK'
  <2>1. compared' \subseteq SUBSET Trees
    <3>1. nodes[w.t1] \subseteq Trees
      BY <1>2 DEF IInv, TypeOK
    <3> QED BY <1>1, <3>1 DEF IInv, TypeOK, Pair
  <2> QED BY <1>1, <1>3, <1>4, <2>1 DEF IInv, TypeOK
<1>7. ListInv' /\ NodesInv'
  BY <1>1 DEF IInv, ListInv, NodesInv
<1>8. ThreadInv'
  BY <1>1, <1>3, <1>5, BecomesThreads
<1>9. Located'
  BY <1>1, <1>3, <1>4 DEF IInv, Located, OnList
<1>10. Done'
  <2>1. \A t \in Trees : \A a, b \in nodes[t] : a # b => Pair(a, b) \in compared'
    BY <1>1 DEF IInv, Done
  <2>2. ASSUME NEW u \in lm_thread', NEW a \in nodes[u.t2] \ u.todo,
               NEW b \in nodes[u.t1]
        PROVE  Pair(a, b) \in compared'
    <3>1. CASE u = v
      BY <1>1, <1>3, <3>1 DEF IInv, Done
    <3>2. CASE u \in lm_thread
      BY <1>1, <3>2 DEF IInv, Done
    <3> QED BY <1>4, <3>1, <3>2
  <2> QED BY <1>1, <2>1, <2>2 DEF Done
<1>11. Final'
  BY <1>1 DEF IInv, Final, ThreadInv
<1>12. NotDone'
  <2> SUFFICES ASSUME NEW t \in Trees, NEW s \in Trees,
                      NEW a \in nodes[t], NEW b \in nodes[s],
                      t # s, Pair(a, b) \in compared'
               PROVE  \E u \in lm_thread' : DoneBy(u, t, a, s, b)
    BY <1>1 DEF NotDone, DoneBy
  <2>1. pc \notin {"outer", "report", "crashed"}
    BY DEF IInv, ThreadInv
  <2>2. CASE Pair(a, b) \in compared
    <3>1. PICK u \in lm_thread : DoneBy(u, t, a, s, b)
      BY <2>1, <2>2 DEF IInv, NotDone
    <3>2. CASE u = w
      <4>1. DoneBy(v, t, a, s, b)
        BY <1>3, <3>1, <3>2 DEF DoneBy
      <4> QED BY <1>4, <4>1
    <3>3. CASE u # w
      BY <1>4, <3>1, <3>3
    <3> QED BY <3>2, <3>3
  <2>3. CASE Pair(a, b) \notin compared
    <3>1. PICK y \in nodes[w.t1] : Pair(a, b) = Pair(x, y)
      BY <1>1, <2>3
    <3>2. (a = x /\ b = y) \/ (a = y /\ b = x)
      BY <3>1, PairEq
    <3>3. w.t1 \in Trees /\ w.t2 \in Trees
      BY <1>2
    <3>4. (t = w.t2 /\ s = w.t1 /\ a = x) \/ (t = w.t1 /\ s = w.t2 /\ b = x)
      BY <1>5, <3>2, <3>3 DEF IInv, NodesInv
    <3>5. DoneBy(v, t, a, s, b)
      BY <1>3, <3>4 DEF DoneBy
    <3> QED BY <1>4, <3>5
  <2> QED BY <2>2, <2>3
<1> QED BY <1>6, <1>7, <1>8, <1>9, <1>10, <1>11, <1>12 DEF IInv

(* A comparison that changes its stage only.                               *)
LEMMA StageStep ==
  ASSUME IInv, NEW w \in lm_thread, NEW st \in {"merge", "end"},
         Becomes(w, [w EXCEPT !.stage = st]),
         UNCHANGED <<pc, list, it, lst_size, nodes, compared>>,
         w.todo = {}, st = "end" => w.last \/ nodes[w.t2] = {}
  PROVE  IInv'
<1> DEFINE v == [w EXCEPT !.stage = st]
<1>1. w \in [t1 : Trees, t2 : Trees, last : BOOLEAN, todo : SUBSET Trees,
             stage : {"overlap", "merge", "end"}]
  BY DEF IInv, TypeOK
<1>2. /\ v \in [t1 : Trees, t2 : Trees, last : BOOLEAN, todo : SUBSET Trees,
                stage : {"overlap", "merge", "end"}]
      /\ v.t1 = w.t1 /\ v.t2 = w.t2 /\ v.last = w.last /\ v.stage = st
      /\ v.todo = {}
  BY <1>1
<1>3. Becomes(w, v)
  OBVIOUS
<1> HIDE DEF v
<1>4. lm_thread' = (lm_thread \ {w}) \cup {v}
  BY <1>3 DEF Becomes
<1>5. TypeOK' /\ ListInv' /\ NodesInv'
  BY <1>2, <1>4 DEF IInv, TypeOK, ListInv, NodesInv
<1>6. ThreadInv'
  BY <1>2, <1>3, BecomesThreads
<1>7. Located'
  BY <1>2, <1>4 DEF IInv, Located, OnList
<1>8. Done'
  <2>1. ASSUME NEW u \in lm_thread', NEW a \in nodes[u.t2] \ u.todo,
               NEW b \in nodes[u.t1]
        PROVE  Pair(a, b) \in compared
    <3>1. CASE u = v
      BY <1>2, <3>1 DEF IInv, Done
    <3>2. CASE u \in lm_thread
      BY <3>2 DEF IInv, Done
    <3> QED BY <1>4, <3>1, <3>2
  <2> QED BY <2>1 DEF IInv, Done
<1>9. Final'
  BY DEF IInv, Final, ThreadInv
<1>10. NotDone'
  <2> SUFFICES ASSUME NEW t \in Trees, NEW s \in Trees,
                      NEW a \in nodes[t], NEW b \in nodes[s],
                      t # s, Pair(a, b) \in compared
               PROVE  \E u \in lm_thread' : DoneBy(u, t, a, s, b)
    BY DEF NotDone, DoneBy
  <2>1. PICK u \in lm_thread : DoneBy(u, t, a, s, b)
    BY DEF IInv, NotDone, ThreadInv
  <2>2. CASE u = w
    <3>1. DoneBy(v, t, a, s, b)
      BY <1>2, <2>1, <2>2 DEF DoneBy
    <3> QED BY <1>4, <3>1
  <2>3. CASE u # w
    BY <1>4, <2>1, <2>3
  <2> QED BY <2>2, <2>3
<1> QED BY <1>5, <1>6, <1>7, <1>8, <1>9, <1>10 DEF IInv

(* The nodes of thread x move to the first tree, whose threads were        *)
(* compared with x.                                                        *)
LEMMA MergeStep ==
  ASSUME IInv, NEW w \in lm_thread, NEW x \in Trees, Merge(w, x)
  PROVE  IInv'
<1>1. /\ UNCHANGED <<pc, list, it, lst_size, lm_thread, compared>>
      /\ nodes' = [nodes EXCEPT ![w.t1] = @ \cup {x}, ![w.t2] = @ \ {x}]
      /\ w.stage = "merge" /\ x \in nodes[w.t2]
  BY DEF Merge
<1>2. /\ w.t1 \in Trees /\ w.t2 \in Trees /\ w.t1 # w.t2 /\ w.todo = {}
      /\ OnList(w.t1)
  BY <1>1 DEF IInv, TypeOK, ThreadInv, OnList
<1>3. /\ nodes'[w.t1] = nodes[w.t1] \cup {x}
      /\ nodes'[w.t2] = nodes[w.t2] \ {x}
      /\ \A t \in Trees \ {w.t1, w.t2} : nodes'[t] = nodes[t]
  BY <1>1, <1>2 DEF IInv, TypeOK
<1>4. \A u \in lm_thread : u.t1 \in Trees /\ u.t2 \in Trees
  BY DEF IInv, TypeOK
<1>5. \A u \in lm_thread \ {w} :
        /\ u.t1 \in Trees \ {w.t1, w.t2} /\ u.t2 \in Trees \ {w.t1, w.t2}
        /\ nodes'[u.t1] = nodes[u.t1] /\ nodes'[u.t2] = nodes[u.t2]
  BY <1>3, <1>4 DEF IInv, ThreadInv
<1>6. pc \in {"inner", "join"}
  BY DEF IInv, ThreadInv, TypeOK
<1>7. TypeOK'
  BY <1>1 DEF IInv, TypeOK
<1>8. ListInv'
  BY <1>1 DEF IInv, ListInv
<1>9. ThreadInv'
  <2>1. ASSUME NEW u \in lm_thread
        PROVE  /\ u.todo \subseteq nodes'[u.t2]
               /\ u.stage = "end" /\ ~u.last => nodes'[u.t2] = {}
    <3>1. CASE u = w
      BY <1>1, <1>2, <3>1
    <3>2. CASE u # w
      BY <1>5, <3>2 DEF IInv, ThreadInv
    <3> QED BY <3>1, <3>2
  <2>2. ASSUME NEW u \in lm_thread
        PROVE  /\ \E i \in 1 .. Len(list) : i < it /\ list[i] = u.t1
               /\ ~OnList(u.t2) /\ u.t1 # u.t2
               /\ u.last => Len(list) = 1
               /\ u.stage # "overlap" => u.todo = {}
    BY DEF IInv, ThreadInv
  <2>3. \A u, v \in lm_thread :
          u # v => u.t1 # v.t1 /\ u.t1 # v.t2 /\ u.t2 # v.t1 /\ u.t2 # v.t2
    BY DEF IInv, ThreadInv
  <2>4. pc \in {"outer", "report", "crashed"} => lm_thread = {}
    BY DEF IInv, ThreadInv
  <2>5. \A t : OnList(t)' <=> OnList(t)
    BY <1>1 DEF OnList
  <2> QED BY <1>1, <2>1, <2>2, <2>3, <2>4, <2>5 DEF ThreadInv
<1>10. \A t \in Trees : \A a \in nodes'[t] :
         (a = x /\ t = w.t1) \/ (a # x /\ a \in nodes[t])
  BY <1>1, <1>2, <1>3 DEF IInv, NodesInv
<1>11. NodesInv'
  BY <1>10 DEF IInv, NodesInv
<1>12. Located'
  <2> SUFFICES ASSUME NEW t \in Trees, nodes'[t] # {}
               PROVE  OnList(t) \/ \E u \in lm_thread : u.t2 = t
    BY <1>1 DEF Located, OnList
  <2>1. CASE t = w.t1
    BY <1>2, <2>1
  <2>2. CASE t # w.t1
    <3>1. nodes[t] # {}
      BY <1>10, <2>2
    <3> QED BY <1>6, <3>1 DEF IInv, Located
  <2> QED BY <2>1, <2>2
<1>13. /\ \A b \in nodes[w.t1] : Pair(x, b) \in compared /\ Pair(b, x) \in compared
       /\ \A a \in nodes[w.t2] : a # x =>
            Pair(x, a) \in compared /\ Pair(a, x) \in compared
  BY <1>1, <1>2, PairSym DEF IInv, Done
<1>14. Done'
  <2>1. ASSUME NEW t \in Trees, NEW a \in nodes'[t], NEW b \in nodes'[t], a # b
        PROVE  Pair(a, b) \in compared
    <3>1. CASE a \in nodes[t] /\ b \in nodes[t]
      BY <2>1, <3>1 DEF IInv, Done
    <3>2. CASE a = x /\ t = w.t1 /\ b # x /\ b \in nodes[t]
      BY <1>13, <3>2
    <3>3. CASE b = x /\ t = w.t1 /\ a # x /\ a \in nodes[t]
      BY <1>13, <3>3
    <3> QED BY <1>10, <2>1, <3>1, <3>2, <3>3
  <2>2. ASSUME NEW u \in lm_thread, NEW a \in nodes'[u.t2] \ u.todo,
               NEW b \in nodes'[u.t1]
        PROVE  Pair(a, b) \in compared
    <3>1. CASE u = w
      BY <1>2, <1>3, <1>13, <3>1 DEF IInv, Done
    <3>2. CASE u # w
      BY <1>5, <3>2 DEF IInv, Done
    <3> QED BY <3>1, <3>2
  <2> QED BY <1>1, <2>1, <2>2 DEF Done
<1>15. Final'
  BY <1>1, <1>6 DEF Final
<1>16. NotDone'
  <2> SUFFICES ASSUME NEW t \in Trees, NEW s \in Trees,
                      NEW a \in nodes'[t], NEW b \in nodes'[s],
                      t # s, Pair(a, b) \in compared
               PROVE  \E u \in lm_thread : DoneBy(u, t, a, s, b)
    <3>1. \A u, t2, a2, s2, b2 :
            DoneBy(u, t2, a2, s2, b2)' <=> DoneBy(u, t2, a2, s2, b2)
      BY DEF DoneBy
    <3> QED BY <1>1, <3>1 DEF NotDone
  <2>1. \A t2, s2 \in Trees : \A a2 \in nodes[t2], b2 \in nodes[s2] :
          t2 # s2 /\ Pair(a2, b2) \in compared =>
            \E u \in lm_thread : DoneBy(u, t2, a2, s2, b2)
    BY <1>6 DEF IInv, NotDone
  (* No comparison but w can have compared x.                              *)
  <2>2. ASSUME NEW s2 \in Trees \ {w.t1, w.t2}, NEW b2 \in nodes[s2]
        PROVE  Pair(x, b2) \notin compared
    <3> SUFFICES ASSUME Pair(x, b2) \in compared PROVE FALSE
      OBVIOUS
    <3>1. PICK u \in lm_thread : DoneBy(u, w.t2, x, s2, b2)
      BY <1>1, <1>2, <2>1
    <3>2. u = w
      BY <1>5, <3>1 DEF DoneBy
    <3> QED BY <3>1, <3>2 DEF DoneBy
  <2>3. CASE a = x /\ t = w.t1
    <3>1. b \in nodes[s] /\ b # x
      BY <1>10, <2>3
    <3>2. s = w.t2
      BY <2>2, <2>3, <3>1
    <3>3. DoneBy(w, t, a, s, b)
      BY <1>2, <2>3, <3>2 DEF DoneBy
    <3> QED BY <3>3
  <2>4. CASE b = x /\ s = w.t1
    <3>1. a \in nodes[t] /\ a # x
      BY <1>10, <2>4
    <3>2. Pair(x, a) \in compared
      BY <2>4, PairSym
    <3>3. t = w.t2
      BY <2>2, <2>4, <3>1, <3>2
    <3>4. DoneBy(w, t, a, s, b)
      BY <1>2, <2>4, <3>3 DEF DoneBy
    <3> QED BY <3>4
  <2>5. CASE a \in nodes[t] /\ b \in nodes[s]
    BY <2>1, <2>5
  <2> QED BY <1>10, <2>3, <2>4, <2>5
<1> QED BY <1>7, <1>8, <1>9, <1>11, <1>12, <1>14, <1>15, <1>16 DEF IInv

LEMMA CrashStep ==
  ASSUME IInv, NEW w \in lm_thread, NEW x \in Trees, MergeIntoEmpty(w, x)
  PROVE  IInv'
<1>1. TypeOK'
  BY DEF IInv, TypeOK, MergeIntoEmpty
<1>2. ListInv' /\ ThreadInv' /\ NodesInv' /\ Done'
  BY DEF IInv, ListInv, ThreadInv, NodesInv, Done, MergeIntoEmpty
<1>3. Located' /\ Final' /\ NotDone'
  BY DEF Located, Final, NotDone, MergeIntoEmpty
<1> QED BY <1>1, <1>2, <1>3 DEF IInv

-----------------------------------------------------------------------------
(* Every step keeps the invariant.                                         *)
LEMMA IInvStep == IInv /\ [Next]_vars => IInv'
<1> SUFFICES ASSUME IInv, [Next]_vars PROVE IInv'
  OBVIOUS
<1>1. CASE Main
  BY <1>1, StartRoundStep, StartPairStep, EndPairingStep, JoinStep, FinishStep
  DEF Main
<1>2. CASE Compare
  <2>1. PICK w \in lm_thread :
          \/ \E x \in Trees : Overlap(w, x) \/ Merge(w, x) \/ MergeIntoEmpty(w, x)
          \/ EndOverlap(w) \/ EndMerge(w)
    BY <1>2 DEF Compare
  <2>2. CASE \E x \in Trees : Overlap(w, x) \/ Merge(w, x) \/ MergeIntoEmpty(w, x)
    BY <2>2, OverlapStep, MergeStep, CrashStep
  <2>3. CASE EndOverlap(w)
    <3>1. CASE w.last
      BY <2>3, <3>1, StageStep DEF EndOverlap
    <3>2. CASE ~w.last
      BY <2>3, <3>2, StageStep DEF EndOverlap
    <3> QED BY <3>1, <3>2
  <2>4. CASE EndMerge(w)
    <3>1. w.todo = {}
      BY <2>4 DEF EndMerge, IInv, ThreadInv
    <3> QED BY <2>4, <3>1, StageStep DEF EndMerge
  <2> QED BY <2>1, <2>2, <2>3, <2>4
<1>3. CASE UNCHANGED vars
  <2>1. TypeOK' /\ ListInv' /\ NodesInv' /\ Done'
    BY <1>3 DEF vars, IInv, TypeOK, ListInv, NodesInv, Done
  <2>2. ThreadInv' /\ Located'
    BY <1>3 DEF vars, IInv, ThreadInv, Located, OnList
  <2>3. Final' /\ NotDone'
    BY <1>3 DEF vars, IInv, Final, NotDone, DoneBy
  <2> QED BY <2>1, <2>2, <2>3 DEF IInv
<1> QED BY <1>1, <1>2, <1>3 DEF Next, Exited

THEOREM Invariance == Spec => []IInv
BY InitInv, IInvStep, PTL DEF Spec

(* Types, and the iterator of the inner loop stays inside the list.        *)
THEOREM TypeCorrect == Spec => []TypeOK
<1>1. IInv => TypeOK
  BY DEF IInv
<1> QED BY Invariance, <1>1, PTL

(* The inner loop never reads past the end of the list.                    *)
THEOREM IteratorStaysInside == Spec => []IteratorValid
<1>1. IInv => IteratorValid
  BY DEF IInv, TypeOK, ListInv, IteratorValid, MorePairs
<1> QED BY Invariance, <1>1, PTL

(* No tree is used by two comparing threads at a time.                     *)
THEOREM NoSharedTree == Spec => []TreesExclusive
<1>1. IInv => TreesExclusive
  BY DEF IInv, ThreadInv, TreesExclusive
<1> QED BY Invariance, <1>1, PTL

(* When main reports, the accesses of every two threads were compared.     *)
THEOREM NoPairMissed == Spec => []AllPairsCompared
<1>1. IInv => AllPairsCompared
  <2> SUFFICES ASSUME IInv, pc = "report", NEW x \in Active, NEW y \in Active, x # y
               PROVE  Pair(x, y) \in compared
    BY DEF AllPairsCompared
  <2>1. PICK t \in Trees : x \in nodes[t]
    BY DEF Active
  <2>2. PICK s \in Trees : y \in nodes[s]
    BY DEF Active
  <2> QED BY <2>1, <2>2 DEF IInv, Final
<1> QED BY Invariance, <1>1, PTL

(* No two threads are compared twice.                                      *)
THEOREM NoPairTwice == Spec => []ComparedOnce
<1>1. IInv => ComparedOnce
  <2> SUFFICES ASSUME IInv, NEW w \in lm_thread, w.stage = "overlap",
                      NEW x \in w.todo, NEW y \in nodes[w.t1],
                      Pair(x, y) \in compared
               PROVE  FALSE
    BY DEF ComparedOnce
  <2>1. /\ w.t1 \in Trees /\ w.t2 \in Trees /\ w.t1 # w.t2 /\ x \in nodes[w.t2]
        /\ pc \notin {"outer", "report", "crashed"}
    BY DEF IInv, TypeOK, ThreadInv
  <2>2. PICK v \in lm_thread : DoneBy(v, w.t2, x, w.t1, y)
    BY <2>1 DEF IInv, NotDone
  <2>3. v = w
    BY <2>2 DEF DoneBy, IInv, ThreadInv
  <2> QED BY <2>1, <2>2, <2>3 DEF DoneBy
<1> QED BY Invariance, <1>1, PTL

(* The pairing loop stays inside the list and shares no tree.              *)
THEOREM PairingIsSafe == Spec => []PairingSafe
<1>1. IteratorValid /\ TreesExclusive => PairingSafe
  BY DEF PairingSafe
<1> QED BY IteratorStaysInside, NoSharedTree, <1>1, PTL

(* Every two threads with accesses are compared, and once only.            *)
THEOREM PairsComparedOnce == Spec => []EachPairOnce
<1>1. AllPairsCompared /\ ComparedOnce => EachPairOnce
  BY DEF EachPairOnce
<1> QED BY NoPairMissed, NoPairTwice, <1>1, PTL

-----------------------------------------------------------------------------
(* Induction and recursion over the ranks of nodes.                        *)

LEMMA LeastNat ==
  ASSUME NEW T, T \subseteq Nat, T # {}
  PROVE  \E x \in T : \A y \in T : x <= y
<1>r. PICK R : R = {ss \in Nat \X Nat : ss[1] < ss[2]}
  OBVIOUS
<1>1. IsWellFoundedOn(R, Nat)
  BY <1>r, NatLessThanWellFounded DEF OpToRel
<1>2. \A x, y \in Nat : x < y => <<x, y>> \in R
  BY <1>r
<1>3. PICK x \in T : \A y \in T : ~ (<<y, x>> \in R)
  BY <1>1, WFMin
<1>4. \A y \in T : x \in Nat /\ y \in Nat /\ ~(y < x)
  BY <1>2, <1>3
<1> QED BY <1>3, <1>4

(* What passes from all of lower rank to the next holds of all.            *)
LEMMA RankInduction ==
  ASSUME NEW D, NEW r \in [D -> Nat], NEW P,
         \A x \in D : (\A y \in D : r[y] < r[x] => y \in P) => x \in P
  PROVE  \A x \in D : x \in P
<1> SUFFICES ASSUME NEW z \in D, z \notin P PROVE FALSE
  OBVIOUS
<1> DEFINE T == {r[x] : x \in {y \in D : y \notin P}}
<1>1. T \subseteq Nat /\ T # {}
  OBVIOUS
<1>2. PICK m \in T : \A y \in T : m <= y
  BY <1>1, LeastNat
<1>3. PICK x \in D : x \notin P /\ r[x] = m
  BY <1>2
<1>4. \A y \in D : r[y] < r[x] => y \in P
  <2> SUFFICES ASSUME NEW y \in D, r[y] < r[x], y \notin P PROVE FALSE
    OBVIOUS
  <2>1. m <= r[y] /\ m \in Nat /\ r[y] \in Nat
    BY <1>2
  <2> QED BY <1>3, <2>1
<1> QED BY <1>3, <1>4

LEMMA LoopInduction ==
  ASSUME NEW L \in Nat, NEW S, 0 \in S, \A n \in 1 .. L : n - 1 \in S => n \in S
  PROVE  \A n \in 0 .. L : n \in S
<1> SUFFICES ASSUME NEW m \in 0 .. L, m \notin S PROVE FALSE
  OBVIOUS
<1> DEFINE T == {n \in 0 .. L : n \notin S}
<1>1. T \subseteq Nat /\ T # {}
  OBVIOUS
<1>2. PICK x \in T : \A y \in T : x <= y
  BY <1>1, LeastNat
<1>3. x \in 1 .. L /\ x - 1 \in 0 .. L /\ ~(x <= x - 1)
  BY <1>2
<1>4. x - 1 \in S
  BY <1>2, <1>3
<1> QED BY <1>2, <1>3, <1>4

Approximates(F, L, D, T, lf, rt, base, step) ==
  \A n \in 1 .. L, x \in D :
    F[n][x] = IF x \in T THEN base[x] ELSE step[<<x, F[n - 1][lf[x]], F[n - 1][rt[x]]>>]

(* The approximations of a recursive function.                             *)
LEMMA ApproximationsExist ==
  ASSUME NEW D, NEW T, NEW S, NEW L \in Nat,
         NEW lf \in [D -> D], NEW rt \in [D -> D],
         NEW base \in [D -> S], NEW step \in [D \X S \X S -> S]
  PROVE  \E F \in [0 .. L -> [D -> S]] : Approximates(F, L, D, T, lf, rt, base, step)
<1> DEFINE Upto(n) == {F \in [0 .. n -> [D -> S]] : Approximates(F, n, D, T, lf, rt, base, step)}
           G == {n \in 0 .. L : Upto(n) # {}}
<1>1. 0 \in G
  <2> DEFINE F == [k \in 0 .. 0 |-> base]
  <2>1. F \in [0 .. 0 -> [D -> S]] /\ Approximates(F, 0, D, T, lf, rt, base, step)
    BY DEF Approximates
  <2> QED BY <2>1
<1>2. ASSUME NEW n \in 1 .. L, n - 1 \in G PROVE n \in G
  <2>1. PICK F \in [0 .. n - 1 -> [D -> S]] : Approximates(F, n - 1, D, T, lf, rt, base, step)
    BY <1>2
  <2>2. PICK v : v = [x \in D |-> IF x \in T THEN base[x] ELSE step[<<x, F[n - 1][lf[x]], F[n - 1][rt[x]]>>]]
    OBVIOUS
  <2>3. PICK H : H = [k \in 0 .. n |-> IF k = n THEN v ELSE F[k]]
    OBVIOUS
  <2>4. n \in Nat /\ n - 1 \in 0 .. n - 1 /\ F[n - 1] \in [D -> S]
    BY <2>1
  <2>5. v \in [D -> S]
    <3>1. ASSUME NEW x \in D PROVE F[n - 1][lf[x]] \in S /\ F[n - 1][rt[x]] \in S /\ base[x] \in S
      BY <2>4
    <3>2. ASSUME NEW x \in D PROVE <<x, F[n - 1][lf[x]], F[n - 1][rt[x]]>> \in D \X S \X S
      BY <3>1
    <3> QED BY <2>2, <3>1, <3>2
  <2>6. H \in [0 .. n -> [D -> S]] /\ H[n] = v
    BY <2>1, <2>3, <2>4, <2>5
  <2>7. \A k \in 0 .. n - 1 : k \in 0 .. n /\ H[k] = F[k]
    BY <2>3
  <2>8. ASSUME NEW k \in 1 .. n, NEW x \in D
        PROVE  H[k][x] = IF x \in T THEN base[x] ELSE step[<<x, H[k - 1][lf[x]], H[k - 1][rt[x]]>>]
    <3>1. CASE k = n
      <4>1. H[k - 1] = F[n - 1]
        BY <2>4, <2>7, <3>1
      <4> QED BY <2>2, <2>6, <3>1, <4>1
    <3>2. CASE k # n
      <4>1. k \in 1 .. n - 1 /\ k \in 0 .. n - 1 /\ k - 1 \in 0 .. n - 1
        BY <3>2
      <4>2. H[k] = F[k] /\ H[k - 1] = F[k - 1]
        BY <2>7, <4>1
      <4>3. F[k][x] = IF x \in T THEN base[x] ELSE step[<<x, F[k - 1][lf[x]], F[k - 1][rt[x]]>>]
        BY <2>1, <4>1 DEF Approximates
      <4> QED BY <4>2, <4>3
    <3> QED BY <3>1, <3>2
  <2>9. Approximates(H, n, D, T, lf, rt, base, step)
    BY <2>8 DEF Approximates
  <2> QED BY <2>6, <2>9
<1> HIDE DEF G
<1>3. L \in G
  BY <1>1, <1>2, LoopInduction
<1> QED BY <1>3 DEF G

Unfolds(f, D, T, lf, rt, base, step) ==
  \A x \in D : f[x] = IF x \in T THEN base[x] ELSE step[<<x, f[lf[x]], f[rt[x]]>>]

(* A recursion that goes to lower ranks defines a function.                *)
LEMMA RecursionExists ==
  ASSUME NEW D, NEW T, NEW S, NEW B \in Nat, NEW r \in [D -> 0 .. B],
         NEW lf \in [D -> D], NEW rt \in [D -> D],
         NEW base \in [D -> S], NEW step \in [D \X S \X S -> S],
         \A x \in D : x \notin T => r[lf[x]] < r[x] /\ r[rt[x]] < r[x]
  PROVE  \E f \in [D -> S] : Unfolds(f, D, T, lf, rt, base, step)
<1>1. PICK F \in [0 .. B + 1 -> [D -> S]] : Approximates(F, B + 1, D, T, lf, rt, base, step)
  <2>1. B + 1 \in Nat
    OBVIOUS
  <2> QED BY <2>1, ApproximationsExist
<1>2. PICK f : f = [x \in D |-> F[r[x] + 1][x]]
  OBVIOUS
<1>3. \A x \in D : r[x] \in Nat /\ r[x] \in 0 .. B + 1 /\ r[x] + 1 \in 1 .. B + 1 /\ r[x] + 1 \in 0 .. B + 1
  OBVIOUS
<1>4. f \in [D -> S]
  BY <1>1, <1>2, <1>3
<1> DEFINE P == {x \in D : \A n \in 1 .. B + 1 : r[x] < n => F[n][x] = f[x]}
<1>5. ASSUME NEW x \in D, x \notin T, \A y \in D : r[y] < r[x] => y \in P, NEW n \in 1 .. B + 1, r[x] < n
      PROVE  F[n - 1][lf[x]] = f[lf[x]] /\ F[n - 1][rt[x]] = f[rt[x]]
  <2>1. lf[x] \in P /\ rt[x] \in P
    BY <1>5
  <2>2. r[lf[x]] \in Nat /\ r[rt[x]] \in Nat /\ r[x] \in Nat /\ r[lf[x]] < r[x] /\ r[rt[x]] < r[x]
    BY <1>5
  <2>3. n - 1 \in 1 .. B + 1 /\ r[lf[x]] < n - 1 /\ r[rt[x]] < n - 1
    BY <1>5, <2>2
  <2> QED BY <2>1, <2>3
<1>6. ASSUME NEW x \in D, \A y \in D : r[y] < r[x] => y \in P
      PROVE  /\ x \in P
             /\ f[x] = IF x \in T THEN base[x] ELSE step[<<x, f[lf[x]], f[rt[x]]>>]
  <2>1. ASSUME NEW n \in 1 .. B + 1, r[x] < n
        PROVE  F[n][x] = IF x \in T THEN base[x] ELSE step[<<x, f[lf[x]], f[rt[x]]>>]
    <3>1. F[n][x] = IF x \in T THEN base[x] ELSE step[<<x, F[n - 1][lf[x]], F[n - 1][rt[x]]>>]
      BY <1>1 DEF Approximates
    <3>2. CASE x \in T
      BY <3>1, <3>2
    <3>3. CASE x \notin T
      BY <1>5, <1>6, <2>1, <3>1, <3>3
    <3> QED BY <3>2, <3>3
  <2>2. f[x] = IF x \in T THEN base[x] ELSE step[<<x, f[lf[x]], f[rt[x]]>>]
    <3>1. f[x] = F[r[x] + 1][x] /\ r[x] < r[x] + 1
      BY <1>2, <1>3
    <3> QED BY <1>3, <2>1, <3>1
  <2> QED BY <2>1, <2>2
<1>7. r \in [D -> Nat]
  BY <1>3
<1>8. \A x \in D : x \in P
  <2> HIDE DEF P
  <2>1. \A x \in D : (\A y \in D : r[y] < r[x] => y \in P) => x \in P
    BY <1>6
  <2> QED BY <1>7, <2>1, RankInduction, Zenon
<1>9. Unfolds(f, D, T, lf, rt, base, step)
  BY <1>6, <1>8 DEF Unfolds
<1> QED BY <1>4, <1>9

-----------------------------------------------------------------------------
(* What the updates of a heap leave alone.                                 *)

N0 == Nodes \cup {NULL}

IsHeap(h) ==
  /\ h = [f \in DOMAIN h |-> h[f]]
  /\ {"root", "child", "parent", "color", "start", "last", "sub"} \subseteq DOMAIN h
  /\ h.root \in N0
  /\ h.child \in [Sides -> [Nodes -> N0]]
  /\ h.parent \in [Nodes -> N0]
  /\ h.color \in [Nodes -> Colors]

SameData(h, k) == k.start = h.start /\ k.last = h.last

SameLinks(h, k) ==
  /\ IsHeap(k) /\ SameData(h, k)
  /\ k.root = h.root /\ k.child = h.child /\ k.parent = h.parent /\ k.color = h.color

LEMMA NullFacts == NULL \in N0 /\ NULL \notin Nodes /\ Nodes \subseteq N0
BY NodesAssumption DEF N0

LEMMA SidesFacts ==
  /\ "left" \in Sides /\ "right" \in Sides /\ Opposite("left") = "right" /\ Opposite("right") = "left"
  /\ \A s \in Sides : Opposite(s) \in Sides /\ Opposite(s) # s /\ Opposite(Opposite(s)) = s
  /\ \A s, t \in Sides : t = s \/ t = Opposite(s)
BY DEF Sides, Opposite

LEMMA HeapTypes ==
  ASSUME NEW h, IsHeap(h), NEW x \in Nodes
  PROVE  /\ h.parent[x] \in N0 /\ h.color[x] \in Colors /\ h.root \in N0
         /\ \A s \in Sides : h.child[s][x] \in N0
BY DEF IsHeap

LEMMA SetChild ==
  ASSUME NEW h, IsHeap(h), NEW s \in Sides, NEW x \in Nodes, NEW v \in N0
  PROVE  LET k == [h EXCEPT !.child[s][x] = v]
         IN  /\ IsHeap(k) /\ SameData(h, k)
             /\ k.root = h.root /\ k.parent = h.parent /\ k.color = h.color
             /\ \A t \in Sides, y \in Nodes : k.child[t][y] = IF t = s /\ y = x THEN v ELSE h.child[t][y]
<1> DEFINE k == [h EXCEPT !.child[s][x] = v]
<1>1. /\ DOMAIN k = DOMAIN h /\ k = [f \in DOMAIN k |-> k[f]]
      /\ \A f \in DOMAIN h : f # "child" => k[f] = h[f]
  BY DEF IsHeap
<1>2. k.child = [h.child EXCEPT ![s][x] = v]
  BY DEF IsHeap
<1> QED BY <1>1, <1>2 DEF IsHeap, SameData

(* The same as a fact about two heaps.                                     *)
Relinks(h, k, s, x, v) ==
  /\ IsHeap(k) /\ SameData(h, k)
  /\ k.root = h.root /\ k.parent = h.parent /\ k.color = h.color
  /\ \A t \in Sides, y \in Nodes : k.child[t][y] = IF t = s /\ y = x THEN v ELSE h.child[t][y]

LEMMA SetLink ==
  ASSUME NEW h, IsHeap(h), NEW s \in Sides, NEW x \in Nodes, NEW v \in N0
  PROVE  Relinks(h, [h EXCEPT !.child[s][x] = v], s, x, v)
BY SetChild DEF Relinks

LEMMA SetParent ==
  ASSUME NEW h, IsHeap(h), NEW x \in Nodes, NEW v \in N0
  PROVE  LET k == [h EXCEPT !.parent[x] = v]
         IN  /\ IsHeap(k) /\ SameData(h, k)
             /\ k.root = h.root /\ k.child = h.child /\ k.color = h.color
             /\ \A y \in Nodes : k.parent[y] = IF y = x THEN v ELSE h.parent[y]
BY DEF IsHeap, SameData

LEMMA SetColor ==
  ASSUME NEW h, IsHeap(h), NEW x \in Nodes, NEW v \in Colors
  PROVE  LET k == [h EXCEPT !.color[x] = v]
         IN  /\ IsHeap(k) /\ SameData(h, k)
             /\ k.root = h.root /\ k.child = h.child /\ k.parent = h.parent
             /\ \A y \in Nodes : k.color[y] = IF y = x THEN v ELSE h.color[y]
BY DEF IsHeap, SameData

LEMMA SetRoot ==
  ASSUME NEW h, IsHeap(h), NEW v \in N0
  PROVE  LET k == [h EXCEPT !.root = v]
         IN  /\ IsHeap(k) /\ SameData(h, k)
             /\ k.root = v /\ k.child = h.child /\ k.parent = h.parent /\ k.color = h.color
BY DEF IsHeap, SameData

LEMMA SetSub ==
  ASSUME NEW h, IsHeap(h), NEW v
  PROVE  SameLinks(h, [h EXCEPT !.sub = v])
BY DEF IsHeap, SameData, SameLinks

LEMMA SameLinksTrans ==
  ASSUME NEW h, NEW j, NEW k, SameLinks(h, j), SameLinks(j, k)
  PROVE  SameLinks(h, k)
BY DEF SameLinks, SameData

LEMMA SetSubAt ==
  ASSUME NEW h, IsHeap(h), NEW v, NEW x
  PROVE  SameLinks(h, [h EXCEPT !.sub[x] = v])
<1>1. [h EXCEPT !.sub[x] = v] = [h EXCEPT !.sub = [h.sub EXCEPT ![x] = v]]
  BY DEF IsHeap
<1> QED BY <1>1, SetSub

(* rb_set_parent_color; nothing if x is NULL.                              *)
PaintsAt(h, k, x, v, c) ==
  /\ IsHeap(k) /\ SameData(h, k)
  /\ k.root = h.root /\ k.child = h.child
  /\ \A y \in Nodes : k.parent[y] = IF y = x THEN v ELSE h.parent[y]
  /\ \A y \in Nodes : k.color[y] = IF y = x THEN c ELSE h.color[y]

LEMMA SetParentColor ==
  ASSUME NEW h, IsHeap(h), NEW x \in Nodes, NEW v \in N0, NEW c \in Colors
  PROVE  PaintsAt(h, rb_set_parent_color(h, x, v, c), x, v, c)
<1> DEFINE j == [h EXCEPT !.parent[x] = v]
           k == [j EXCEPT !.color[x] = c]
<1>1. k = rb_set_parent_color(h, x, v, c)
  BY DEF rb_set_parent_color
<1>2. /\ IsHeap(j) /\ SameData(h, j)
      /\ j.root = h.root /\ j.child = h.child /\ j.color = h.color
      /\ \A y \in Nodes : j.parent[y] = IF y = x THEN v ELSE h.parent[y]
  BY SetParent
<1> HIDE DEF j
<1>3. /\ IsHeap(k) /\ SameData(j, k)
      /\ k.root = j.root /\ k.child = j.child /\ k.parent = j.parent
      /\ \A y \in Nodes : k.color[y] = IF y = x THEN c ELSE j.color[y]
  BY <1>2, SetColor
<1> HIDE DEF k
<1> QED BY <1>1, <1>2, <1>3 DEF PaintsAt, SameData

LEMMA Adopts ==
  ASSUME NEW h, IsHeap(h), NEW x \in N0, NEW v \in N0
  PROVE  PaintsAt(h, AdoptBlack(h, x, v), x, v, "black")
<1>1. CASE x = NULL
  BY <1>1, NullFacts DEF AdoptBlack, PaintsAt, SameData
<1>2. CASE x # NULL
  <2>1. x \in Nodes /\ "black" \in Colors
    BY <1>2 DEF N0, Colors
  <2> QED BY <1>2, <2>1, SetParentColor DEF AdoptBlack
<1> QED BY <1>1, <1>2

(* The link that rb_change_child replaces.                                 *)
Below(h, old, p) == IF h.child["left"][p] = old THEN "left" ELSE "right"

ChangesChild(h, k, old, v, p) ==
  /\ IsHeap(k) /\ SameData(h, k)
  /\ k.root = IF p = NULL THEN v ELSE h.root
  /\ k.parent = h.parent /\ k.color = h.color
  /\ \A t \in Sides, y \in Nodes :
       k.child[t][y] = IF y = p /\ t = Below(h, old, p) THEN v ELSE h.child[t][y]

LEMMA ChangeChild ==
  ASSUME NEW h, IsHeap(h), NEW old, NEW v \in N0, NEW p \in N0
  PROVE  ChangesChild(h, rb_change_child(h, old, v, p), old, v, p)
<1>1. CASE p = NULL
  BY <1>1, SetRoot, NullFacts DEF rb_change_child, ChangesChild
<1>2. CASE p # NULL
  <2>1. p \in Nodes /\ Below(h, old, p) \in Sides
    BY <1>2, SidesFacts DEF N0, Below
  <2>2. rb_change_child(h, old, v, p) = [h EXCEPT !.child[Below(h, old, p)][p] = v]
    BY <1>2 DEF rb_change_child, Below
  <2> QED BY <1>2, <2>1, <2>2, SetChild DEF ChangesChild
<1> QED BY <1>1, <1>2

Lifts(h, k, o, n, s) ==
  /\ IsHeap(k) /\ SameData(h, k)
  /\ k.root = h.root /\ k.parent = h.parent /\ k.color = h.color
  /\ \A t \in Sides, y \in Nodes :
       k.child[t][y] = IF t = Opposite(s) /\ y = n THEN o
                       ELSE IF t = s /\ y = o THEN h.child[Opposite(s)][n] ELSE h.child[t][y]

SetsChild(h, k, s, x, v) ==
  /\ IsHeap(k) /\ SameData(h, k)
  /\ k.root = h.root /\ k.parent = h.parent /\ k.color = h.color
  /\ \A t \in Sides, y \in Nodes : k.child[t][y] = IF t = s /\ y = x THEN v ELSE h.child[t][y]

LEMMA ChildSet ==
  ASSUME NEW h, IsHeap(h), NEW s \in Sides, NEW x \in Nodes, NEW v \in N0
  PROVE  SetsChild(h, [h EXCEPT !.child[s][x] = v], s, x, v)
BY SetChild DEF SetsChild

LEMMA LiftFields ==
  ASSUME NEW h, IsHeap(h), NEW o \in Nodes, NEW n \in Nodes, NEW s \in Sides
  PROVE  Lifts(h, Lift(h, o, n, s), o, n, s)
<1> DEFINE v == h.child[Opposite(s)][n]
           j == [h EXCEPT !.child[s][o] = v]
           k == [j EXCEPT !.child[Opposite(s)][n] = o]
<1>1. v \in N0 /\ o \in N0 /\ Opposite(s) \in Sides
  BY HeapTypes, SidesFacts, NullFacts
<1>2. k = Lift(h, o, n, s)
  BY DEF Lift
<1> HIDE DEF v
<1>3. SetsChild(h, j, s, o, v)
  BY <1>1, ChildSet
<1>4. IsHeap(j)
  BY <1>3, Zenon DEF SetsChild
<1> HIDE DEF j
<1>5. SetsChild(j, k, Opposite(s), n, o)
  BY <1>1, <1>4, ChildSet
<1> HIDE DEF k
<1> QED BY <1>1, <1>2, <1>3, <1>5 DEF v, Lifts, SetsChild, SameData

SetsParents(h, k, o, n, c) ==
  /\ IsHeap(k) /\ SameData(h, k)
  /\ k.root = IF h.parent[o] = NULL THEN n ELSE h.root
  /\ \A y \in Nodes : k.parent[y] = IF y = o THEN n ELSE IF y = n THEN h.parent[o] ELSE h.parent[y]
  /\ \A y \in Nodes : k.color[y] = IF y = o THEN c ELSE IF y = n THEN h.color[o] ELSE h.color[y]
  /\ \A t \in Sides, y \in Nodes :
       k.child[t][y] = IF y = h.parent[o] /\ t = Below(h, o, h.parent[o]) THEN n ELSE h.child[t][y]

LEMMA RotateSetParents ==
  ASSUME NEW h, IsHeap(h), NEW o \in Nodes, NEW n \in Nodes, NEW c \in Colors
  PROVE  SetsParents(h, rb_rotate_set_parents(h, o, n, c), o, n, c)
<1> DEFINE g == h.parent[o]
           d == h.color[o]
           i == rb_set_parent_color(h, n, g, d)
           j == rb_set_parent_color(i, o, n, c)
           k == rb_change_child(j, o, n, g)
<1>1. k = rb_rotate_set_parents(h, o, n, c)
  BY DEF rb_rotate_set_parents, rb_set_parent_color
<1>2. g \in N0 /\ d \in Colors /\ n \in N0
  BY HeapTypes, NullFacts
<1> HIDE DEF g, d
<1>3. PaintsAt(h, i, n, g, d)
  BY <1>2, SetParentColor
<1> HIDE DEF i
<1>4. PaintsAt(i, j, o, n, c)
  BY <1>2, <1>3, SetParentColor DEF PaintsAt
<1> HIDE DEF j
<1>5. ChangesChild(j, k, o, n, g)
  BY <1>2, <1>4, ChangeChild DEF PaintsAt
<1> HIDE DEF k
<1>6. Below(j, o, g) = Below(h, o, g)
  BY <1>3, <1>4 DEF Below, PaintsAt
<1> QED BY <1>1, <1>3, <1>4, <1>5, <1>6 DEF SetsParents, ChangesChild, PaintsAt, SameData, g, d

(* The callbacks change __subtree_last only.                               *)
LEMMA AugmentRotate ==
  ASSUME NEW h, IsHeap(h), NEW o, NEW n, NEW cb
  PROVE  SameLinks(h, augment_rotate(h, o, n, cb))
<1>1. CASE cb = "dummy"
  BY <1>1 DEF augment_rotate, SameLinks, SameData
<1>2. CASE cb # "dummy"
  <2> DEFINE j == [h EXCEPT !.sub[n] = h.sub[o]]
             v == compute_subtree_last(h, o)
  <2> HIDE DEF v
  <2>1. augment_rotate(h, o, n, cb) = [j EXCEPT !.sub[o] = v]
    BY <1>2 DEF augment_rotate, v
  <2>2. SameLinks(h, j)
    BY SetSubAt
  <2> HIDE DEF j
  <2>3. SameLinks(j, [j EXCEPT !.sub[o] = v])
    BY <2>2, SetSubAt DEF SameLinks
  <2> QED BY <2>1, <2>2, <2>3, SameLinksTrans
<1> QED BY <1>1, <1>2

LEMMA AugmentCopy ==
  ASSUME NEW h, IsHeap(h), NEW o, NEW n, NEW cb
  PROVE  SameLinks(h, augment_copy(h, o, n, cb))
<1>1. CASE cb = "dummy"
  BY <1>1 DEF augment_copy, SameLinks, SameData
<1>2. CASE cb # "dummy"
  BY <1>2, SetSubAt DEF augment_copy
<1> QED BY <1>1, <1>2

LEMMA AugmentPropagate ==
  ASSUME NEW h, IsHeap(h), NEW n, NEW stop, NEW cb
  PROVE  SameLinks(h, augment_propagate(h, n, stop, cb))
<1>1. CASE cb = "dummy"
  BY <1>1 DEF augment_propagate, SameLinks, SameData
<1>2. CASE cb # "dummy"
  BY <1>2, SetSub, Zenon DEF augment_propagate
<1> QED BY <1>1, <1>2

LEMMA LearnFields ==
  ASSUME NEW h, IsHeap(h), NEW passed, NEW last
  PROVE  SameLinks(h, Learn(h, passed, last))
BY SetSub DEF Learn

-----------------------------------------------------------------------------
(* The shape of a tree.                                                    *)

(* M is the set of nodes of the tree: each but the root is the child of    *)
(* its parent, on one side.                                                *)
Tree(h, M) ==
  /\ IsHeap(h) /\ M \subseteq Nodes
  /\ h.root \in M \cup {NULL}
  /\ h.root # NULL => h.parent[h.root] = NULL
  /\ \A x \in M, s \in Sides :
       h.child[s][x] # NULL => h.child[s][x] \in M /\ h.parent[h.child[s][x]] = x
  /\ \A x \in M :
       x # h.root => h.parent[x] \in M /\ \E s \in Sides : h.child[s][h.parent[x]] = x
  /\ \A x \in M, s \in Sides : h.child[s][x] # NULL => h.child[s][x] # h.child[Opposite(s)][x]

(* The links lead to lower ranks: there are no cycles.                     *)
Ranked(h, M, r, B) ==
  /\ B \in Nat /\ r \in [Nodes -> 0 .. B]
  /\ \A x \in M, s \in Sides : h.child[s][x] # NULL => r[h.child[s][x]] < r[x]

(* The nodes outside M are not touched.                                    *)
OutsideSame(h, k, M) ==
  \A x \in Nodes : x \notin M => k.parent[x] = h.parent[x] /\ \A s \in Sides : k.child[s][x] = h.child[s][x]

(* n, the child of o on side s, and o change places.                       *)
Rotated(h, k, o, n, s) ==
  /\ IsHeap(k) /\ SameData(h, k)
  /\ k.root = IF h.root = o THEN n ELSE h.root
  /\ \A t \in Sides, x \in Nodes :
       k.child[t][x] = IF x = o /\ t = s THEN h.child[Opposite(s)][n]
                       ELSE IF x = n /\ t = Opposite(s) THEN o
                       ELSE IF x = h.parent[o] /\ h.child[t][x] = o THEN n
                       ELSE h.child[t][x]
  /\ \A x \in Nodes :
       k.parent[x] = IF x = n THEN h.parent[o] ELSE IF x = o THEN n
                     ELSE IF x = h.child[Opposite(s)][n] THEN o ELSE h.parent[x]

(* The neighbourhood of a link.                                            *)
LEMMA LinkFacts ==
  ASSUME NEW h, NEW M, Tree(h, M), NEW r, NEW B, Ranked(h, M, r, B),
         NEW o \in M, NEW s \in Sides, NEW n, n = h.child[s][o], n # NULL
  PROVE  /\ n \in M /\ o \in Nodes /\ n \in Nodes /\ n # o /\ h.parent[n] = o
         /\ h.parent[o] # o /\ h.parent[o] # n /\ h.root # n
         /\ (h.parent[o] = NULL <=> h.root = o)
         /\ h.parent[o] # NULL => h.parent[o] \in M /\ h.parent[o] \in Nodes
         /\ \A t \in Sides : h.child[t][n] # o /\ h.child[t][n] # n
         /\ \A t \in Sides : h.child[t][n] # NULL => h.child[t][n] \in M /\ h.child[t][n] \in Nodes /\ h.child[t][n] # h.parent[o]
         /\ r[n] < r[o] /\ r[n] \in Nat /\ r[o] \in Nat
<1>1. o \in Nodes /\ n \in M /\ n \in Nodes /\ h.parent[n] = o /\ r[n] < r[o] /\ r[n] \in Nat /\ r[o] \in Nat
  BY DEF Tree, Ranked
<1>2. n # o /\ h.root # n
  <2>1. n # o
    BY <1>1
  <2>2. h.root # n
    BY <1>1, NullFacts DEF Tree
  <2> QED BY <2>1, <2>2
<1>3. h.parent[o] = NULL <=> h.root = o
  BY <1>1, NullFacts DEF Tree
<1>4. ASSUME h.parent[o] # NULL
      PROVE  h.parent[o] \in M /\ h.parent[o] \in Nodes /\ r[o] < r[h.parent[o]] /\ r[h.parent[o]] \in Nat
  <2>1. h.parent[o] \in M /\ \E t \in Sides : h.child[t][h.parent[o]] = o
    BY <1>3, <1>4 DEF Tree
  <2> QED BY <1>1, <2>1, NullFacts DEF Tree, Ranked
<1>5. h.parent[o] # o /\ h.parent[o] # n
  BY <1>1, <1>4, NullFacts
<1>6. ASSUME NEW t \in Sides, h.child[t][n] # NULL
      PROVE  h.child[t][n] \in M /\ h.child[t][n] \in Nodes /\ r[h.child[t][n]] < r[n] /\ r[h.child[t][n]] \in Nat
  BY <1>1, <1>6 DEF Tree, Ranked
<1>7. ASSUME NEW t \in Sides PROVE h.child[t][n] # o /\ h.child[t][n] # n
  BY <1>1, <1>6, NullFacts
<1>8. ASSUME NEW t \in Sides, h.child[t][n] # NULL PROVE h.child[t][n] # h.parent[o]
  BY <1>1, <1>4, <1>6, <1>8
<1> QED BY <1>1, <1>2, <1>3, <1>4, <1>5, <1>6, <1>7, <1>8

(* A rotation keeps the shape.                                             *)
LEMMA RotateTree ==
  ASSUME NEW h, NEW M, Tree(h, M), NEW r, NEW B, Ranked(h, M, r, B),
         NEW o \in M, NEW s \in Sides, NEW n, n = h.child[s][o], n # NULL,
         NEW k, Rotated(h, k, o, n, s)
  PROVE  Tree(k, M) /\ OutsideSame(h, k, M)
<1> DEFINE c == h.child[Opposite(s)][n]
           g == h.parent[o]
           u == Opposite(s)
<1>0. /\ u \in Sides /\ u # s /\ Opposite(u) = s
      /\ \A t \in Sides : t = s \/ t = u
  BY SidesFacts
<1>1. /\ n \in M /\ o \in Nodes /\ n \in Nodes /\ n # o /\ h.parent[n] = o
      /\ g # o /\ g # n /\ h.root # n
      /\ (g = NULL <=> h.root = o)
      /\ g # NULL => g \in M /\ g \in Nodes
      /\ c # o /\ c # n
      /\ c # NULL => c \in M /\ c \in Nodes /\ c # g
  BY <1>0, LinkFacts
<1>2. /\ IsHeap(k)
      /\ k.root = IF h.root = o THEN n ELSE h.root
      /\ \A t \in Sides, x \in Nodes :
           k.child[t][x] = IF x = o /\ t = s THEN c ELSE IF x = n /\ t = u THEN o
                           ELSE IF x = g /\ h.child[t][x] = o THEN n ELSE h.child[t][x]
      /\ \A x \in Nodes :
           k.parent[x] = IF x = n THEN g ELSE IF x = o THEN n ELSE IF x = c THEN o ELSE h.parent[x]
  BY DEF Rotated
<1>3. /\ IsHeap(h) /\ M \subseteq Nodes
      /\ h.root \in M \cup {NULL}
      /\ h.root # NULL => h.parent[h.root] = NULL
      /\ \A x \in M, t \in Sides :
           h.child[t][x] # NULL => h.child[t][x] \in M /\ h.parent[h.child[t][x]] = x
      /\ \A x \in M :
           x # h.root => h.parent[x] \in M /\ \E t \in Sides : h.child[t][h.parent[x]] = x
      /\ \A x \in M, t \in Sides : h.child[t][x] # NULL => h.child[t][x] # h.child[Opposite(t)][x]
  BY DEF Tree
<1>4. c # NULL => h.parent[c] = n
  BY <1>0, <1>1, <1>3
<1>5. NULL \notin Nodes
  BY NullFacts
<1>6. h.child[s][o] = n /\ h.child[u][o] # n
  BY <1>0, <1>1, <1>3, <1>5
<1> HIDE DEF c, g, u
<1>7. k.root \in M \cup {NULL} /\ (k.root # NULL => k.parent[k.root] = NULL)
  <2>1. k.root \in M \cup {NULL}
    BY <1>1, <1>2, <1>3
  <2>2. CASE h.root = o
    BY <1>1, <1>2, <1>3, <2>2, <1>5
  <2>3. CASE h.root # o
    <3>1. ASSUME h.root # NULL PROVE h.root # c
      BY <1>1, <1>3, <1>4, <1>5, <3>1
    <3> QED BY <1>1, <1>2, <1>3, <2>3, <3>1
  <2> QED BY <2>1, <2>2, <2>3
<1>8. ASSUME NEW x \in M, NEW t \in Sides, k.child[t][x] # NULL
      PROVE  k.child[t][x] \in M /\ k.parent[k.child[t][x]] = x
  <2>1. CASE x = o /\ t = s
    BY <1>1, <1>2, <1>8, <2>1
  <2>2. CASE x = n /\ t = u
    BY <1>0, <1>1, <1>2, <1>8, <2>2
  <2>3. CASE x = g /\ h.child[t][x] = o
    BY <1>1, <1>2, <1>3, <1>8, <2>3
  <2>4. CASE ~(x = o /\ t = s) /\ ~(x = n /\ t = u) /\ ~(x = g /\ h.child[t][x] = o)
    <3>1. k.child[t][x] = h.child[t][x]
      BY <1>2, <1>3, <2>4
    <3>2. h.child[t][x] \in M /\ h.parent[h.child[t][x]] = x
      BY <1>3, <1>8, <3>1
    <3>3. h.child[t][x] # o
      BY <2>4, <3>2 DEF g
    <3>4. h.child[t][x] # n
      BY <1>0, <1>1, <1>6, <2>4, <3>2
    <3>5. h.child[t][x] # c
      <4>1. CASE x = n /\ t = s
        <5>1. h.child[s][n] # NULL => h.child[s][n] # h.child[Opposite(s)][n]
          BY <1>1, <1>3
        <5> QED BY <1>8, <3>1, <4>1, <5>1 DEF c
      <4>2. CASE x # n
        BY <1>4, <1>8, <3>1, <3>2, <4>2
      <4> QED BY <1>0, <2>4, <4>1, <4>2
    <3> QED BY <1>2, <1>3, <3>1, <3>2, <3>3, <3>4, <3>5
  <2> QED BY <2>1, <2>2, <2>3, <2>4
<1>9. ASSUME NEW x \in M, x # k.root
      PROVE  k.parent[x] \in M /\ \E t \in Sides : k.child[t][k.parent[x]] = x
  <2>1. CASE x = n
    <3>1. g \in M /\ h.root # o
      BY <1>1, <1>2, <1>9, <2>1
    <3>2. PICK t \in Sides : h.child[t][g] = o
      BY <1>3, <3>1 DEF g
    <3>3. k.child[t][g] = n
      BY <1>1, <1>2, <3>1, <3>2
    <3> QED BY <1>1, <1>2, <2>1, <3>1, <3>3
  <2>2. CASE x = o
    BY <1>0, <1>1, <1>2, <2>2
  <2>3. CASE x = c
    BY <1>1, <1>2, <1>3, <1>5, <2>3
  <2>4. CASE x # n /\ x # o /\ x # c
    <3>1. k.parent[x] = h.parent[x] /\ x # h.root
      BY <1>2, <1>3, <1>9, <2>4
    <3>2. PICK t \in Sides : h.child[t][h.parent[x]] = x
      BY <1>3, <3>1
    <3>3. h.parent[x] \in M
      BY <1>3, <3>1
    <3>4. ~(h.parent[x] = o /\ t = s) /\ ~(h.parent[x] = n /\ t = u)
      BY <1>6, <2>4, <3>2 DEF c, u
    <3>5. k.child[t][h.parent[x]] = x
      BY <1>2, <1>3, <2>4, <3>2, <3>3, <3>4
    <3> QED BY <3>1, <3>3, <3>5
  <2> QED BY <2>1, <2>2, <2>3, <2>4
<1>10. ASSUME NEW x \in M, NEW t \in Sides, k.child[t][x] # NULL
       PROVE  k.child[t][x] # k.child[Opposite(t)][x]
  <2>0. Opposite(t) \in Sides /\ Opposite(t) # t /\ Opposite(Opposite(t)) = t /\ x \in Nodes
    BY <1>3, SidesFacts
  <2>1. h.child[t][x] # NULL \/ h.child[Opposite(t)][x] # NULL => h.child[t][x] # h.child[Opposite(t)][x]
    BY <1>3, <2>0
  <2>2. CASE x = o
    <3>1. h.child[u][o] # c \/ c = NULL
      BY <1>1, <1>3, <1>4, <1>0
    <3> QED BY <1>0, <1>1, <1>2, <1>10, <2>0, <2>1, <2>2, <3>1
  <2>3. CASE x = n
    <3>1. h.child[s][n] # o
      BY <1>0, <1>1, LinkFacts
    <3> QED BY <1>0, <1>1, <1>2, <1>10, <2>0, <2>1, <2>3, <3>1
  <2>4. CASE x # o /\ x # n
    <3>1. h.child[t][x] # n /\ h.child[Opposite(t)][x] # n
      BY <1>1, <1>3, <1>5, <2>0, <2>4
    <3>2. /\ k.child[t][x] = IF x = g /\ h.child[t][x] = o THEN n ELSE h.child[t][x]
          /\ k.child[Opposite(t)][x] = IF x = g /\ h.child[Opposite(t)][x] = o THEN n ELSE h.child[Opposite(t)][x]
      BY <1>2, <2>0, <2>4
    <3>3. o # NULL
      BY <1>1, <1>5
    <3> QED BY <1>10, <2>1, <3>1, <3>2, <3>3
  <2> QED BY <2>2, <2>3, <2>4
<1>11. OutsideSame(h, k, M)
  BY <1>1, <1>2, <1>3, <1>5 DEF OutsideSame
<1> QED BY <1>2, <1>3, <1>7, <1>8, <1>9, <1>10, <1>11 DEF Tree

(* and the ranks, once there is room between them.                         *)
LEMMA RotateRanked ==
  ASSUME NEW h, NEW M, Tree(h, M), NEW r, NEW B, Ranked(h, M, r, B),
         NEW o \in M, NEW s \in Sides, NEW n, n = h.child[s][o], n # NULL,
         NEW k, Rotated(h, k, o, n, s)
  PROVE  \E q, C : Ranked(k, M, q, C)
<1>0. /\ Opposite(s) \in Sides /\ Opposite(s) # s
      /\ \A t \in Sides : t = s \/ t = Opposite(s)
  BY SidesFacts
<1>1. /\ n \in M /\ o \in Nodes /\ n \in Nodes /\ n # o /\ h.parent[n] = o
      /\ \A t \in Sides : h.child[t][n] # o /\ h.child[t][n] # n
      /\ r[n] < r[o] /\ r[n] \in Nat /\ r[o] \in Nat
  BY LinkFacts
<1>2. /\ B \in Nat /\ r \in [Nodes -> 0 .. B] /\ M \subseteq Nodes
      /\ \A x \in M, t \in Sides : h.child[t][x] # NULL => h.child[t][x] \in M /\ r[h.child[t][x]] < r[x]
      /\ \A x \in M, t \in Sides : h.child[t][x] # NULL => h.parent[h.child[t][x]] = x
      /\ \A x \in M, t \in Sides : h.child[t][x] # NULL => h.child[t][x] # h.child[Opposite(t)][x]
  BY DEF Tree, Ranked
<1>3. \A t \in Sides, x \in Nodes :
       k.child[t][x] = IF x = o /\ t = s THEN h.child[Opposite(s)][n]
                       ELSE IF x = n /\ t = Opposite(s) THEN o
                       ELSE IF x = h.parent[o] /\ h.child[t][x] = o THEN n
                       ELSE h.child[t][x]
  BY DEF Rotated
<1> DEFINE q == [x \in Nodes |-> IF x = n THEN 2 * r[o] ELSE IF x = o THEN 2 * r[o] - 1 ELSE 2 * r[x]]
           C == 2 * B
<1>4. \A x \in Nodes : r[x] \in Nat /\ r[x] <= B
  BY <1>2
<1>5. C \in Nat /\ q \in [Nodes -> 0 .. C]
  <2>1. ASSUME NEW x \in Nodes PROVE q[x] \in 0 .. C
    BY <1>1, <1>2, <1>4
  <2> QED BY <1>2, <2>1
<1>6. /\ \A x \in Nodes : x # n /\ x # o => q[x] = 2 * r[x]
      /\ q[n] = 2 * r[o] /\ q[o] = 2 * r[o] - 1
  BY <1>1
<1> HIDE DEF q, C
<1>7. ASSUME NEW x \in M, NEW t \in Sides, k.child[t][x] # NULL
      PROVE  q[k.child[t][x]] < q[x]
  <2> DEFINE d == h.child[t][x]
  <2>1. CASE x = o /\ t = s
    <3> DEFINE e == h.child[Opposite(s)][n]
    <3>1. k.child[t][x] = e /\ e # o /\ e # n /\ e \in Nodes /\ r[e] < r[n] /\ r[e] \in Nat
      BY <1>0, <1>1, <1>2, <1>3, <1>4, <1>7, <2>1
    <3> HIDE DEF e
    <3> QED BY <1>1, <1>6, <2>1, <3>1
  <2>2. CASE x = n /\ t = Opposite(s)
    BY <1>0, <1>1, <1>3, <1>6, <2>2
  <2>3. CASE x = h.parent[o] /\ d = o /\ ~(x = o /\ t = s) /\ ~(x = n /\ t = Opposite(s))
    <3>1. k.child[t][x] = n /\ x # n /\ x # o /\ r[o] < r[x] /\ r[x] \in Nat
      BY <1>1, <1>2, <1>3, <1>4, <2>3, NullFacts
    <3> QED BY <1>1, <1>2, <1>6, <3>1
  <2>4. CASE ~(x = h.parent[o] /\ d = o) /\ ~(x = o /\ t = s) /\ ~(x = n /\ t = Opposite(s))
    <3>1. k.child[t][x] = d /\ d # NULL
      BY <1>2, <1>3, <1>7, <2>4
    <3>2. d \in Nodes /\ r[d] < r[x] /\ r[d] \in Nat /\ r[x] \in Nat /\ h.parent[d] = x /\ x \in Nodes
      BY <1>2, <1>4, <3>1
    <3>3. d # o
      BY <2>4, <3>2
    <3>4. d # n
      <4>1. CASE x = o
        BY <1>0, <1>1, <1>2, <2>4, <3>1, <4>1
      <4>2. CASE x # o
        BY <1>1, <3>2, <4>2
      <4> QED BY <4>1, <4>2
    <3> HIDE DEF d
    <3>5. CASE x = n
      BY <1>1, <1>6, <3>1, <3>2, <3>3, <3>4, <3>5
    <3>6. CASE x = o
      BY <1>1, <1>6, <3>1, <3>2, <3>3, <3>4, <3>6
    <3>7. CASE x # n /\ x # o
      BY <1>1, <1>6, <3>1, <3>2, <3>3, <3>4, <3>7
    <3> QED BY <3>5, <3>6, <3>7
  <2> QED BY <2>1, <2>2, <2>3, <2>4
<1> QED BY <1>5, <1>7 DEF Ranked

-----------------------------------------------------------------------------
(* Colours.                                                                *)

Black(h, x) == IF h.color[x] = "black" THEN 1 ELSE 0
Extra(x, s, q, e) == IF x = q /\ s = e THEN 1 ELSE 0

(* b[x] black nodes are on every path down from x; the link on side e of q *)
(* counts for one more.                                                    *)
BlackAt(h, b, q, e, x) ==
  \A s \in Sides : b[x] = b[h.child[s][x]] + Extra(x, s, q, e) + Black(h, x)

Blacks(h, M, b, q, e) ==
  /\ b \in [N0 -> Nat] /\ b[NULL] = 0
  /\ \A x \in M : BlackAt(h, b, q, e, x)

(* No red node but x0 is the root or below a red one.                      *)
Reds(h, M, x0) ==
  \A x \in M : h.color[x] = "red" /\ x # x0 => h.parent[x] \in M /\ h.color[h.parent[x]] = "black"

(* A rotation is felt in the nodes that it moves and in W, the children of *)
(* these whose colours it changes.                                         *)
Recolours(h, k, M, o, n, W, b, q, e, c, p, d) ==
  /\ W \subseteq M /\ c \in [N0 -> Nat]
  /\ \A w \in W : h.parent[w] \in {o, n}
  /\ \A x \in N0 : x \notin W \cup {o, n} => c[x] = b[x]
  /\ c[n] = b[o]
  /\ \A x \in M : x \notin W \cup {o, n} => Black(k, x) = Black(h, x)
  /\ \A x \in M, t \in Sides : x \notin {o, n} => Extra(x, t, p, d) = Extra(x, t, q, e)
  /\ \A x \in W \cup {o, n} : BlackAt(k, c, p, d, x)

LEMMA RotateBlacks ==
  ASSUME NEW h, NEW M, Tree(h, M), NEW r, NEW B, Ranked(h, M, r, B),
         NEW o \in M, NEW s \in Sides, NEW n, n = h.child[s][o], n # NULL,
         NEW k, Rotated(h, k, o, n, s),
         NEW b, NEW q, NEW e, Blacks(h, M, b, q, e),
         NEW W, NEW c, NEW p, NEW d, Recolours(h, k, M, o, n, W, b, q, e, c, p, d)
  PROVE  Blacks(k, M, c, p, d)
<1>1. /\ n \in M /\ o \in Nodes /\ n \in Nodes /\ n # o /\ h.parent[n] = o
  BY LinkFacts
<1>2. c[NULL] = 0
  <2>1. NULL \notin W \cup {o, n} /\ NULL \in N0
    BY <1>1, NullFacts DEF Tree, Recolours
  <2> QED BY <2>1 DEF Blacks, Recolours
<1>3. ASSUME NEW x \in M, x \notin W \cup {o, n}, NEW t \in Sides
      PROVE  c[x] = c[k.child[t][x]] + Extra(x, t, p, d) + Black(k, x)
  <2>0. x \in Nodes /\ x \in N0
    BY NullFacts DEF Tree
  <2>1. b[x] = b[h.child[t][x]] + Extra(x, t, q, e) + Black(h, x)
    BY DEF Blacks, BlackAt
  <2>2. c[x] = b[x] /\ Black(k, x) = Black(h, x) /\ Extra(x, t, p, d) = Extra(x, t, q, e)
    BY <1>3, <2>0 DEF Recolours
  <2>3. c[k.child[t][x]] = b[h.child[t][x]]
    <3>1. k.child[t][x] = IF x = h.parent[o] /\ h.child[t][x] = o THEN n ELSE h.child[t][x]
      BY <1>3, <2>0 DEF Rotated
    <3>2. CASE h.child[t][x] = o
      <4>1. h.parent[o] = x
        BY <1>1, <3>2, NullFacts DEF Tree
      <4> QED BY <3>1, <3>2, <4>1 DEF Recolours
    <3>3. CASE h.child[t][x] # o
      <4>1. h.child[t][x] # NULL => h.parent[h.child[t][x]] = x
        BY DEF Tree
      <4>2. h.child[t][x] \in N0 /\ h.child[t][x] # n /\ h.child[t][x] \notin W
        BY <1>1, <1>3, <2>0, <4>1, HeapTypes, NullFacts DEF Tree, Recolours
      <4> QED BY <3>1, <3>3, <4>2 DEF Recolours
    <3> QED BY <3>2, <3>3
  <2> QED BY <2>1, <2>2, <2>3
<1> QED BY <1>2, <1>3 DEF Blacks, BlackAt, Recolours

LEMMA RotateBlacksOnly ==
  ASSUME NEW h, NEW M, Tree(h, M), NEW r, NEW B, Ranked(h, M, r, B),
         NEW o \in M, NEW s \in Sides, NEW n, n = h.child[s][o], n # NULL,
         NEW k, Rotated(h, k, o, n, s),
         NEW b, NEW q, NEW e, Blacks(h, M, b, q, e),
         NEW c \in [N0 -> Nat],
         \A x \in N0 : x # o /\ x # n => c[x] = b[x],
         c[n] = b[o],
         \A x \in M : x # o /\ x # n => Black(k, x) = Black(h, x),
         BlackAt(k, c, q, e, o), BlackAt(k, c, q, e, n)
  PROVE  Blacks(k, M, c, q, e)
<1>1. PICK W : W = {}
  OBVIOUS
<1>2. Recolours(h, k, M, o, n, W, b, q, e, c, q, e)
  BY <1>1 DEF Recolours
<1> QED BY <1>2, RotateBlacks

-----------------------------------------------------------------------------
(* Rotations as the code writes them.                                      *)

Shaped(h, M) == Tree(h, M) /\ \E r, B : Ranked(h, M, r, B)

(* j is h after the links of o and n have changed, before the rest of      *)
(* the rotation.                                                           *)
Lifted(h, j, o, n, s) ==
  /\ IsHeap(j) /\ SameData(h, j) /\ j.root = h.root
  /\ \A t \in Sides, y \in Nodes :
       j.child[t][y] = IF t = Opposite(s) /\ y = n THEN o
                       ELSE IF t = s /\ y = o THEN h.child[Opposite(s)][n] ELSE h.child[t][y]
  /\ j.parent[o] = h.parent[o]
  /\ \A y \in Nodes : y # n /\ y # o => j.parent[y] = IF y = h.child[Opposite(s)][n] THEN o ELSE h.parent[y]

LEMMA RotateShaped ==
  ASSUME NEW h, NEW M, Shaped(h, M),
         NEW o \in M, NEW s \in Sides, NEW n, n = h.child[s][o], n # NULL,
         NEW k, Rotated(h, k, o, n, s)
  PROVE  Shaped(k, M) /\ OutsideSame(h, k, M)
<1>1. PICK r, B : Ranked(h, M, r, B)
  BY DEF Shaped
<1>2. Tree(h, M)
  BY DEF Shaped
<1> QED BY <1>1, <1>2, RotateTree, RotateRanked DEF Shaped

LEMMA ShapedLinks ==
  ASSUME NEW h, NEW M, Shaped(h, M), NEW o \in M, NEW s \in Sides, NEW n, n = h.child[s][o], n # NULL
  PROVE  /\ n \in M /\ o \in Nodes /\ n \in Nodes /\ n # o /\ h.parent[n] = o
         /\ h.parent[o] # o /\ h.parent[o] # n /\ h.root # n
         /\ (h.parent[o] = NULL <=> h.root = o)
         /\ h.parent[o] # NULL => h.parent[o] \in M /\ h.parent[o] \in Nodes
         /\ \A t \in Sides : h.child[t][n] # o /\ h.child[t][n] # n
         /\ \A t \in Sides : h.child[t][n] # NULL => h.child[t][n] \in M /\ h.child[t][n] \in Nodes /\ h.child[t][n] # h.parent[o]
<1>1. PICK r, B : Ranked(h, M, r, B)
  BY DEF Shaped
<1>2. Tree(h, M)
  BY DEF Shaped
<1> QED BY <1>1, <1>2, LinkFacts

LEMMA ChildFacts ==
  ASSUME NEW h, NEW M, Shaped(h, M), NEW x \in M, NEW t \in Sides, h.child[t][x] # NULL
  PROVE  /\ h.child[t][x] \in M /\ h.child[t][x] \in Nodes
         /\ h.parent[h.child[t][x]] = x /\ h.child[t][x] # x /\ x \in Nodes
         /\ \A u \in Sides : h.child[u][h.child[t][x]] # x
<1>1. PICK n : n = h.child[t][x]
  OBVIOUS
<1>2. /\ n \in M /\ n \in Nodes /\ h.parent[n] = x /\ n # x /\ x \in Nodes
      /\ \A u \in Sides : h.child[u][n] # x
  BY <1>1, ShapedLinks
<1> QED BY <1>1, <1>2

LEMMA ShapedHeap ==
  ASSUME NEW h, NEW M, Shaped(h, M)
  PROVE  IsHeap(h) /\ M \subseteq Nodes
BY DEF Shaped, Tree

LEMMA RotateCompletes ==
  ASSUME NEW h, NEW M, Shaped(h, M),
         NEW o \in M, NEW s \in Sides, NEW n, n = h.child[s][o], n # NULL,
         NEW j, Lifted(h, j, o, n, s), NEW c \in Colors
  PROVE  LET k == rb_rotate_set_parents(j, o, n, c)
         IN  /\ Rotated(h, k, o, n, s)
             /\ \A y \in Nodes : k.color[y] = IF y = o THEN c ELSE IF y = n THEN j.color[o] ELSE j.color[y]
<1> DEFINE k == rb_rotate_set_parents(j, o, n, c)
           g == h.parent[o]
           m == h.child[Opposite(s)][n]
<1>1. /\ n \in M /\ o \in Nodes /\ n \in Nodes /\ n # o
      /\ g # o /\ g # n /\ (g = NULL <=> h.root = o)
      /\ m # n /\ m # o
      /\ Opposite(s) \in Sides
      /\ \A t \in Sides : h.child[t][n] # o
  BY ShapedLinks, SidesFacts
<1>2. /\ IsHeap(j) /\ SameData(h, j) /\ j.root = h.root
      /\ \A t \in Sides, y \in Nodes :
           j.child[t][y] = IF t = Opposite(s) /\ y = n THEN o
                           ELSE IF t = s /\ y = o THEN m ELSE h.child[t][y]
      /\ j.parent[o] = g
      /\ \A y \in Nodes : y # n /\ y # o => j.parent[y] = IF y = m THEN o ELSE h.parent[y]
  BY DEF Lifted
<1> HIDE DEF g, m
<1>3. /\ IsHeap(k) /\ SameData(j, k)
      /\ k.root = IF g = NULL THEN n ELSE j.root
      /\ \A y \in Nodes : k.parent[y] = IF y = o THEN n ELSE IF y = n THEN g ELSE j.parent[y]
      /\ \A y \in Nodes : k.color[y] = IF y = o THEN c ELSE IF y = n THEN j.color[o] ELSE j.color[y]
      /\ \A t \in Sides, y \in Nodes :
           k.child[t][y] = IF y = g /\ t = Below(j, o, g) THEN n ELSE j.child[t][y]
  <2>1. SetsParents(j, k, o, n, c)
    BY <1>1, <1>2, RotateSetParents
  <2> HIDE DEF k
  <2> QED BY <1>2, <2>1 DEF SetsParents
<1> HIDE DEF k
<1>4. ASSUME g # NULL
      PROVE  g \in Nodes /\ \A t \in Sides : h.child[t][g] = o <=> t = Below(j, o, g)
  <2>1. /\ g \in M /\ g \in Nodes /\ \E t \in Sides : h.child[t][g] = o
        /\ \A t \in Sides : h.child[t][g] = o => h.child[t][g] # h.child[Opposite(t)][g]
    BY <1>1, <1>4, NullFacts DEF Shaped, Tree, g
  <2>2. \A t \in Sides : j.child[t][g] = h.child[t][g]
    BY <1>1, <1>2, <2>1
  <2>3. Sides = {"left", "right"} /\ Opposite("left") = "right" /\ Opposite("right") = "left"
    BY DEF Sides, Opposite
  <2> QED BY <2>1, <2>2, <2>3 DEF Below
<1>5. ASSUME NEW t \in Sides, NEW y \in Nodes
      PROVE  k.child[t][y] = IF y = o /\ t = s THEN m
                       ELSE IF y = n /\ t = Opposite(s) THEN o
                       ELSE IF y = g /\ h.child[t][y] = o THEN n
                       ELSE h.child[t][y]
  BY <1>1, <1>2, <1>3, <1>4, NullFacts
<1>6. ASSUME NEW y \in Nodes
      PROVE  k.parent[y] = IF y = n THEN g ELSE IF y = o THEN n ELSE IF y = m THEN o ELSE h.parent[y]
  BY <1>1, <1>2, <1>3
<1>7. k.root = IF h.root = o THEN n ELSE h.root
  BY <1>1, <1>2, <1>3
<1>8. Rotated(h, k, o, n, s)
  BY <1>2, <1>3, <1>5, <1>6, <1>7 DEF Rotated, SameData, g, m
<1> QED BY <1>3, <1>8 DEF k

LEMMA RotatedLinks ==
  ASSUME NEW h, NEW j, NEW k, NEW o, NEW n, NEW s, Rotated(h, j, o, n, s), SameLinks(j, k)
  PROVE  Rotated(h, k, o, n, s) /\ k.color = j.color
BY DEF Rotated, SameLinks, SameData

(* f is h but for the link of g on side s and the parent of its child p,   *)
(* which a rotation there sets anew.                                       *)
Half(h, f, g, p, s) ==
  /\ IsHeap(f) /\ SameData(h, f) /\ f.root = h.root /\ f.color = h.color
  /\ \A t \in Sides, y \in Nodes : ~(t = s /\ y = g) => f.child[t][y] = h.child[t][y]
  /\ \A y \in Nodes : y # p => f.parent[y] = h.parent[y]

LEMMA HalfSelf ==
  ASSUME NEW h, IsHeap(h), NEW g, NEW p, NEW s
  PROVE  Half(h, h, g, p, s)
BY DEF Half, SameData

(* The last rotation of an insertion.                                      *)
OuterDone(h, k, g, p, s) ==
  /\ Rotated(h, k, g, p, s)
  /\ \A y \in Nodes :
       k.color[y] = IF y = g THEN "red" ELSE IF y = p THEN h.color[g]
                    ELSE IF y = h.child[Opposite(s)][p] THEN "black" ELSE h.color[y]

LEMMA InsertOuterFields ==
  ASSUME NEW h, NEW M, Shaped(h, M), NEW cb,
         NEW g \in M, NEW s \in Sides, NEW p, p = h.child[s][g], p # NULL,
         NEW f, Half(h, f, g, p, s)
  PROVE  OuterDone(h, InsertOuter(f, g, p, s, cb), g, p, s)
<1> DEFINE m == f.child[Opposite(s)][p]
           i == Lift(f, g, p, s)
           j == AdoptBlack(i, m, g)
           l == rb_rotate_set_parents(j, g, p, "red")
           k == augment_rotate(l, g, p, cb)
<1>1. k = InsertOuter(f, g, p, s, cb)
  BY DEF InsertOuter
<1>2. /\ p \in M /\ p \in Nodes /\ g \in Nodes /\ p # g
      /\ Opposite(s) \in Sides /\ Opposite(s) # s
      /\ "red" \in Colors /\ g \in N0
      /\ h.child[Opposite(s)][p] # p /\ h.child[Opposite(s)][p] # g
  BY ShapedLinks, SidesFacts, NullFacts DEF Shaped, Tree, Colors
<1>3. m = h.child[Opposite(s)][p] /\ m \in N0 /\ m # p /\ m # g /\ IsHeap(f)
  BY <1>2, HeapTypes DEF Half
<1>4. Lifts(f, i, g, p, s)
  BY <1>2, <1>3, LiftFields
<1> HIDE DEF i, m
<1>5. PaintsAt(i, j, m, g, "black")
  BY <1>2, <1>3, <1>4, Adopts DEF Lifts
<1> HIDE DEF j
<1>6. Lifted(h, j, g, p, s)
  <2>1. SameData(h, j) /\ j.root = h.root /\ j.parent[g] = h.parent[g]
    BY <1>2, <1>3, <1>4, <1>5 DEF SameData, Lifts, PaintsAt, Half
  <2>2. \A t \in Sides, y \in Nodes :
          j.child[t][y] = IF t = Opposite(s) /\ y = p THEN g ELSE IF t = s /\ y = g THEN m ELSE h.child[t][y]
    BY <1>4, <1>5 DEF Lifts, PaintsAt, m, Half
  <2>3. \A y \in Nodes : y # p /\ y # g => j.parent[y] = IF y = m THEN g ELSE h.parent[y]
    BY <1>4, <1>5 DEF Lifts, PaintsAt, Half
  <2> QED BY <1>3, <1>5, <2>1, <2>2, <2>3 DEF Lifted, PaintsAt
<1>7. /\ Rotated(h, l, g, p, s)
      /\ \A y \in Nodes : l.color[y] = IF y = g THEN "red" ELSE IF y = p THEN j.color[g] ELSE j.color[y]
  BY <1>2, <1>6, RotateCompletes
<1> HIDE DEF l
<1>8. SameLinks(l, k)
  BY <1>7, AugmentRotate DEF Rotated
<1> HIDE DEF k
<1>9. Rotated(h, k, g, p, s) /\ k.color = l.color
  BY <1>7, <1>8, RotatedLinks
<1>10. ASSUME NEW y \in Nodes
       PROVE  k.color[y] = IF y = g THEN "red" ELSE IF y = p THEN h.color[g]
                           ELSE IF y = m THEN "black" ELSE h.color[y]
  BY <1>2, <1>3, <1>4, <1>5, <1>7, <1>9 DEF Lifts, PaintsAt, Half
<1> QED BY <1>1, <1>3, <1>9, <1>10 DEF OuterDone

(* The first rotation of an inner node is complete but for the link from   *)
(* above, which the second replaces.                                       *)
InnerDone(h, k, p, n, s) ==
  /\ Rotated(h, k, p, n, Opposite(s))
  /\ \A y \in Nodes : k.color[y] = IF y = p THEN "red" ELSE IF y = h.child[s][n] THEN "black" ELSE h.color[y]

LEMMA InsertInnerFields ==
  ASSUME NEW h, NEW M, Shaped(h, M), NEW cb,
         NEW g \in M, NEW s \in Sides, NEW p, p = h.child[s][g], p # NULL,
         NEW n, n = h.child[Opposite(s)][p], n # NULL
  PROVE  \E k : InnerDone(h, k, p, n, s) /\ Half(k, InsertInner(h, p, n, s, cb), g, n, s)
<1> DEFINE u == Opposite(s)
           c == h.child[s][n]
           i == Lift(h, p, n, u)
           j == AdoptBlack(i, c, p)
           l == rb_set_parent_color(j, p, n, "red")
           f == augment_rotate(l, p, n, cb)
           a == [f EXCEPT !.parent[n] = g]
           k == [a EXCEPT !.child[s][g] = n]
<1>1. f = InsertInner(h, p, n, s, cb)
  BY DEF InsertInner
<1>2. u \in Sides /\ u # s /\ Opposite(u) = s /\ "red" \in Colors /\ \A t \in Sides : t = s \/ t = u
  BY SidesFacts DEF Colors
<1>3. /\ p \in M /\ p \in Nodes /\ g \in Nodes /\ p # g /\ h.parent[p] = g /\ p \in N0 /\ g \in N0 /\ h.root # p
      /\ \A t \in Sides : h.child[t][p] # g
      /\ IsHeap(h)
  BY ShapedLinks, NullFacts DEF Shaped, Tree
<1>4. /\ n \in M /\ n \in Nodes /\ n # p /\ n \in N0 /\ n # g
      /\ c \in N0 /\ c # n /\ c # p
  BY <1>2, <1>3, ShapedLinks, NullFacts, HeapTypes
<1>5. h.child[u][g] # p
  BY <1>2, <1>3 DEF Shaped, Tree
<1> HIDE DEF c, u
<1>6. Lifts(h, i, p, n, u)
  BY <1>2, <1>3, <1>4, LiftFields
<1> HIDE DEF i
<1>7. PaintsAt(i, j, c, p, "black")
  BY <1>3, <1>4, <1>6, Adopts DEF Lifts
<1> HIDE DEF j
<1>8. PaintsAt(j, l, p, n, "red")
  <2>1. IsHeap(j)
    BY <1>7 DEF PaintsAt
  <2> QED BY <1>2, <1>3, <1>4, <2>1, SetParentColor
<1> HIDE DEF l
<1>9. SameLinks(l, f)
  BY <1>8, AugmentRotate DEF PaintsAt
<1> HIDE DEF f
<1>10. /\ IsHeap(a) /\ SameData(f, a)
       /\ a.root = f.root /\ a.child = f.child /\ a.color = f.color
       /\ \A y \in Nodes : a.parent[y] = IF y = n THEN g ELSE f.parent[y]
  BY <1>3, <1>4, <1>9, SetParent DEF SameLinks
<1> HIDE DEF a
<1>11. /\ IsHeap(k) /\ SameData(a, k)
       /\ k.root = a.root /\ k.parent = a.parent /\ k.color = a.color
       /\ \A t \in Sides, y \in Nodes : k.child[t][y] = IF t = s /\ y = g THEN n ELSE a.child[t][y]
  <2>1. Relinks(a, k, s, g, n)
    BY <1>3, <1>4, <1>10, SetLink
  <2> HIDE DEF k
  <2> QED BY <2>1 DEF Relinks
<1> HIDE DEF k
<1>12. /\ IsHeap(f) /\ f.root = h.root /\ SameData(h, f)
       /\ \A t \in Sides, y \in Nodes :
            f.child[t][y] = IF t = s /\ y = n THEN p ELSE IF t = u /\ y = p THEN c ELSE h.child[t][y]
       /\ \A y \in Nodes : f.parent[y] = IF y = p THEN n ELSE IF y = c THEN p ELSE h.parent[y]
       /\ \A y \in Nodes : f.color[y] = IF y = p THEN "red" ELSE IF y = c THEN "black" ELSE h.color[y]
  <2>1. l.root = h.root /\ SameData(h, l) /\ l.child = i.child
    BY <1>6, <1>7, <1>8 DEF Lifts, PaintsAt, SameData
  <2>2. \A t \in Sides, y \in Nodes :
          l.child[t][y] = IF t = s /\ y = n THEN p ELSE IF t = u /\ y = p THEN c ELSE h.child[t][y]
    BY <1>2, <1>6, <2>1 DEF Lifts, c
  <2>3. /\ \A y \in Nodes : l.parent[y] = IF y = p THEN n ELSE IF y = c THEN p ELSE h.parent[y]
        /\ \A y \in Nodes : l.color[y] = IF y = p THEN "red" ELSE IF y = c THEN "black" ELSE h.color[y]
    BY <1>6, <1>7, <1>8 DEF Lifts, PaintsAt
  <2> QED BY <1>9, <2>1, <2>2, <2>3 DEF SameLinks, SameData
<1>13. Rotated(h, k, p, n, u)
  <2>1. SameData(h, k) /\ k.root = IF h.root = p THEN n ELSE h.root
    BY <1>3, <1>10, <1>11, <1>12 DEF SameData
  <2>2. ASSUME NEW t \in Sides, NEW y \in Nodes
        PROVE  k.child[t][y] = IF y = p /\ t = u THEN h.child[Opposite(u)][n]
                       ELSE IF y = n /\ t = Opposite(u) THEN p
                       ELSE IF y = h.parent[p] /\ h.child[t][y] = p THEN n
                       ELSE h.child[t][y]
    <3>1. k.child[t][y] = IF t = s /\ y = g THEN n ELSE f.child[t][y]
      BY <1>10, <1>11
    <3>2. h.child[s][g] = p /\ h.child[Opposite(u)][n] = c
      BY <1>2 DEF c
    <3> QED BY <1>2, <1>3, <1>4, <1>5, <1>12, <3>1, <3>2
  <2>3. ASSUME NEW y \in Nodes
        PROVE  k.parent[y] = IF y = n THEN h.parent[p] ELSE IF y = p THEN n
                     ELSE IF y = h.child[Opposite(u)][n] THEN p ELSE h.parent[y]
    <3>1. h.child[Opposite(u)][n] = c
      BY <1>2 DEF c
    <3>2. k.parent[y] = IF y = n THEN g ELSE f.parent[y]
      BY <1>10, <1>11
    <3> QED BY <1>3, <1>4, <1>12, <3>1, <3>2
  <2> QED BY <1>11, <2>1, <2>2, <2>3, Zenon DEF Rotated
<1>14. Half(k, f, g, n, s)
  <2>1. SameData(k, f) /\ f.root = k.root /\ f.color = k.color
    BY <1>10, <1>11 DEF SameData
  <2> QED BY <1>10, <1>11, <1>12, <2>1 DEF Half
<1>15. \A y \in Nodes : k.color[y] = IF y = p THEN "red" ELSE IF y = c THEN "black" ELSE h.color[y]
  BY <1>10, <1>11, <1>12
<1> QED BY <1>1, <1>13, <1>14, <1>15 DEF u, c, InnerDone

-----------------------------------------------------------------------------
(* An iteration of __rb_insert.                                            *)

LEMMA NoExtra ==
  ASSUME NEW x \in Nodes, NEW s, NEW e
  PROVE  Extra(x, s, NULL, e) = 0
BY NullFacts DEF Extra

(* The number of blacks below a node.                                      *)
LEMMA BlackSum ==
  ASSUME NEW h, NEW M, M \subseteq Nodes, NEW b, Blacks(h, M, b, NULL, "left"), IsHeap(h), NEW x \in M, NEW s \in Sides
  PROVE  /\ b[x] = b[h.child[s][x]] + Black(h, x)
         /\ b[x] \in Nat /\ b[h.child[s][x]] \in Nat
<1>1. x \in Nodes /\ x \in N0 /\ h.child[s][x] \in N0 /\ Extra(x, s, NULL, "left") = 0
  BY HeapTypes, NullFacts, NoExtra
<1>2. b[x] = b[h.child[s][x]] + Extra(x, s, NULL, "left") + Black(h, x)
  BY DEF Blacks, BlackAt
<1>3. b[x] \in Nat /\ b[h.child[s][x]] \in Nat
  BY <1>1 DEF Blacks
<1>4. Black(h, x) \in Nat
  BY DEF Black
<1> QED BY <1>1, <1>2, <1>3, <1>4

OuterCase(h, M, b, g, s, p, n, k) ==
  /\ Shaped(h, M) /\ Blacks(h, M, b, NULL, "left") /\ Reds(h, M, n)
  /\ g \in M /\ s \in Sides
  /\ p = h.child[s][g] /\ p # NULL
  /\ n = h.child[s][p] /\ n # NULL
  /\ h.color[g] = "black" /\ h.color[p] = "red"
  /\ IsBlack(h, h.child[Opposite(s)][g]) /\ IsBlack(h, h.child[Opposite(s)][p])
  /\ OuterDone(h, k, g, p, s)

(* n, the child of p, is red like p, and g above them black: p takes the   *)
(* place of g.                                                             *)
LEMMA OuterColours ==
  ASSUME NEW h, NEW M, NEW b, NEW g, NEW s, NEW p, NEW n, NEW k, OuterCase(h, M, b, g, s, p, n, k)
  PROVE  (\E c : Blacks(k, M, c, NULL, "left")) /\ Reds(k, M, NULL)
<1> DEFINE u == h.child[Opposite(s)][g]
           m == h.child[Opposite(s)][p]
<1>a. /\ Shaped(h, M) /\ Blacks(h, M, b, NULL, "left") /\ Reds(h, M, n) /\ OuterDone(h, k, g, p, s)
      /\ g \in M /\ s \in Sides
  BY Zenon DEF OuterCase
<1>b. /\ p = h.child[s][g] /\ p # NULL /\ n = h.child[s][p] /\ n # NULL
      /\ h.color[g] = "black" /\ h.color[p] = "red"
  BY Zenon DEF OuterCase
<1>c. IsBlack(h, u) /\ IsBlack(h, m)
  BY Zenon DEF OuterCase
<1>1. /\ Opposite(s) \in Sides /\ Opposite(s) # s /\ \A t \in Sides : t = s \/ t = Opposite(s)
  BY <1>a, SidesFacts
<1>2. /\ p \in M /\ p \in Nodes /\ g \in Nodes /\ p # g /\ h.parent[p] = g
      /\ \A t \in Sides : h.child[t][p] # g /\ h.child[t][p] # p
      /\ IsHeap(h) /\ M \subseteq Nodes
      /\ h.parent[g] # p /\ h.parent[g] # g
      /\ u \in N0 /\ m \in N0 /\ u # p /\ u # g
  <2>1. /\ p \in M /\ p \in Nodes /\ g \in Nodes /\ p # g /\ h.parent[p] = g
        /\ \A t \in Sides : h.child[t][p] # g /\ h.child[t][p] # p
        /\ IsHeap(h) /\ M \subseteq Nodes
        /\ h.parent[g] # p /\ h.parent[g] # g
    BY <1>a, <1>b, ShapedLinks, ShapedHeap
  <2>2. u \in N0 /\ m \in N0
    BY <1>1, <2>1, HeapTypes
  <2>3. u # p
    BY <1>a, <1>b, <1>1 DEF Shaped, Tree
  <2>4. u # g
    BY <1>a, <1>1, <2>1, ShapedLinks, NullFacts
  <2> QED BY <2>1, <2>2, <2>3, <2>4
<1>3. /\ n \in M /\ n \in Nodes /\ h.parent[n] = p /\ n # g /\ n # p
  BY <1>a, <1>b, <1>2, ShapedLinks
<1>4. m \in Nodes => h.color[m] = "black"
  BY <1>c, NullFacts DEF IsBlack
<1>5. /\ \A y \in Nodes : y # g /\ y # p => k.color[y] = h.color[y]
      /\ k.color[g] = "red" /\ k.color[p] = "black"
  BY <1>a, <1>b, <1>2, <1>4 DEF OuterDone
<1>6. /\ k.child[s][g] = m /\ k.child[Opposite(s)][g] = u
      /\ k.child[s][p] = n /\ k.child[Opposite(s)][p] = g
  BY <1>a, <1>b, <1>1, <1>2 DEF OuterDone, Rotated
<1> HIDE DEF u, m
<1>7. \E c : Blacks(k, M, c, NULL, "left")
  <2>1. /\ b[g] = b[p] + Black(h, g) /\ b[g] = b[u] + Black(h, g)
        /\ b[p] = b[n] + Black(h, p) /\ b[p] = b[m] + Black(h, p)
        /\ b[g] \in Nat /\ b[p] \in Nat /\ b[u] \in Nat /\ b[n] \in Nat /\ b[m] \in Nat
    <3>1. \A x \in M, t \in Sides :
            b[x] = b[h.child[t][x]] + Black(h, x) /\ b[x] \in Nat /\ b[h.child[t][x]] \in Nat
      BY <1>a, <1>2, BlackSum
    <3> QED BY <1>a, <1>b, <1>1, <1>2, <3>1 DEF u, m
  <2>2. Black(h, g) = 1 /\ Black(h, p) = 0 /\ Black(k, g) = 0 /\ Black(k, p) = 1
    BY <1>b, <1>5 DEF Black
  <2> DEFINE c == [x \in N0 |-> IF x = g THEN b[p] ELSE IF x = p THEN b[g] ELSE b[x]]
  <2>3. c \in [N0 -> Nat]
    BY <1>a, <2>1, Zenon DEF Blacks
  <2>4. /\ c[g] = b[p] /\ c[p] = b[g]
        /\ \A x \in N0 : x # g /\ x # p => c[x] = b[x]
    BY <1>2, NullFacts
  <2> HIDE DEF c
  <2>5. c[m] = b[m] /\ c[u] = b[u] /\ c[n] = b[n]
    BY <1>1, <1>2, <1>3, <2>4, NullFacts DEF m
  <2>6. BlackAt(k, c, NULL, "left", g) /\ BlackAt(k, c, NULL, "left", p)
    <3>1. \A t \in Sides : Extra(g, t, NULL, "left") = 0 /\ Extra(p, t, NULL, "left") = 0
      BY <1>2, NoExtra
    <3>2. BlackAt(k, c, NULL, "left", g)
      BY <1>1, <1>6, <2>1, <2>2, <2>4, <2>5, <3>1 DEF BlackAt
    <3>3. BlackAt(k, c, NULL, "left", p)
      BY <1>1, <1>6, <2>1, <2>2, <2>4, <2>5, <3>1 DEF BlackAt
    <3> QED BY <3>2, <3>3
  <2>7. \A x \in M : x # g /\ x # p => Black(k, x) = Black(h, x)
    BY <1>2, <1>5 DEF Black
  <2>8. PICK r, B : Ranked(h, M, r, B)
    BY <1>a DEF Shaped
  <2>9. Tree(h, M) /\ Rotated(h, k, g, p, s)
    BY <1>a DEF Shaped, OuterDone
  <2>10. Blacks(k, M, c, NULL, "left")
    BY <1>a, <1>b, <2>3, <2>4, <2>6, <2>7, <2>8, <2>9, RotateBlacksOnly
  <2> QED BY <2>10
<1>8. Reds(k, M, NULL)
  <2> SUFFICES ASSUME NEW x \in M, k.color[x] = "red"
               PROVE  k.parent[x] \in M /\ k.color[k.parent[x]] = "black"
    BY DEF Reds
  <2>1. x \in Nodes
    BY <1>2
  <2>2. k.parent[x] = IF x = p THEN h.parent[g] ELSE IF x = g THEN p ELSE IF x = m THEN g ELSE h.parent[x]
    BY <1>a, <2>1 DEF OuterDone, Rotated, m
  <2>3. CASE x = g
    BY <1>2, <1>5, <2>2, <2>3
  <2>4. CASE x = n /\ x # g
    <3>1. x # p /\ x # m
      BY <1>a, <1>b, <1>1, <1>3, <2>4, NullFacts DEF m, Shaped, Tree
    <3> QED BY <1>2, <1>3, <1>5, <2>2, <2>4, <3>1, Zenon
  <2>5. CASE x # n /\ x # g
    <3>1. x # p /\ x # m
      BY <1>4, <1>5, <2>1, <2>5
    <3>2. k.parent[x] = h.parent[x] /\ h.color[x] = "red"
      BY <1>5, <2>1, <2>2, <2>5, <3>1
    <3>3. h.parent[x] \in M /\ h.color[h.parent[x]] = "black"
      BY <1>a, <2>5, <3>2 DEF Reds
    <3>4. h.parent[x] # g
      <4> SUFFICES ASSUME h.parent[x] = g PROVE FALSE
        OBVIOUS
      <4>1. x # h.root
        BY <1>a, <1>2, <2>1, NullFacts DEF Shaped, Tree
      <4>2. PICK t \in Sides : h.child[t][g] = x
        BY <1>a, <4>1 DEF Shaped, Tree
      <4>3. t = Opposite(s)
        BY <1>b, <1>1, <3>1, <4>2
      <4>4. x = u
        BY <4>2, <4>3 DEF u
      <4> QED BY <1>c, <2>1, <3>2, <4>4, NullFacts DEF IsBlack, u
    <3> QED BY <1>2, <1>5, <3>2, <3>3, <3>4
  <2> QED BY <2>3, <2>4, <2>5
<1> QED BY <1>7, <1>8

(* p and its inner child n are red: they change places.                    *)
LEMMA InnerColours ==
  ASSUME NEW h, NEW M, Shaped(h, M), NEW b, Blacks(h, M, b, NULL, "left"),
         NEW p \in M, NEW s \in Sides, NEW n, n = h.child[s][p], n # NULL, Reds(h, M, n),
         h.color[p] = "red", h.color[n] = "red",
         NEW k, Rotated(h, k, p, n, s), k.color = h.color
  PROVE  Blacks(k, M, b, NULL, "left") /\ Reds(k, M, p)
<1> DEFINE w == h.child[Opposite(s)][p]
           m == h.child[Opposite(s)][n]
           v == h.child[s][n]
<1>1. /\ Opposite(s) \in Sides /\ Opposite(s) # s /\ \A t \in Sides : t = s \/ t = Opposite(s)
  BY SidesFacts
<1>2. /\ n \in M /\ n \in Nodes /\ p \in Nodes /\ p # n /\ h.parent[n] = p
      /\ m # p /\ m # n /\ h.parent[p] # p /\ h.parent[p] # n
      /\ IsHeap(h) /\ M \subseteq Nodes
  <2>1. /\ n \in M /\ n \in Nodes /\ p \in Nodes /\ p # n /\ h.parent[n] = p
        /\ h.parent[p] # p /\ h.parent[p] # n
        /\ \A t \in Sides : h.child[t][n] # p /\ h.child[t][n] # n
    BY ShapedLinks
  <2> QED BY <1>1, <2>1, ShapedHeap
<1>3. /\ k.child[s][p] = m /\ k.child[Opposite(s)][p] = w
      /\ k.child[s][n] = v /\ k.child[Opposite(s)][n] = p
  <2>1. w # p
    BY <1>1, <1>2, ShapedLinks, NullFacts
  <2> QED BY <1>1, <1>2, <2>1 DEF Rotated
<1>4. Blacks(k, M, b, NULL, "left")
  <2>1. /\ b[p] = b[n] + Black(h, p) /\ b[p] = b[w] + Black(h, p)
        /\ b[n] = b[v] + Black(h, n) /\ b[n] = b[m] + Black(h, n)
        /\ b[p] \in Nat /\ b[n] \in Nat /\ b[w] \in Nat /\ b[v] \in Nat /\ b[m] \in Nat
    <3>1. \A x \in M, t \in Sides :
            b[x] = b[h.child[t][x]] + Black(h, x) /\ b[x] \in Nat /\ b[h.child[t][x]] \in Nat
      BY <1>2, BlackSum
    <3> QED BY <1>1, <1>2, <3>1
  <2>2. Black(h, p) = 0 /\ Black(h, n) = 0 /\ Black(k, p) = 0 /\ Black(k, n) = 0
    BY DEF Black
  <2> HIDE DEF w, m, v
  <2>3. BlackAt(k, b, NULL, "left", p) /\ BlackAt(k, b, NULL, "left", n)
    <3>1. \A t \in Sides : Extra(p, t, NULL, "left") = 0 /\ Extra(n, t, NULL, "left") = 0
      BY <1>2, NoExtra
    <3>2. BlackAt(k, b, NULL, "left", p)
      BY <1>1, <1>3, <2>1, <2>2, <3>1 DEF BlackAt
    <3>3. BlackAt(k, b, NULL, "left", n)
      BY <1>1, <1>3, <2>1, <2>2, <3>1 DEF BlackAt
    <3> QED BY <3>2, <3>3
  <2>4. \A x \in M : Black(k, x) = Black(h, x)
    BY DEF Black
  <2>5. PICK r, B : Ranked(h, M, r, B)
    BY DEF Shaped
  <2>6. Tree(h, M) /\ b \in [N0 -> Nat] /\ b[n] = b[p]
    BY <2>1, <2>2 DEF Shaped, Blacks
  <2> QED BY <2>3, <2>4, <2>5, <2>6, RotateBlacksOnly
<1>5. Reds(k, M, p)
  <2> SUFFICES ASSUME NEW x \in M, h.color[x] = "red", x # p
               PROVE  k.parent[x] \in M /\ h.color[k.parent[x]] = "black"
    BY DEF Reds
  <2>1. x \in Nodes
    BY <1>2
  <2>2. k.parent[x] = IF x = n THEN h.parent[p] ELSE IF x = p THEN n ELSE IF x = m THEN p ELSE h.parent[x]
    BY <2>1 DEF Rotated
  <2>3. x # m
    <3> SUFFICES ASSUME x = m PROVE FALSE
      OBVIOUS
    <3>1. h.parent[m] = n /\ m # n
      BY <1>1, <1>2, <2>1, NullFacts DEF Shaped, Tree
    <3>2. h.color[n] = "black"
      BY <3>1 DEF Reds
    <3> QED BY <3>2
  <2>4. CASE x = n
    <3>1. h.parent[p] \in M /\ h.color[h.parent[p]] = "black"
      BY <1>2 DEF Reds
    <3> QED BY <2>2, <2>4, <3>1
  <2>5. CASE x # n
    BY <2>2, <2>3, <2>5 DEF Reds
  <2> QED BY <2>4, <2>5
<1> QED BY <1>4, <1>5

Balanced(h, M) ==
  /\ Shaped(h, M) /\ Reds(h, M, NULL)
  /\ \E b : Blacks(h, M, b, NULL, "left")

(* Inside __rb_insert only the node of the loop may have a red parent.     *)
Inserting(h, M, n) ==
  /\ Shaped(h, M) /\ Reds(h, M, n) /\ n \in M /\ h.color[n] = "red"
  /\ \E b : Blacks(h, M, b, NULL, "left")

(* Of all else that a step may change nothing matters to the other nodes.  *)
Frame(h, k, M) == OutsideSame(h, k, M) /\ SameData(h, k)

LEMMA FrameTrans ==
  ASSUME NEW h, NEW j, NEW k, NEW M, Frame(h, j, M), Frame(j, k, M)
  PROVE  Frame(h, k, M)
BY DEF Frame, OutsideSame, SameData

LEMMA RotateFrame ==
  ASSUME NEW h, NEW M, Shaped(h, M),
         NEW o \in M, NEW s \in Sides, NEW n, n = h.child[s][o], n # NULL,
         NEW k, Rotated(h, k, o, n, s)
  PROVE  Frame(h, k, M)
BY RotateShaped DEF Frame, Rotated

(* p is the child of its parent on the side that the loops find.           *)
LEMMA SideOfParent ==
  ASSUME NEW h, NEW M, Shaped(h, M), NEW p \in M, h.parent[p] # NULL
  PROVE  /\ h.parent[p] \in M /\ SideOf(h, p, h.parent[p]) \in Sides
         /\ h.child[SideOf(h, p, h.parent[p])][h.parent[p]] = p
<1>1. p # h.root
  BY NullFacts DEF Shaped, Tree
<1>2. h.parent[p] \in M /\ \E t \in Sides : h.child[t][h.parent[p]] = p
  BY <1>1 DEF Shaped, Tree
<1> QED BY <1>2 DEF SideOf, Sides

(* The child of a red node that may itself not be red.                     *)
LEMMA BlackBelowRed ==
  ASSUME NEW h, NEW M, Shaped(h, M), NEW x0, Reds(h, M, x0),
         NEW p \in M, h.color[p] = "red", NEW s \in Sides, h.child[s][p] # x0
  PROVE  IsBlack(h, h.child[s][p])
<1> SUFFICES ASSUME h.child[s][p] # NULL PROVE h.color[h.child[s][p]] = "black"
  BY DEF IsBlack
<1>1. h.child[s][p] \in M /\ h.parent[h.child[s][p]] = p /\ M \subseteq Nodes /\ IsHeap(h)
  BY DEF Shaped, Tree
<1>2. h.color[h.child[s][p]] # "red"
  BY <1>1 DEF Reds
<1> QED BY <1>1, <1>2, HeapTypes DEF Colors

BlackUncle(h, M, n, p, g) ==
  /\ Inserting(h, M, n)
  /\ p = h.parent[n] /\ p # NULL /\ h.color[p] = "red"
  /\ g = h.parent[p]
  /\ IsBlack(h, h.child[Opposite(SideOf(h, p, g))][g])

LEMMA InsertRotateKeeps ==
  ASSUME NEW h, NEW M, NEW n, NEW cb, NEW p, NEW g, BlackUncle(h, M, n, p, g)
  PROVE  LET k == InsertRotate(h, n, cb)
         IN  Balanced(k, M) /\ Frame(h, k, M)
<1> DEFINE s == SideOf(h, p, g)
           u == Opposite(s)
           k == InsertRotate(h, n, cb)
<1>a. p = h.parent[n] /\ p # NULL /\ h.color[p] = "red" /\ g = h.parent[p]
  BY Zenon DEF BlackUncle
<1>1. /\ Shaped(h, M) /\ Reds(h, M, n) /\ n \in M /\ h.color[n] = "red"
      /\ \E b : Blacks(h, M, b, NULL, "left")
  BY Zenon DEF Inserting, BlackUncle
<1>2. IsHeap(h) /\ M \subseteq Nodes
  BY <1>1, ShapedHeap
<1>3. p \in M /\ SideOf(h, n, p) \in Sides /\ h.child[SideOf(h, n, p)][p] = n
  BY <1>a, <1>1, SideOfParent
<1>4. n # p /\ n \in Nodes /\ p \in Nodes
  <2>1. n # NULL /\ n \in Nodes /\ p \in Nodes
    BY <1>1, <1>2, <1>3, NullFacts
  <2> QED BY <1>1, <1>3, <2>1, ChildFacts
<1>5. g \in M /\ h.color[g] = "black"
  BY <1>a, <1>1, <1>3, <1>4 DEF Reds
<1>6. g # NULL
  BY <1>2, <1>5, NullFacts
<1>7. s \in Sides /\ h.child[s][g] = p
  BY <1>a, <1>1, <1>3, <1>6, SideOfParent
<1>8. u \in Sides /\ u # s /\ Opposite(u) = s /\ \A t \in Sides : t = s \/ t = u
  BY <1>7, SidesFacts
<1>9. IsBlack(h, h.child[u][g])
  BY Zenon DEF BlackUncle
<1>10. PICK b : Blacks(h, M, b, NULL, "left")
  BY <1>1
<1>11. k = IF h.child[u][p] = n
           THEN InsertOuter(InsertInner(h, p, n, s, cb), g, n, s, cb)
           ELSE InsertOuter(h, g, p, s, cb)
  BY <1>a DEF InsertRotate
<1> HIDE DEF s, u, k
<1>12. CASE h.child[u][p] # n
  <2>1. h.child[s][p] = n
    BY <1>3, <1>8, <1>12
  <2>2. IsBlack(h, h.child[u][p])
    BY <1>a, <1>1, <1>3, <1>8, <1>12, BlackBelowRed
  <2>3. Half(h, h, g, p, s)
    BY <1>2, HalfSelf
  <2>4. k = InsertOuter(h, g, p, s, cb)
    BY <1>11, <1>12
  <2>5. OuterDone(h, k, g, p, s)
    BY <1>a, <1>1, <1>5, <1>7, <2>3, <2>4, InsertOuterFields
  <2>6. n # NULL
    BY <1>4, NullFacts
  <2>7. (\E c : Blacks(k, M, c, NULL, "left")) /\ Reds(k, M, NULL)
    <3>1. OuterCase(h, M, b, g, s, p, n, k)
      BY <1>a, <1>1, <1>5, <1>7, <1>9, <1>10, <2>1, <2>2, <2>5, <2>6, Zenon DEF u, OuterCase
    <3> QED BY <3>1, OuterColours, Zenon
  <2>8. Shaped(k, M) /\ Frame(h, k, M)
    BY <1>a, <1>1, <1>5, <1>7, <2>5, RotateShaped, RotateFrame DEF OuterDone
  <2> QED BY <2>7, <2>8 DEF Balanced, k
<1>13. CASE h.child[u][p] = n
  <2>0. n # NULL
    BY <1>4, NullFacts
  <2> DEFINE f == InsertInner(h, p, n, s, cb)
  <2>1. PICK j : InnerDone(h, j, p, n, s) /\ Half(j, f, g, n, s)
    <3>1. n = h.child[Opposite(s)][p]
      BY <1>13 DEF u
    <3> QED BY <1>a, <1>1, <1>5, <1>7, <2>0, <3>1, InsertInnerFields, Zenon
  <2> HIDE DEF f
  <2>2. Rotated(h, j, p, n, u)
    BY <2>1 DEF u, InnerDone
  <2>3. \A t \in Sides : h.child[t][n] # n /\ h.child[t][n] # p
    BY <1>1, <1>3, <1>8, <1>13, <2>0, ShapedLinks
  <2>4. \A t \in Sides : IsBlack(h, h.child[t][n])
    BY <1>1, <2>3, BlackBelowRed
  <2>5. j.color = h.color
    <3>1. ASSUME NEW y \in Nodes PROVE j.color[y] = h.color[y]
      <4>1. h.child[s][n] \in Nodes => h.color[h.child[s][n]] = "black"
        BY <1>7, <2>4, NullFacts, Zenon DEF IsBlack
      <4> QED BY <1>a, <2>1, <4>1 DEF InnerDone
    <3>2. j.color \in [Nodes -> Colors] /\ h.color \in [Nodes -> Colors]
      BY <1>2, <2>2 DEF Rotated, IsHeap
    <3> QED BY <3>1, <3>2
  <2>6. Shaped(j, M) /\ Frame(h, j, M)
    BY <1>1, <1>3, <1>8, <1>13, <2>0, <2>2, RotateShaped, RotateFrame
  <2>7. Blacks(j, M, b, NULL, "left") /\ Reds(j, M, p)
    BY <1>a, <1>1, <1>3, <1>8, <1>10, <1>13, <2>0, <2>2, <2>5, InnerColours
  <2>8. g \in Nodes /\ g # p /\ g # n /\ h.parent[p] = g
    BY <1>a, <1>1, <1>2, <1>3, <1>5, <1>8, <1>13, <2>0, ShapedLinks
  <2>9. /\ j.child[s][g] = n /\ j.child[u][g] = h.child[u][g]
        /\ j.child[s][n] = p /\ j.child[u][n] = h.child[u][n]
    <3>1. h.child[u][g] # p
      BY <1>5, <1>7, <1>8, <1>1, <1>3, <1>4, NullFacts DEF Shaped, Tree
    <3>2. \A t \in Sides, x \in Nodes :
            j.child[t][x] = IF x = p /\ t = u THEN h.child[s][n]
                       ELSE IF x = n /\ t = s THEN p
                       ELSE IF x = g /\ h.child[t][x] = p THEN n
                       ELSE h.child[t][x]
      BY <1>8, <2>2, <2>8 DEF Rotated
    <3> QED BY <1>4, <1>7, <1>8, <2>3, <2>8, <3>1, <3>2
  <2>10. IsBlack(j, j.child[u][g]) /\ IsBlack(j, j.child[u][n])
    BY <1>8, <1>9, <2>4, <2>5, <2>9, Zenon DEF IsBlack
  <2>11. k = InsertOuter(f, g, n, s, cb)
    BY <1>11, <1>13 DEF f
  <2>12. OuterDone(j, k, g, n, s)
    BY <1>5, <1>7, <2>0, <2>1, <2>6, <2>9, <2>11, InsertOuterFields, Zenon
  <2>13. (\E c : Blacks(k, M, c, NULL, "left")) /\ Reds(k, M, NULL)
    <3>1. j.color[g] = "black" /\ j.color[n] = "red"
      BY <1>1, <1>5, <2>5
    <3>2. IsBlack(j, j.child[Opposite(s)][g]) /\ IsBlack(j, j.child[Opposite(s)][n])
      BY <2>10 DEF u
    <3>3. p = j.child[s][n] /\ n = j.child[s][g] /\ p # NULL
      BY <1>a, <2>9
    <3>4. OuterCase(j, M, b, g, s, n, p, k)
      BY <1>5, <1>7, <2>0, <2>6, <2>7, <2>12, <3>1, <3>2, <3>3, Zenon DEF OuterCase
    <3> QED BY <3>4, OuterColours, Zenon
  <2>14. Shaped(k, M) /\ Frame(j, k, M)
    BY <1>5, <1>7, <2>0, <2>6, <2>9, <2>12, RotateShaped, RotateFrame, Zenon DEF OuterDone
  <2> QED BY <2>6, <2>13, <2>14, FrameTrans DEF Balanced, k
<1> QED BY <1>12, <1>13

(* Only the colours of k differ from those of h.                           *)
Painted(h, k) ==
  /\ IsHeap(k) /\ SameData(h, k)
  /\ k.root = h.root /\ k.child = h.child /\ k.parent = h.parent

LEMMA PaintedShaped ==
  ASSUME NEW h, NEW M, Shaped(h, M), NEW k, Painted(h, k)
  PROVE  Shaped(k, M) /\ Frame(h, k, M)
<1>1. Tree(k, M)
  BY DEF Shaped, Tree, Painted
<1>2. PICK r, B : Ranked(h, M, r, B)
  BY DEF Shaped
<1>3. Ranked(k, M, r, B)
  BY <1>2 DEF Ranked, Painted
<1>4. Frame(h, k, M)
  BY DEF Frame, Painted, OutsideSame
<1> QED BY <1>1, <1>3, <1>4 DEF Shaped

LEMMA PaintsPainted ==
  ASSUME NEW h, IsHeap(h), NEW k, NEW x, NEW v, NEW c, PaintsAt(h, k, x, v, c), x \in Nodes => h.parent[x] = v
  PROVE  Painted(h, k)
<1>1. k.parent \in [Nodes -> N0] /\ h.parent \in [Nodes -> N0]
  BY DEF IsHeap, PaintsAt
<1>2. \A y \in Nodes : k.parent[y] = h.parent[y]
  BY DEF PaintsAt
<1>3. k.parent = h.parent
  BY <1>1, <1>2
<1> QED BY <1>3 DEF Painted, PaintsAt

LEMMA PaintedTrans ==
  ASSUME NEW h, NEW j, NEW k, Painted(h, j), Painted(j, k)
  PROVE  Painted(h, k)
BY DEF Painted, SameData

RedUncle(h, M, n, p, g, u) ==
  /\ Inserting(h, M, n)
  /\ p = h.parent[n] /\ p # NULL /\ h.color[p] = "red"
  /\ g = h.parent[p]
  /\ u = h.child[Opposite(SideOf(h, p, g))][g] /\ u # NULL /\ h.color[u] = "red"

(* Parent p and uncle u of n turn black, g above them red.                 *)
LEMMA InsertFlipKeeps ==
  ASSUME NEW h, NEW M, NEW n, NEW p, NEW g, NEW u, RedUncle(h, M, n, p, g, u)
  PROVE  LET k == InsertFlip(h, n)
         IN  Inserting(k, M, g) /\ Painted(h, k) /\ g \in M
<1>a. /\ p = h.parent[n] /\ p # NULL /\ h.color[p] = "red" /\ g = h.parent[p]
      /\ u # NULL /\ h.color[u] = "red"
  BY Zenon DEF RedUncle
<1> DEFINE s == SideOf(h, p, g)
           i == rb_set_parent_color(h, u, g, "black")
           j == rb_set_parent_color(i, p, g, "black")
           q == h.parent[g]
           k == rb_set_parent_color(j, g, q, "red")
<1>b. u = h.child[Opposite(s)][g]
  BY Zenon DEF RedUncle
<1>0. k = InsertFlip(h, n)
  BY <1>a, <1>b, Zenon DEF InsertFlip
<1>1. /\ Shaped(h, M) /\ Reds(h, M, n) /\ n \in M /\ h.color[n] = "red"
      /\ \E b : Blacks(h, M, b, NULL, "left")
  BY Zenon DEF Inserting, RedUncle
<1>2. IsHeap(h) /\ M \subseteq Nodes /\ "red" \in Colors /\ "black" \in Colors
  BY <1>1, ShapedHeap DEF Colors
<1>3. p \in M /\ SideOf(h, n, p) \in Sides /\ h.child[SideOf(h, n, p)][p] = n
  BY <1>a, <1>1, SideOfParent
<1>4. n # p /\ n \in Nodes /\ p \in Nodes
  BY <1>1, <1>2, <1>3, ShapedLinks, NullFacts
<1>5. g \in M /\ h.color[g] = "black" /\ g # NULL
  BY <1>a, <1>1, <1>2, <1>3, <1>4, NullFacts DEF Reds
<1>6. s \in Sides /\ h.child[s][g] = p
  BY <1>a, <1>1, <1>3, <1>5, SideOfParent
<1> HIDE DEF s
<1>7. /\ Opposite(s) \in Sides /\ Opposite(s) # s
      /\ \A t \in Sides : t = s \/ t = Opposite(s)
  BY <1>6, SidesFacts
<1>8. u \in M /\ u \in Nodes /\ h.parent[u] = g /\ u # g
  <2>1. u = h.child[Opposite(s)][g] /\ Opposite(s) \in Sides /\ u # NULL
    BY <1>a, <1>b, <1>7, Zenon
  <2> QED BY <1>1, <1>5, <2>1, ShapedLinks
<1>9. u # p /\ p # g /\ g \in Nodes /\ g \in N0 /\ q \in N0
  <2>1. g \in Nodes /\ g \in N0 /\ q \in N0
    BY <1>2, <1>5, HeapTypes, NullFacts
  <2>2. u # p
    <3>1. \A x \in M, t \in Sides : h.child[t][x] # NULL => h.child[t][x] # h.child[Opposite(t)][x]
      BY <1>1 DEF Shaped, Tree
    <3> QED BY <1>a, <1>b, <1>5, <1>6, <3>1, Zenon
  <2>3. p # g
    BY <1>a, <1>1, <1>3, <1>5, <1>6, ShapedLinks
  <2> QED BY <2>1, <2>2, <2>3
<1> HIDE DEF q
<1>10. PaintsAt(h, i, u, g, "black")
  BY <1>2, <1>8, <1>9, SetParentColor, Zenon
<1>11. IsHeap(i)
  BY <1>10, Zenon DEF PaintsAt
<1> HIDE DEF i
<1>12. PaintsAt(i, j, p, g, "black")
  BY <1>2, <1>4, <1>9, <1>11, SetParentColor
<1>13. IsHeap(j)
  BY <1>12 DEF PaintsAt
<1> HIDE DEF j
<1>14. PaintsAt(j, k, g, q, "red")
  BY <1>2, <1>9, <1>13, SetParentColor
<1> HIDE DEF k
<1>15. Painted(h, i)
  BY <1>2, <1>8, <1>10, PaintsPainted, Zenon
<1>16. Painted(i, j)
  <2>1. i.parent[p] = g
    BY <1>a, <1>15 DEF Painted
  <2> QED BY <1>11, <1>12, <2>1, PaintsPainted
<1>17. Painted(j, k)
  <2>1. j.parent[g] = q
    BY <1>15, <1>16 DEF Painted, q
  <2> QED BY <1>13, <1>14, <2>1, PaintsPainted
<1>18. Painted(h, k)
  BY <1>15, <1>16, <1>17, PaintedTrans
<1>19. /\ \A y \in Nodes : y # u /\ y # p /\ y # g => k.color[y] = h.color[y]
       /\ k.color[u] = "black" /\ k.color[p] = "black" /\ k.color[g] = "red"
  <2>1. \A y \in Nodes : i.color[y] = IF y = u THEN "black" ELSE h.color[y]
    BY <1>10 DEF PaintsAt
  <2>2. \A y \in Nodes : j.color[y] = IF y = p THEN "black" ELSE i.color[y]
    BY <1>12 DEF PaintsAt
  <2>3. \A y \in Nodes : k.color[y] = IF y = g THEN "red" ELSE j.color[y]
    BY <1>14 DEF PaintsAt
  <2>4. \A y \in Nodes : k.color[y] = IF y = g THEN "red" ELSE IF y = p \/ y = u THEN "black" ELSE h.color[y]
    BY <2>1, <2>2, <2>3
  <2>5. u \in Nodes /\ p \in Nodes /\ g \in Nodes /\ u # g /\ p # g
    BY <1>4, <1>8, <1>9
  <2> QED BY <2>4, <2>5, Zenon
<1>20. Shaped(k, M)
  BY <1>1, <1>18, PaintedShaped
<1>21. k.child = h.child /\ k.parent = h.parent
  BY <1>18 DEF Painted
<1>22. Reds(k, M, g)
  <2> SUFFICES ASSUME NEW x \in M, k.color[x] = "red", x # g
               PROVE  h.parent[x] \in M /\ k.color[h.parent[x]] = "black"
    BY <1>21 DEF Reds
  <2>1. x \in Nodes /\ x # u /\ x # p /\ h.color[x] = "red"
    BY <1>2, <1>19
  <2>2. CASE x = n
    BY <1>a, <1>3, <1>19, <2>2
  <2>3. CASE x # n
    <3>1. h.parent[x] \in M /\ h.color[h.parent[x]] = "black"
      BY <1>1, <2>1, <2>3 DEF Reds
    <3>2. h.parent[x] # g
      <4> SUFFICES ASSUME h.parent[x] = g PROVE FALSE
        OBVIOUS
      <4>1. x # h.root
        BY <1>1, <1>5, <2>1, NullFacts DEF Shaped, Tree
      <4>2. PICK t \in Sides : h.child[t][g] = x
        BY <1>1, <4>1 DEF Shaped, Tree
      <4> QED BY <1>b, <1>6, <1>7, <2>1, <4>2
    <3>3. h.parent[x] \in Nodes /\ h.parent[x] # u /\ h.parent[x] # p
      BY <1>a, <1>2, <3>1
    <3> QED BY <1>19, <3>1, <3>2, <3>3, Zenon
  <2> QED BY <2>2, <2>3
<1>23. \E c : Blacks(k, M, c, NULL, "left")
  <2>1. PICK b : Blacks(h, M, b, NULL, "left")
    BY <1>1
  <2>2. \A x \in M, t \in Sides :
          b[x] = b[h.child[t][x]] + Black(h, x) /\ b[x] \in Nat /\ b[h.child[t][x]] \in Nat
    BY <1>2, <2>1, BlackSum
  <2> DEFINE c == [x \in N0 |-> IF x = u \/ x = p THEN b[x] + 1 ELSE b[x]]
  <2>3. c \in [N0 -> Nat] /\ c[NULL] = 0
    <3>1. b \in [N0 -> Nat] /\ b[NULL] = 0
      BY <2>1 DEF Blacks
    <3>2. NULL # u /\ NULL # p /\ NULL \in N0
      BY <1>4, <1>8, NullFacts
    <3>3. \A x \in N0 : b[x] \in Nat /\ b[x] + 1 \in Nat
      BY <3>1
    <3>4. c[NULL] = b[NULL]
      BY <3>2
    <3>5. c \in [N0 -> Nat]
      BY <3>3
    <3> QED BY <3>1, <3>4, <3>5, Zenon
  <2>4. /\ c[u] = b[u] + 1 /\ c[p] = b[p] + 1
        /\ \A x \in N0 : x # u /\ x # p => c[x] = b[x]
    BY <1>4, <1>8, NullFacts, Zenon
  <2> HIDE DEF c
  <2>5. ASSUME NEW x \in M, NEW t \in Sides
        PROVE  c[x] = c[h.child[t][x]] + Black(k, x)
    <3>1. /\ b[x] = b[h.child[t][x]] + Black(h, x) /\ b[x] \in Nat /\ b[h.child[t][x]] \in Nat
          /\ x \in Nodes /\ x \in N0 /\ h.child[t][x] \in N0
      BY <1>2, <2>2, HeapTypes, NullFacts
    <3>2. h.child[t][x] = p \/ h.child[t][x] = u => x = g
      <4>1. h.child[t][x] # NULL => h.parent[h.child[t][x]] = x
        BY <1>1 DEF Shaped, Tree
      <4> QED BY <1>a, <1>4, <1>8, <4>1, NullFacts
    <3>3. CASE x = g
      <4>1. h.child[t][x] = p \/ h.child[t][x] = u
        BY <1>b, <1>6, <1>7, <3>3
      <4>2. Black(h, x) = 1 /\ Black(k, x) = 0
        BY <1>5, <1>19, <3>3, Zenon DEF Black
      <4>3. c[x] = b[x] /\ c[h.child[t][x]] = b[h.child[t][x]] + 1
        BY <1>8, <1>9, <2>4, <3>1, <3>3, <4>1, Zenon
      <4> QED BY <3>1, <4>2, <4>3
    <3>4. CASE x = u \/ x = p
      <4>1. Black(h, x) = 0 /\ Black(k, x) = 1
        BY <1>a, <1>19, <3>4, Zenon DEF Black
      <4>2. c[x] = b[x] + 1 /\ c[h.child[t][x]] = b[h.child[t][x]]
        BY <1>8, <1>9, <2>4, <3>1, <3>2, <3>4, Zenon
      <4> QED BY <3>1, <4>1, <4>2
    <3>5. CASE x # g /\ x # u /\ x # p
      <4>1. Black(h, x) = Black(k, x)
        BY <1>19, <3>1, <3>5, Zenon DEF Black
      <4>2. c[x] = b[x] /\ c[h.child[t][x]] = b[h.child[t][x]]
        BY <2>4, <3>1, <3>2, <3>5, Zenon
      <4> QED BY <3>1, <4>1, <4>2
    <3> QED BY <3>3, <3>4, <3>5
  <2>6. ASSUME NEW x \in M PROVE BlackAt(k, c, NULL, "left", x)
    <3>1. \A t \in Sides : Extra(x, t, NULL, "left") = 0
      BY <1>2, NoExtra
    <3>2. \A t \in Sides : c[h.child[t][x]] \in Nat /\ Black(k, x) \in Nat
      BY <1>2, <2>3, HeapTypes DEF Black
    <3> QED BY <1>21, <2>5, <3>1, <3>2 DEF BlackAt
  <2> QED BY <2>3, <2>6 DEF Blacks
<1> QED BY <1>0, <1>5, <1>18, <1>19, <1>20, <1>22, <1>23, Zenon DEF Inserting

(* An iteration leaves a balanced tree behind, or one that is but for the  *)
(* grandparent.                                                            *)
LEMMA InsertStepKeeps ==
  ASSUME NEW h, NEW M, NEW n, Inserting(h, M, n), NEW cb
  PROVE  LET step == InsertStep(h, n, cb)
         IN  /\ Frame(h, step.heap, M)
             /\ step.node = NULL => Balanced(step.heap, M)
             /\ step.node # NULL =>
                  /\ Inserting(step.heap, M, step.node) /\ Painted(h, step.heap)
                  /\ h.parent[n] \in M /\ step.node = h.parent[h.parent[n]]
<1> DEFINE p == h.parent[n]
           g == h.parent[p]
           u == h.child[Opposite(SideOf(h, p, g))][g]
           step == InsertStep(h, n, cb)
<1>1. /\ Shaped(h, M) /\ Reds(h, M, n) /\ n \in M /\ h.color[n] = "red"
      /\ \E b : Blacks(h, M, b, NULL, "left")
  BY DEF Inserting
<1>2. IsHeap(h) /\ M \subseteq Nodes /\ n \in Nodes /\ "black" \in Colors
  BY <1>1, ShapedHeap DEF Colors
<1>3. CASE p = NULL
  <2> DEFINE k == rb_set_parent_color(h, n, NULL, "black")
  <2>1. step.heap = k /\ step.node = NULL
    BY <1>3 DEF InsertStep
  <2>2. PaintsAt(h, k, n, NULL, "black")
    BY <1>2, NullFacts, SetParentColor
  <2> HIDE DEF k
  <2>3. Painted(h, k)
    BY <1>2, <1>3, <2>2, PaintsPainted
  <2>4. Shaped(k, M) /\ Frame(h, k, M)
    BY <1>1, <2>3, PaintedShaped
  <2>5. /\ \A y \in Nodes : k.color[y] = IF y = n THEN "black" ELSE h.color[y]
        /\ k.parent = h.parent /\ k.child = h.child
    BY <2>2, <2>3 DEF PaintsAt, Painted
  <2>6. Reds(k, M, NULL)
    <3> SUFFICES ASSUME NEW x \in M, k.color[x] = "red"
                 PROVE  h.parent[x] \in M /\ k.color[h.parent[x]] = "black"
      BY <2>5 DEF Reds
    <3>1. x # n /\ h.color[x] = "red"
      BY <1>2, <2>5
    <3>2. h.parent[x] \in M /\ h.color[h.parent[x]] = "black"
      BY <1>1, <3>1 DEF Reds
    <3> QED BY <1>2, <2>5, <3>2
  <2>7. \E c : Blacks(k, M, c, NULL, "left")
    <3>1. PICK b : Blacks(h, M, b, NULL, "left")
      BY <1>1
    <3>2. \A x \in M, t \in Sides :
            b[x] = b[h.child[t][x]] + Black(h, x) /\ b[x] \in Nat /\ b[h.child[t][x]] \in Nat
      BY <1>2, <3>1, BlackSum
    <3> DEFINE c == [x \in N0 |-> IF x = n THEN b[x] + 1 ELSE b[x]]
    <3>3. c \in [N0 -> Nat] /\ c[NULL] = 0
      BY <1>2, <3>1, NullFacts DEF Blacks
    <3>4. ASSUME NEW x \in M, NEW t \in Sides
          PROVE  c[x] = c[h.child[t][x]] + Black(k, x)
      <4>1. /\ b[x] = b[h.child[t][x]] + Black(h, x) /\ b[x] \in Nat /\ b[h.child[t][x]] \in Nat
            /\ x \in Nodes /\ x \in N0 /\ h.child[t][x] \in N0
        BY <1>2, <3>2, HeapTypes, NullFacts
      <4>2. h.child[t][x] # n
        <5>1. h.child[t][x] # NULL => h.parent[h.child[t][x]] = x
          BY <1>1 DEF Shaped, Tree
        <5> QED BY <1>2, <1>3, <4>1, <5>1, NullFacts
      <4>3. IF x = n THEN Black(h, x) = 0 /\ Black(k, x) = 1 ELSE Black(h, x) = Black(k, x)
        BY <1>1, <2>5, <4>1 DEF Black
      <4> QED BY <4>1, <4>2, <4>3
    <3> HIDE DEF c
    <3>5. ASSUME NEW x \in M PROVE BlackAt(k, c, NULL, "left", x)
      <4>1. \A t \in Sides : Extra(x, t, NULL, "left") = 0
        BY <1>2, NoExtra
      <4>2. \A t \in Sides : c[h.child[t][x]] \in Nat /\ Black(k, x) \in Nat
        BY <1>2, <3>3, HeapTypes DEF Black
      <4> QED BY <2>5, <3>4, <4>1, <4>2 DEF BlackAt
    <3> QED BY <3>3, <3>5 DEF Blacks
  <2> QED BY <2>1, <2>4, <2>6, <2>7 DEF Balanced
<1>4. CASE p # NULL /\ h.color[p] = "black"
  <2>1. step.heap = h /\ step.node = NULL
    BY <1>4 DEF InsertStep
  <2>2. p \in M
    BY <1>1, <1>4, SideOfParent
  <2>3. Reds(h, M, NULL)
    BY <1>1, <1>4, <2>2 DEF Reds
  <2> QED BY <1>1, <2>1, <2>3 DEF Balanced, Frame, OutsideSame, SameData
<1>5. CASE p # NULL /\ h.color[p] # "black" /\ u # NULL /\ h.color[u] = "red"
  <2>1. step.heap = InsertFlip(h, n) /\ step.node = g
    BY <1>5 DEF InsertStep
  <2>2. p \in M
    BY <1>1, <1>5, SideOfParent
  <2>3. h.color[p] = "red"
    BY <1>2, <1>5, <2>2, HeapTypes DEF Colors
  <2>4. Inserting(InsertFlip(h, n), M, g) /\ Painted(h, InsertFlip(h, n)) /\ g \in M
    <3>1. RedUncle(h, M, n, p, g, u)
      BY <1>5, <2>3, Zenon DEF RedUncle
    <3> QED BY <3>1, InsertFlipKeeps, Zenon
  <2>5. Frame(h, InsertFlip(h, n), M) /\ g # NULL
    BY <1>1, <1>2, <2>4, PaintedShaped, NullFacts
  <2> QED BY <2>1, <2>2, <2>4, <2>5
<1>6. CASE p # NULL /\ h.color[p] # "black" /\ ~(u # NULL /\ h.color[u] = "red")
  <2>1. step.heap = InsertRotate(h, n, cb) /\ step.node = NULL
    BY <1>6, Zenon DEF InsertStep
  <2>2. p \in M
    BY <1>1, <1>6, SideOfParent, Zenon
  <2>3. h.color[p] = "red"
    BY <1>2, <1>6, <2>2, HeapTypes DEF Colors
  <2>4. p # n
    <3>1. SideOf(h, n, p) \in Sides /\ h.child[SideOf(h, n, p)][p] = n
      BY <1>1, <1>6, SideOfParent, Zenon
    <3> QED BY <1>1, <1>2, <2>2, <3>1, ShapedLinks, NullFacts
  <2>5. g \in M
    BY <1>1, <2>2, <2>3, <2>4 DEF Reds
  <2>6. IsBlack(h, u)
    <3>1. u \in N0
      <4>1. Opposite(SideOf(h, p, g)) \in Sides
        BY DEF SideOf, Opposite, Sides
      <4> QED BY <1>2, <2>5, <4>1, HeapTypes
    <3>2. u # NULL => h.color[u] \in Colors
      BY <1>2, <3>1, HeapTypes DEF N0
    <3> QED BY <1>6, <3>2, Zenon DEF IsBlack, Colors
  <2>7. Balanced(InsertRotate(h, n, cb), M) /\ Frame(h, InsertRotate(h, n, cb), M)
    <3>1. BlackUncle(h, M, n, p, g)
      BY <1>6, <2>3, <2>6, Zenon DEF BlackUncle
    <3> QED BY <3>1, InsertRotateKeeps, Zenon
  <2> QED BY <2>1, <2>7
<1> QED BY <1>3, <1>4, <1>5, <1>6

-----------------------------------------------------------------------------
(* An iteration of ____rb_erase_color.                                     *)

(* The paths through n, which is below p on the other side than s, lack a  *)
(* black node.                                                             *)
Deficient(h, M, n, p, s, b) ==
  /\ Shaped(h, M) /\ Reds(h, M, NULL) /\ p \in M /\ s \in Sides
  /\ n = h.child[Opposite(s)][p] /\ IsBlack(h, n)
  /\ Blacks(h, M, b, p, Opposite(s))

LEMMA BlackSumAt ==
  ASSUME NEW h, NEW M, M \subseteq Nodes, NEW b, NEW q, NEW e, Blacks(h, M, b, q, e), IsHeap(h), NEW x \in M, NEW s \in Sides
  PROVE  /\ b[x] = b[h.child[s][x]] + Extra(x, s, q, e) + Black(h, x)
         /\ b[x] \in Nat /\ b[h.child[s][x]] \in Nat
<1>1. x \in Nodes /\ x \in N0 /\ h.child[s][x] \in N0
  BY HeapTypes, NullFacts
<1>2. b[x] = b[h.child[s][x]] + Extra(x, s, q, e) + Black(h, x)
  BY DEF Blacks, BlackAt
<1>3. b[x] \in Nat /\ b[h.child[s][x]] \in Nat
  BY <1>1 DEF Blacks
<1> QED BY <1>2, <1>3

(* Then the sibling z of n is a node with a black node below or at it.     *)
LEMMA Sibling ==
  ASSUME NEW h, NEW M, NEW n, NEW p, NEW s, NEW b, Deficient(h, M, n, p, s, b),
         NEW z, z = h.child[s][p]
  PROVE  /\ b[p] = b[z] + Black(h, p) /\ b[z] = b[n] + 1 /\ b[n] \in Nat /\ b[z] \in Nat /\ b[p] \in Nat
         /\ z # NULL /\ z # n /\ z # p /\ n # p /\ z \in M /\ z \in Nodes /\ p \in Nodes /\ h.parent[z] = p
         /\ n \in N0 /\ p # NULL
         /\ \A x \in M, t \in Sides :
              x # p => /\ b[x] = b[h.child[t][x]] + Black(h, x)
                       /\ b[x] \in Nat /\ b[h.child[t][x]] \in Nat
<1> USE DEF Deficient
<1>0. IsHeap(h) /\ M \subseteq Nodes
  BY ShapedHeap
<1>1. Opposite(s) \in Sides /\ Opposite(s) # s
  BY SidesFacts
<1>2. /\ b[p] = b[n] + Extra(p, Opposite(s), p, Opposite(s)) + Black(h, p) /\ b[p] \in Nat /\ b[n] \in Nat
      /\ b[p] = b[z] + Extra(p, s, p, Opposite(s)) + Black(h, p) /\ b[z] \in Nat
  <2>1. \A x \in M, t \in Sides :
          /\ b[x] = b[h.child[t][x]] + Extra(x, t, p, Opposite(s)) + Black(h, x)
          /\ b[x] \in Nat /\ b[h.child[t][x]] \in Nat
    BY <1>0, BlackSumAt
  <2> QED BY <1>1, <2>1
<1>3. Extra(p, Opposite(s), p, Opposite(s)) = 1 /\ Extra(p, s, p, Opposite(s)) = 0 /\ Black(h, p) \in Nat
  BY <1>1 DEF Extra, Black
<1>4. b[p] = b[z] + Black(h, p) /\ b[z] = b[n] + 1
  BY <1>2, <1>3
<1>5. z # NULL /\ z # n
  <2>1. b[NULL] = 0
    BY DEF Blacks
  <2> QED BY <1>2, <1>4, <2>1
<1>6. z \in M /\ z \in Nodes /\ p \in Nodes /\ h.parent[z] = p /\ z # p
  BY <1>5, ShapedLinks
<1>7. n \in N0 /\ p # NULL /\ n # p
  <2>1. n \in N0 /\ p # NULL
    BY <1>0, <1>1, <1>6, HeapTypes, NullFacts
  <2>2. n # NULL => n # p
    BY <1>1, ShapedLinks
  <2> QED BY <2>1, <2>2
<1>8. ASSUME NEW x \in M, NEW t \in Sides, x # p
      PROVE  /\ b[x] = b[h.child[t][x]] + Black(h, x)
             /\ b[x] \in Nat /\ b[h.child[t][x]] \in Nat
  <2>1. /\ b[x] = b[h.child[t][x]] + Extra(x, t, p, Opposite(s)) + Black(h, x)
        /\ b[x] \in Nat /\ b[h.child[t][x]] \in Nat
    BY <1>0, BlackSumAt
  <2>2. Extra(x, t, p, Opposite(s)) = 0
    BY <1>8 DEF Extra
  <2>3. Black(h, x) \in Nat
    BY DEF Black
  <2> QED BY <2>1, <2>2, <2>3
<1> QED BY <1>2, <1>4, <1>5, <1>6, <1>7, <1>8

(* Case 1: the sibling is red and rotates over the parent.                 *)
RedSiblingDone(h, k, p, z, s) ==
  /\ Rotated(h, k, p, z, s)
  /\ \A y \in Nodes : k.color[y] = IF y = p THEN "red" ELSE IF y = z THEN h.color[p]
                                   ELSE IF y = h.child[Opposite(s)][z] THEN "black" ELSE h.color[y]

LEMMA EraseRedSiblingFields ==
  ASSUME NEW h, NEW M, Shaped(h, M), NEW cb,
         NEW p \in M, NEW s \in Sides, NEW z, z = h.child[s][p], z # NULL,
         h.child[Opposite(s)][z] # NULL
  PROVE  RedSiblingDone(h, EraseRedSibling(h, p, z, s, cb), p, z, s)
<1> DEFINE m == h.child[Opposite(s)][z]
           i == Lift(h, p, z, s)
           j == rb_set_parent_color(i, m, p, "black")
           l == rb_rotate_set_parents(j, p, z, "red")
           k == augment_rotate(l, p, z, cb)
<1>1. k = EraseRedSibling(h, p, z, s, cb)
  BY DEF EraseRedSibling
<1>2. /\ z \in M /\ z \in Nodes /\ p \in Nodes /\ z # p
      /\ m # z /\ m # p /\ m \in Nodes
  BY ShapedLinks, SidesFacts
<1>3. IsHeap(h) /\ p \in N0 /\ "red" \in Colors /\ "black" \in Colors
  BY <1>2, ShapedHeap, NullFacts DEF Colors
<1>4. Lifts(h, i, p, z, s)
  BY <1>2, <1>3, LiftFields
<1>5. IsHeap(i)
  BY <1>4 DEF Lifts
<1> HIDE DEF i, m
<1>6. PaintsAt(i, j, m, p, "black")
  BY <1>2, <1>3, <1>5, SetParentColor
<1> HIDE DEF j
<1>7. Lifted(h, j, p, z, s)
  <2>1. SameData(h, j) /\ j.root = h.root /\ j.parent[p] = h.parent[p]
    BY <1>2, <1>4, <1>6 DEF SameData, Lifts, PaintsAt
  <2>2. \A t \in Sides, y \in Nodes :
          j.child[t][y] = IF t = Opposite(s) /\ y = z THEN p ELSE IF t = s /\ y = p THEN m ELSE h.child[t][y]
    BY <1>4, <1>6 DEF Lifts, PaintsAt, m
  <2>3. \A y \in Nodes : y # z /\ y # p => j.parent[y] = IF y = m THEN p ELSE h.parent[y]
    BY <1>4, <1>6 DEF Lifts, PaintsAt
  <2> QED BY <1>6, <2>1, <2>2, <2>3 DEF Lifted, PaintsAt, m
<1>8. /\ Rotated(h, l, p, z, s)
      /\ \A y \in Nodes : l.color[y] = IF y = p THEN "red" ELSE IF y = z THEN j.color[p] ELSE j.color[y]
  BY <1>3, <1>7, RotateCompletes
<1> HIDE DEF l
<1>9. SameLinks(l, k)
  BY <1>8, AugmentRotate DEF Rotated
<1> HIDE DEF k
<1>10. Rotated(h, k, p, z, s) /\ k.color = l.color
  BY <1>8, <1>9, RotatedLinks
<1>11. ASSUME NEW y \in Nodes
       PROVE  k.color[y] = IF y = p THEN "red" ELSE IF y = z THEN h.color[p]
                           ELSE IF y = m THEN "black" ELSE h.color[y]
  BY <1>2, <1>4, <1>6, <1>8, <1>10 DEF Lifts, PaintsAt
<1> QED BY <1>1, <1>10, <1>11 DEF RedSiblingDone, m

RedSibling(h, M, n, p, s, b, z) ==
  Deficient(h, M, n, p, s, b) /\ z = h.child[s][p] /\ h.color[z] = "red"

LEMMA RedSiblingKeeps ==
  ASSUME NEW h, NEW M, NEW n, NEW p, NEW s, NEW b, NEW cb, NEW z, RedSibling(h, M, n, p, s, b, z)
  PROVE  LET k == EraseRedSibling(h, p, z, s, cb)
         IN  /\ Frame(h, k, M) /\ k.color[p] = "red"
             /\ IsBlack(k, k.child[s][p])
             /\ \E c : Deficient(k, M, n, p, s, c)
<1> DEFINE e == Opposite(s)
           m == h.child[e][z]
           w == h.child[s][z]
           k == EraseRedSibling(h, p, z, s, cb)
<1>a. Deficient(h, M, n, p, s, b)
  BY Zenon DEF RedSibling
<1>b. z = h.child[s][p] /\ h.color[z] = "red"
  BY Zenon DEF RedSibling
<1>1. /\ Shaped(h, M) /\ Reds(h, M, NULL) /\ p \in M /\ s \in Sides
      /\ n = h.child[e][p] /\ IsBlack(h, n) /\ Blacks(h, M, b, p, e)
  BY <1>a, Zenon DEF Deficient
<1>2. e \in Sides /\ e # s /\ Opposite(e) = s /\ \A t \in Sides : t = s \/ t = e
  BY <1>1, SidesFacts
<1> HIDE DEF e
<1>3. /\ b[p] = b[z] + Black(h, p) /\ b[z] = b[n] + 1 /\ b[n] \in Nat /\ b[z] \in Nat /\ b[p] \in Nat
      /\ z # NULL /\ z # n /\ z # p /\ n # p /\ z \in M /\ z \in Nodes /\ p \in Nodes /\ h.parent[z] = p
      /\ n \in N0 /\ p # NULL
      /\ b[z] = b[m] + Black(h, z) /\ b[z] = b[w] + Black(h, z) /\ b[m] \in Nat /\ b[w] \in Nat
  <2>1. /\ b[p] = b[z] + Black(h, p) /\ b[z] = b[n] + 1 /\ b[n] \in Nat /\ b[z] \in Nat /\ b[p] \in Nat
        /\ z # NULL /\ z # n /\ z # p /\ n # p /\ z \in M /\ z \in Nodes /\ p \in Nodes /\ h.parent[z] = p
        /\ n \in N0 /\ p # NULL
    BY <1>a, <1>b, Sibling
  <2>2. \A x \in M, t \in Sides :
          x # p => b[x] = b[h.child[t][x]] + Black(h, x) /\ b[h.child[t][x]] \in Nat
    BY <1>a, Sibling
  <2> QED BY <1>1, <1>2, <2>1, <2>2
<1>4. h.color[p] = "black" /\ IsHeap(h) /\ M \subseteq Nodes
  BY <1>b, <1>1, <1>3, ShapedHeap, NullFacts DEF Reds
<1>5. Black(h, z) = 0 /\ Black(h, p) = 1
  BY <1>b, <1>4 DEF Black
<1>6. m # NULL /\ m # z /\ m # p /\ m \in M /\ m \in Nodes
  <2>1. b[NULL] = 0
    BY <1>1 DEF Blacks
  <2>2. m # NULL
    BY <1>3, <1>5, <2>1
  <2> QED BY <1>1, <1>2, <1>3, <2>2, ShapedLinks
<1>7. IsBlack(h, m) /\ IsBlack(h, w)
  <2>1. \A t \in Sides : h.child[t][z] # NULL => IsBlack(h, h.child[t][z])
    BY <1>b, <1>1, <1>3, BlackBelowRed
  <2>2. \A t \in Sides : IsBlack(h, h.child[t][z])
    BY <2>1 DEF IsBlack
  <2> QED BY <1>1, <1>2, <2>2
<1>8. RedSiblingDone(h, k, p, z, s)
  BY <1>b, <1>1, <1>3, <1>6, EraseRedSiblingFields DEF e
<1> HIDE DEF e, m, w, k
<1>9. Rotated(h, k, p, z, s)
  BY <1>8 DEF RedSiblingDone
<1>10. /\ \A y \in Nodes : y # p /\ y # z => k.color[y] = h.color[y]
       /\ k.color[p] = "red" /\ k.color[z] = "black"
  <2>1. h.color[m] = "black"
    BY <1>6, <1>7 DEF IsBlack
  <2> QED BY <1>3, <1>4, <1>8, <2>1 DEF RedSiblingDone, m, e
<1>11. Shaped(k, M) /\ Frame(h, k, M)
  BY <1>b, <1>1, <1>3, <1>9, RotateShaped, RotateFrame
<1>12. /\ k.child[s][p] = m /\ k.child[e][p] = n
       /\ k.child[s][z] = w /\ k.child[e][z] = p
  BY <1>1, <1>2, <1>3, <1>9, <1>1, ShapedLinks DEF Rotated, e, m, w
<1>13. IsBlack(k, n) /\ IsBlack(k, m)
  <2>1. n \in Nodes => n # z /\ n # p
    BY <1>3
  <2>2. n = NULL \/ n \in Nodes
    BY <1>3 DEF N0
  <2> QED BY <1>1, <1>6, <1>7, <1>10, <2>1, <2>2 DEF IsBlack
<1>14. Reds(k, M, NULL)
  <2> SUFFICES ASSUME NEW x \in M, k.color[x] = "red"
               PROVE  k.parent[x] \in M /\ k.color[k.parent[x]] = "black"
    BY DEF Reds
  <2>1. x \in Nodes /\ x # z
    BY <1>4, <1>10
  <2>2. k.parent[x] = IF x = z THEN h.parent[p] ELSE IF x = p THEN z ELSE IF x = m THEN p ELSE h.parent[x]
    BY <1>9, <2>1 DEF Rotated, m, e
  <2>3. CASE x = p
    BY <1>3, <1>10, <2>1, <2>2, <2>3
  <2>4. CASE x # p
    <3>1. h.color[x] = "red" /\ x # m
      BY <1>6, <1>10, <1>13, <2>1, <2>4 DEF IsBlack
    <3>2. h.parent[x] \in M /\ h.color[h.parent[x]] = "black"
      BY <1>1, <1>4, <3>1, NullFacts DEF Reds
    <3>3. h.parent[x] # p
      <4> SUFFICES ASSUME h.parent[x] = p PROVE FALSE
        OBVIOUS
      <4>1. x # h.root
        BY <1>1, <1>3, <2>1, NullFacts DEF Shaped, Tree
      <4>2. PICK t \in Sides : h.child[t][p] = x
        BY <1>1, <4>1 DEF Shaped, Tree
      <4>3. x = n
        BY <1>b, <1>1, <1>2, <2>1, <4>2
      <4> QED BY <1>1, <2>1, <3>1, <4>3, NullFacts DEF IsBlack
    <3>4. h.parent[x] # z
      BY <1>b, <3>2
    <3> QED BY <1>4, <1>10, <2>1, <2>2, <2>4, <3>1, <3>2, <3>3, <3>4
  <2> QED BY <2>3, <2>4
<1>15. \E c : Blacks(k, M, c, p, e)
  <2>1. Black(k, p) = 0 /\ Black(k, z) = 1
    BY <1>10 DEF Black
  <2> DEFINE c == [x \in N0 |-> IF x = p THEN b[z] ELSE IF x = z THEN b[p] ELSE b[x]]
  <2>2. b \in [N0 -> Nat]
    BY <1>1 DEF Blacks
  <2>3. c \in [N0 -> Nat]
    BY <1>3, <2>2
  <2>4. /\ c[p] = b[z] /\ c[z] = b[p]
        /\ \A x \in N0 : x # p /\ x # z => c[x] = b[x]
    BY <1>3, NullFacts
  <2> HIDE DEF c
  <2>5. c[m] = b[m] /\ c[w] = b[w] /\ c[n] = b[n]
    <3>1. w \in N0 /\ w # p /\ w # z
      BY <1>1, <1>2, <1>3, <1>4, ShapedLinks, HeapTypes DEF w
    <3> QED BY <1>3, <1>6, <2>4, <3>1, NullFacts
  <2>6. /\ Extra(p, s, p, e) = 0 /\ Extra(p, e, p, e) = 1
        /\ Extra(z, s, p, e) = 0 /\ Extra(z, e, p, e) = 0
    BY <1>2, <1>3 DEF Extra
  <2>7. BlackAt(k, c, p, e, p)
    BY <1>2, <1>3, <1>5, <1>12, <2>1, <2>4, <2>5, <2>6 DEF BlackAt
  <2>8. BlackAt(k, c, p, e, z)
    BY <1>2, <1>3, <1>5, <1>12, <2>1, <2>4, <2>5, <2>6 DEF BlackAt
  <2>9. \A x \in M : x # p /\ x # z => Black(k, x) = Black(h, x)
    BY <1>4, <1>10 DEF Black
  <2>10. PICK r, B : Ranked(h, M, r, B)
    BY <1>1 DEF Shaped
  <2>11. Tree(h, M)
    BY <1>1 DEF Shaped
  <2>12. Blacks(k, M, c, p, e)
    BY <1>b, <1>1, <1>3, <1>9, <2>3, <2>4, <2>7, <2>8, <2>9, <2>10, <2>11, RotateBlacksOnly
  <2> QED BY <2>12
<1>16. \E c : Deficient(k, M, n, p, s, c)
  BY <1>1, <1>11, <1>12, <1>13, <1>14, <1>15 DEF Deficient, e
<1> QED BY <1>10, <1>11, <1>12, <1>13, <1>16 DEF k

(* The side of the sibling, as the loop tells it.                          *)
SiblingSide(h, n, p) == IF h.child["right"][p] # n THEN "right" ELSE "left"

Erasing(h, M, n, p) == \E b : Deficient(h, M, n, p, SiblingSide(h, n, p), b)

(* Case 2: the sibling z turns red and the parent p, if it was not, black. *)
FlipDone(h, k, p, z) ==
  /\ Painted(h, k)
  /\ k.color[p] = "black" /\ k.color[z] = "red"
  /\ \A y \in Nodes : y # p /\ y # z => k.color[y] = h.color[y]

LEMMA EraseFlipFields ==
  ASSUME NEW h, IsHeap(h), NEW p \in Nodes, NEW z \in Nodes, z # p, h.parent[z] = p
  PROVE  LET f == EraseFlip(h, p, z)
         IN  /\ FlipDone(h, f.heap, p, z) /\ f.node = p
             /\ f.parent = IF h.color[p] = "red" THEN NULL ELSE h.parent[p]
<1> DEFINE g == rb_set_parent_color(h, z, p, "red")
           k == [g EXCEPT !.color[p] = "black"]
           f == EraseFlip(h, p, z)
<1>1. p \in N0 /\ "red" \in Colors /\ "black" \in Colors
  BY NullFacts DEF Colors
<1>2. PaintsAt(h, g, z, p, "red")
  BY <1>1, SetParentColor
<1>3. IsHeap(g) /\ Painted(h, g)
  <2>1. IsHeap(g)
    BY <1>2, Zenon DEF PaintsAt
  <2> QED BY <1>2, <2>1, PaintsPainted
<1>4. \A y \in Nodes : g.color[y] = IF y = z THEN "red" ELSE h.color[y]
  BY <1>2 DEF PaintsAt
<1>5. CASE h.color[p] = "red"
  <2>1. f.heap = k /\ f.node = p /\ f.parent = NULL
    BY <1>5 DEF EraseFlip
  <2> HIDE DEF g
  <2>2. /\ IsHeap(k) /\ SameData(g, k)
        /\ k.root = g.root /\ k.child = g.child /\ k.parent = g.parent
        /\ \A y \in Nodes : k.color[y] = IF y = p THEN "black" ELSE g.color[y]
    BY <1>1, <1>3, SetColor
  <2> HIDE DEF k
  <2>3. Painted(h, k)
    BY <1>3, <2>2 DEF Painted, SameData
  <2> QED BY <1>4, <1>5, <2>1, <2>2, <2>3 DEF FlipDone
<1>6. CASE h.color[p] # "red"
  <2>1. f.heap = g /\ f.node = p /\ f.parent = h.parent[p]
    BY <1>6 DEF EraseFlip
  <2>2. h.color[p] = "black"
    BY <1>6, HeapTypes DEF Colors
  <2> HIDE DEF g
  <2> QED BY <1>3, <1>4, <1>6, <2>1, <2>2 DEF FlipDone
<1> QED BY <1>5, <1>6

LEMMA FlipReds ==
  ASSUME NEW h, NEW M, NEW n, NEW p, NEW s, NEW b, Deficient(h, M, n, p, s, b),
         NEW z, z = h.child[s][p], h.color[z] = "black",
         \A t \in Sides : IsBlack(h, h.child[t][z]),
         NEW k, FlipDone(h, k, p, z)
  PROVE  Reds(k, M, NULL)
<1>1. Shaped(h, M) /\ Reds(h, M, NULL) /\ p \in M
  BY DEF Deficient
<1>2. z # NULL /\ z # p /\ z \in M /\ z \in Nodes /\ p \in Nodes /\ h.parent[z] = p
  BY Sibling
<1>3. M \subseteq Nodes /\ k.parent = h.parent
  BY <1>1, ShapedHeap DEF FlipDone, Painted
<1> SUFFICES ASSUME NEW x \in M, k.color[x] = "red"
             PROVE  h.parent[x] \in M /\ k.color[h.parent[x]] = "black"
  BY <1>3 DEF Reds
<1>4. CASE x = z
  BY <1>1, <1>2, <1>4 DEF FlipDone
<1>5. CASE x # z
  <2>1. x # p /\ x \in Nodes /\ x # NULL
    BY <1>3, NullFacts DEF FlipDone
  <2>2. h.color[x] = "red"
    BY <1>5, <2>1 DEF FlipDone
  <2>3. h.parent[x] \in M /\ h.color[h.parent[x]] = "black" /\ h.parent[x] \in Nodes
    BY <1>1, <1>3, <2>1, <2>2 DEF Reds
  <2>4. h.parent[x] # z
    <3> SUFFICES ASSUME h.parent[x] = z PROVE FALSE
      OBVIOUS
    <3>1. x # h.root
      BY <1>1, <1>2, <2>1 DEF Shaped, Tree
    <3>2. PICK t \in Sides : h.child[t][z] = x
      BY <1>1, <3>1 DEF Shaped, Tree
    <3>3. IsBlack(h, x)
      BY <3>2
    <3> QED BY <2>1, <2>2, <3>3 DEF IsBlack
  <2>5. CASE h.parent[x] = p
    BY <2>3, <2>5 DEF FlipDone
  <2>6. CASE h.parent[x] # p
    BY <2>3, <2>4, <2>6 DEF FlipDone
  <2> QED BY <2>3, <2>5, <2>6
<1> QED BY <1>4, <1>5

(* The link on side e of q is the one to p, if p is black.                 *)
ShiftsTo(h, M, p, q, e) ==
  \A x \in M, t \in Sides : Extra(x, t, q, e) = IF h.child[t][x] = p THEN Black(h, p) ELSE 0

(* The paths through z and, if p was black, through p have lost a black    *)
(* node.                                                                   *)
LEMMA FlipBlacks ==
  ASSUME NEW h, NEW M, NEW n, NEW p, NEW s, NEW b, Deficient(h, M, n, p, s, b),
         NEW z, z = h.child[s][p], h.color[z] = "black",
         NEW k, FlipDone(h, k, p, z),
         NEW q, NEW e, ShiftsTo(h, M, p, q, e)
  PROVE  \E c : Blacks(k, M, c, q, e)
<1>1. Shaped(h, M) /\ p \in M /\ Blacks(h, M, b, p, Opposite(s)) /\ s \in Sides /\ n = h.child[Opposite(s)][p]
  BY DEF Deficient
<1>2. /\ b[p] = b[z] + Black(h, p) /\ b[z] = b[n] + 1 /\ b[n] \in Nat /\ b[z] \in Nat /\ b[p] \in Nat
      /\ z # NULL /\ z # n /\ z # p /\ n # p /\ z \in M /\ z \in Nodes /\ p \in Nodes /\ h.parent[z] = p
      /\ n \in N0 /\ p # NULL
  BY Sibling
<1>3. \A x \in M, t \in Sides :
        x # p => b[x] = b[h.child[t][x]] + Black(h, x) /\ b[x] \in Nat /\ b[h.child[t][x]] \in Nat
  BY Sibling
<1>4. M \subseteq Nodes /\ IsHeap(h) /\ k.child = h.child
  BY <1>1, ShapedHeap DEF FlipDone, Painted
<1>5. /\ Black(h, z) = 1 /\ Black(k, z) = 0 /\ Black(k, p) = 1 /\ Black(h, p) \in {0, 1}
      /\ \A x \in M : x # p /\ x # z => Black(k, x) = Black(h, x)
  BY <1>4 DEF FlipDone, Black
<1>6. b \in [N0 -> Nat] /\ b[NULL] = 0
  BY <1>1 DEF Blacks
<1>7. b[z] - 1 \in Nat /\ b[p] - Black(h, p) \in Nat
  BY <1>2, <1>5
<1> DEFINE c == [x \in N0 |-> IF x = z THEN b[z] - 1 ELSE IF x = p THEN b[p] - Black(h, p) ELSE b[x]]
<1>8. c \in [N0 -> Nat]
  BY <1>6, <1>7
<1>9. /\ c[z] = b[z] - 1 /\ c[p] = b[p] - Black(h, p) /\ c[NULL] = 0
      /\ \A x \in N0 : x # z /\ x # p => c[x] = b[x]
  BY <1>2, <1>6, NullFacts
<1> HIDE DEF c
<1>10. ASSUME NEW x \in M, NEW t \in Sides
       PROVE  c[x] = c[h.child[t][x]] + Extra(x, t, q, e) + Black(k, x)
  <2>0. x \in Nodes /\ x \in N0 /\ h.child[t][x] \in N0
    BY <1>4, HeapTypes, NullFacts
  <2>1. h.child[t][x] # NULL => h.parent[h.child[t][x]] = x /\ h.child[t][x] # x
    BY <1>1, ChildFacts
  <2>2. Extra(x, t, q, e) = IF h.child[t][x] = p THEN Black(h, p) ELSE 0
    BY DEF ShiftsTo
  <2>3. CASE x = p
    <3>1. h.child[t][x] # p
      BY <1>2, <2>1, <2>3
    <3>2. h.child[t][x] = z \/ h.child[t][x] = n
      BY <1>1, <2>3, SidesFacts
    <3>3. c[n] = b[n]
      BY <1>2, <1>9
    <3> QED BY <1>2, <1>5, <1>9, <2>2, <2>3, <3>1, <3>2, <3>3
  <2>4. CASE x = z
    <3>1. h.child[t][x] # p /\ h.child[t][x] # z
      BY <1>1, <1>2, <2>4, ShapedLinks
    <3>2. c[h.child[t][x]] = b[h.child[t][x]]
      BY <1>9, <2>0, <3>1
    <3>3. b[x] = b[h.child[t][x]] + Black(h, x) /\ b[h.child[t][x]] \in Nat
      BY <1>2, <1>3, <2>4
    <3> QED BY <1>2, <1>5, <1>9, <2>2, <2>4, <3>1, <3>2, <3>3
  <2>5. CASE x # p /\ x # z
    <3>1. h.child[t][x] # z
      BY <1>2, <2>1, <2>5
    <3>2. b[x] = b[h.child[t][x]] + Black(h, x) /\ b[h.child[t][x]] \in Nat /\ b[x] \in Nat
      BY <1>3, <2>5
    <3>3. c[x] = b[x] /\ Black(k, x) = Black(h, x) /\ Black(h, x) \in Nat
      BY <1>5, <1>9, <2>0, <2>5 DEF Black
    <3>4. CASE h.child[t][x] = p
      BY <1>2, <1>5, <1>9, <2>2, <3>2, <3>3, <3>4
    <3>5. CASE h.child[t][x] # p
      BY <1>9, <2>0, <2>2, <3>1, <3>2, <3>3, <3>5
    <3> QED BY <3>4, <3>5
  <2> QED BY <2>3, <2>4, <2>5
<1>11. \A x \in M : BlackAt(k, c, q, e, x)
  BY <1>4, <1>10 DEF BlackAt
<1> QED BY <1>8, <1>9, <1>11 DEF Blacks

LEMMA EraseFlipKeeps ==
  ASSUME NEW h, NEW M, NEW n, NEW p, NEW s, NEW b, Deficient(h, M, n, p, s, b),
         NEW z, z = h.child[s][p], h.color[z] = "black",
         \A t \in Sides : IsBlack(h, h.child[t][z])
  PROVE  LET f == EraseFlip(h, p, z)
         IN  /\ f.node = p /\ Frame(h, f.heap, M)
             /\ f.parent = NULL => Balanced(f.heap, M)
             /\ f.parent # NULL =>
                  /\ Erasing(f.heap, M, p, f.parent)
                  /\ Painted(h, f.heap) /\ f.parent = h.parent[p]
<1> DEFINE f == EraseFlip(h, p, z)
           k == f.heap
           q == h.parent[p]
<1>1. Shaped(h, M) /\ p \in M /\ IsHeap(h) /\ M \subseteq Nodes
  BY ShapedHeap DEF Deficient
<1>2. z # NULL /\ z # p /\ z \in M /\ z \in Nodes /\ p \in Nodes /\ h.parent[z] = p /\ p # NULL
  BY Sibling
<1>3. FlipDone(h, k, p, z) /\ f.node = p /\ f.parent = IF h.color[p] = "red" THEN NULL ELSE q
  BY <1>1, <1>2, EraseFlipFields
<1> HIDE DEF f, k
<1>4. Reds(k, M, NULL)
  BY <1>3, FlipReds
<1>5. Painted(h, k) /\ Shaped(k, M) /\ Frame(h, k, M)
  BY <1>1, <1>3, PaintedShaped DEF FlipDone
<1>6. CASE f.parent = NULL
  <2>1. ASSUME NEW x \in M, NEW t \in Sides
        PROVE  Extra(x, t, NULL, "left") = IF h.child[t][x] = p THEN Black(h, p) ELSE 0
    <3>1. Extra(x, t, NULL, "left") = 0
      BY <1>1, NoExtra
    <3>2. h.child[t][x] = p => h.color[p] = "red"
      <4>1. h.child[t][x] = p => q = x
        BY <1>1, <1>2 DEF Shaped, Tree
      <4> QED BY <1>1, <1>3, <1>6, <4>1, NullFacts
    <3> QED BY <3>1, <3>2 DEF Black
  <2>2. \E c : Blacks(k, M, c, NULL, "left")
    <3>1. ShiftsTo(h, M, p, NULL, "left")
      BY <2>1 DEF ShiftsTo
    <3> QED BY <1>3, <3>1, FlipBlacks
  <2> QED BY <1>3, <1>4, <1>5, <1>6, <2>2 DEF Balanced, k, f
<1>7. CASE f.parent # NULL
  <2>1. h.color[p] # "red" /\ f.parent = q /\ q # NULL
    BY <1>3, <1>7
  <2>2. h.color[p] = "black"
    BY <1>1, <1>2, <2>1, HeapTypes DEF Colors
  <2> DEFINE o == SiblingSide(k, p, q)
             e == Opposite(o)
  <2>3. q \in M /\ SideOf(h, p, q) \in Sides /\ h.child[SideOf(h, p, q)][q] = p
    BY <1>1, <2>1, SideOfParent
  <2>4. /\ o \in Sides /\ e \in Sides /\ e # o /\ \A t \in Sides : t = e \/ t = o
        /\ h.child[e][q] = p /\ k.child = h.child
    BY <1>5, <2>3 DEF SideOf, SiblingSide, Opposite, Sides, Painted
  <2> HIDE DEF o, e, q
  <2>5. h.child[o][q] # p
    BY <1>1, <1>2, <2>3, <2>4 DEF Shaped, Tree, e
  <2>6. ASSUME NEW x \in M, NEW t \in Sides
        PROVE  Extra(x, t, q, e) = IF h.child[t][x] = p THEN Black(h, p) ELSE 0
    <3>1. h.child[t][x] = p => q = x
      BY <1>1, <1>2 DEF Shaped, Tree, q
    <3>2. h.child[t][x] = p <=> x = q /\ t = e
      BY <2>4, <2>5, <3>1
    <3> QED BY <2>2, <3>2 DEF Black, Extra
  <2>7. PICK c : Blacks(k, M, c, q, e)
    <3>1. ShiftsTo(h, M, p, q, e)
      BY <2>6 DEF ShiftsTo
    <3> QED BY <1>3, <3>1, FlipBlacks
  <2>8. IsBlack(k, p)
    BY <1>3 DEF FlipDone, IsBlack
  <2>9. p = k.child[e][q]
    BY <2>4
  <2>10. Deficient(k, M, p, q, o, c)
    BY <1>4, <1>5, <2>3, <2>4, <2>7, <2>8, <2>9 DEF Deficient, e
  <2>11. Erasing(k, M, p, q)
    BY <2>10 DEF Erasing, o
  <2> QED BY <1>3, <1>5, <1>7, <2>1, <2>11 DEF k, f, q
<1> QED BY <1>6, <1>7

(* f is h but for the parents and colours of z and o, which the last       *)
(* rotation of a removal sets anew.                                        *)
NephewHalf(h, f, z, o) ==
  /\ IsHeap(f) /\ SameData(h, f) /\ f.root = h.root
  /\ \A t \in Sides, y \in Nodes : f.child[t][y] = h.child[t][y]
  /\ \A y \in Nodes : y # z /\ y # o => f.parent[y] = h.parent[y] /\ f.color[y] = h.color[y]

(* Case 4: the sibling z rotates over the parent p, and its outer child    *)
(* turns black.                                                            *)
OuterNephewDone(h, k, p, z, s) ==
  /\ Rotated(h, k, p, z, s)
  /\ \A y \in Nodes : k.color[y] = IF y = p THEN "black" ELSE IF y = z THEN h.color[p]
                                   ELSE IF y = h.child[s][z] THEN "black" ELSE h.color[y]

LEMMA EraseOuterNephewFields ==
  ASSUME NEW h, NEW M, Shaped(h, M), NEW cb,
         NEW p \in M, NEW s \in Sides, NEW z, z = h.child[s][p], z # NULL,
         NEW o, o = h.child[s][z], o # NULL,
         NEW f, NephewHalf(h, f, z, o)
  PROVE  OuterNephewDone(h, EraseOuterNephew(f, p, z, o, s, cb), p, z, s)
<1> DEFINE m == f.child[Opposite(s)][z]
           i == Lift(f, p, z, s)
           g == rb_set_parent_color(i, o, z, "black")
           j == IF m = NULL THEN g ELSE rb_set_parent(g, m, p)
           l == rb_rotate_set_parents(j, p, z, "black")
           k == augment_rotate(l, p, z, cb)
<1>1. k = EraseOuterNephew(f, p, z, o, s, cb)
  BY DEF EraseOuterNephew
<1>2. /\ z \in M /\ z \in Nodes /\ p \in Nodes /\ z # p
      /\ o # z /\ o # p /\ o \in Nodes /\ o \in M
  BY ShapedLinks, SidesFacts
<1>3. /\ IsHeap(f) /\ p \in N0 /\ z \in N0 /\ "red" \in Colors /\ "black" \in Colors
      /\ Opposite(s) \in Sides /\ Opposite(s) # s
  BY <1>2, NullFacts, SidesFacts DEF Colors, NephewHalf
<1>4. m = h.child[Opposite(s)][z] /\ m \in N0 /\ m # p /\ m # z /\ m # o /\ h.parent[o] = z
  <2>1. m = h.child[Opposite(s)][z] /\ m \in N0
    BY <1>2, <1>3, HeapTypes DEF NephewHalf
  <2>2. m # p /\ m # z /\ h.parent[o] = z
    <3>1. \A t \in Sides : h.child[t][z] # p /\ h.child[t][z] # z
      BY ShapedLinks
    <3>2. h.parent[o] = z
      BY <1>2, ShapedLinks
    <3> QED BY <1>3, <2>1, <3>1, <3>2
  <2>3. m # o
    BY <1>2, <1>3, <2>1 DEF Shaped, Tree
  <2> QED BY <2>1, <2>2, <2>3
<1>5. Lifts(f, i, p, z, s)
  BY <1>2, <1>3, LiftFields
<1> HIDE DEF i, m
<1>6. PaintsAt(i, g, o, z, "black")
  BY <1>2, <1>3, <1>5, SetParentColor DEF Lifts
<1> HIDE DEF g
<1>7. /\ IsHeap(j) /\ SameData(g, j) /\ j.root = g.root /\ j.child = g.child /\ j.color = g.color
      /\ \A y \in Nodes : j.parent[y] = IF y = m THEN p ELSE g.parent[y]
  <2>1. IsHeap(g)
    BY <1>6 DEF PaintsAt
  <2>2. CASE m = NULL
    BY <2>1, <2>2, NullFacts DEF SameData
  <2>3. CASE m # NULL
    <3>1. j = [g EXCEPT !.parent[m] = p] /\ m \in Nodes
      BY <1>4, <2>3 DEF rb_set_parent, N0
    <3> HIDE DEF j
    <3> QED BY <1>3, <2>1, <3>1, SetParent
  <2> QED BY <2>2, <2>3
<1> HIDE DEF j
<1>8. /\ \A y \in Nodes : j.color[y] = IF y = o THEN "black" ELSE f.color[y]
      /\ \A y \in Nodes : j.parent[y] = IF y = m THEN p ELSE IF y = o THEN z ELSE f.parent[y]
      /\ \A t \in Sides, y \in Nodes :
           j.child[t][y] = IF t = Opposite(s) /\ y = z THEN p ELSE IF t = s /\ y = p THEN m ELSE f.child[t][y]
      /\ SameData(f, j) /\ j.root = f.root
  BY <1>5, <1>6, <1>7 DEF Lifts, PaintsAt, SameData, m
<1>9. Lifted(h, j, p, z, s)
  <2>1. SameData(h, j) /\ j.root = h.root /\ j.parent[p] = h.parent[p]
    BY <1>2, <1>4, <1>8 DEF SameData, NephewHalf
  <2>2. \A t \in Sides, y \in Nodes :
          j.child[t][y] = IF t = Opposite(s) /\ y = z THEN p ELSE IF t = s /\ y = p THEN m ELSE h.child[t][y]
    BY <1>8 DEF NephewHalf
  <2>3. \A y \in Nodes : y # z /\ y # p => j.parent[y] = IF y = m THEN p ELSE h.parent[y]
    BY <1>4, <1>8 DEF NephewHalf
  <2> QED BY <1>4, <1>7, <2>1, <2>2, <2>3, Zenon DEF Lifted
<1>10. /\ Rotated(h, l, p, z, s)
       /\ \A y \in Nodes : l.color[y] = IF y = p THEN "black" ELSE IF y = z THEN j.color[p] ELSE j.color[y]
  BY <1>3, <1>9, RotateCompletes
<1> HIDE DEF l
<1>11. SameLinks(l, k)
  BY <1>10, AugmentRotate DEF Rotated
<1> HIDE DEF k
<1>12. Rotated(h, k, p, z, s) /\ k.color = l.color
  BY <1>10, <1>11, RotatedLinks
<1>13. ASSUME NEW y \in Nodes
       PROVE  k.color[y] = IF y = p THEN "black" ELSE IF y = z THEN h.color[p]
                           ELSE IF y = o THEN "black" ELSE h.color[y]
  <2>1. k.color[y] = IF y = p THEN "black" ELSE IF y = z THEN j.color[p] ELSE j.color[y]
    BY <1>10, <1>12
  <2>2. j.color[p] = h.color[p]
    BY <1>2, <1>8 DEF NephewHalf
  <2>3. y # z => j.color[y] = IF y = o THEN "black" ELSE h.color[y]
    BY <1>8 DEF NephewHalf
  <2> QED BY <2>1, <2>2, <2>3
<1> QED BY <1>1, <1>12, <1>13 DEF OuterNephewDone

(* Case 3: the red inner child i of the sibling z rotates over it; the     *)
(* code leaves out what case 4 will set.                                   *)
InnerNephewDone(h, k, z, i, s) ==
  /\ Rotated(h, k, z, i, Opposite(s))
  /\ \A y \in Nodes : k.color[y] = IF y = z THEN "red" ELSE IF y = i \/ y = h.child[s][i] THEN "black" ELSE h.color[y]

LEMMA EraseInnerNephewFields ==
  ASSUME NEW h, NEW M, Shaped(h, M), NEW cb,
         NEW p \in M, NEW s \in Sides, NEW z, z = h.child[s][p], z # NULL,
         NEW i, i = h.child[Opposite(s)][z], i # NULL
  PROVE  \E k : InnerNephewDone(h, k, z, i, s) /\ NephewHalf(k, EraseInnerNephew(h, p, z, s, cb), i, z)
<1> DEFINE e == Opposite(s)
           c == h.child[s][i]
           l == Lift(h, z, i, e)
           g == [l EXCEPT !.child[s][p] = i]
           j == AdoptBlack(g, c, z)
           f == augment_rotate(j, z, i, cb)
           a == rb_set_parent_color(f, z, i, "red")
           k == rb_set_parent_color(a, i, p, "black")
<1>1. f = EraseInnerNephew(h, p, z, s, cb)
  BY DEF EraseInnerNephew
<1>2. /\ e \in Sides /\ e # s /\ Opposite(e) = s /\ "red" \in Colors /\ "black" \in Colors
      /\ \A t \in Sides : t = s \/ t = e
  BY SidesFacts DEF Colors
<1>3. /\ z \in M /\ z \in Nodes /\ p \in Nodes /\ z # p /\ h.parent[z] = p /\ z \in N0 /\ p \in N0 /\ h.root # z
      /\ \A t \in Sides : h.child[t][z] # p
      /\ IsHeap(h)
  BY ShapedLinks, NullFacts DEF Shaped, Tree
<1>4. /\ i \in M /\ i \in Nodes /\ i # z /\ i \in N0 /\ i # p
      /\ c \in N0 /\ c # i /\ c # z
  BY <1>2, <1>3, ShapedLinks, NullFacts, HeapTypes
<1>5. h.child[e][p] # z
  BY <1>2, <1>3 DEF Shaped, Tree
<1> HIDE DEF c, e
<1>6. Lifts(h, l, z, i, e)
  BY <1>2, <1>3, <1>4, LiftFields
<1> HIDE DEF l
<1>7. Relinks(l, g, s, p, i)
  BY <1>3, <1>4, <1>6, SetLink DEF Lifts
<1> HIDE DEF g
<1>8. PaintsAt(g, j, c, z, "black")
  BY <1>3, <1>4, <1>7, Adopts DEF Relinks
<1> HIDE DEF j
<1>9. SameLinks(j, f)
  BY <1>8, AugmentRotate DEF PaintsAt
<1> HIDE DEF f
<1>10. PaintsAt(f, a, z, i, "red")
  BY <1>2, <1>3, <1>4, <1>9, SetParentColor DEF SameLinks
<1> HIDE DEF a
<1>11. PaintsAt(a, k, i, p, "black")
  <2>1. IsHeap(a)
    BY <1>10 DEF PaintsAt
  <2> QED BY <1>2, <1>3, <1>4, <2>1, SetParentColor
<1> HIDE DEF k
<1>12. /\ IsHeap(f) /\ f.root = h.root /\ SameData(h, f)
       /\ \A t \in Sides, y \in Nodes :
            f.child[t][y] = IF t = s /\ y = p THEN i
                            ELSE IF t = s /\ y = i THEN z ELSE IF t = e /\ y = z THEN c ELSE h.child[t][y]
       /\ \A y \in Nodes : f.parent[y] = IF y = c THEN z ELSE h.parent[y]
       /\ \A y \in Nodes : f.color[y] = IF y = c THEN "black" ELSE h.color[y]
  <2>1. j.root = h.root /\ SameData(h, j) /\ j.child = g.child
    BY <1>6, <1>7, <1>8 DEF Lifts, Relinks, PaintsAt, SameData
  <2>2. \A t \in Sides, y \in Nodes :
          l.child[t][y] = IF t = s /\ y = i THEN z ELSE IF t = e /\ y = z THEN c ELSE h.child[t][y]
    BY <1>2, <1>6 DEF Lifts, c
  <2>3. \A t \in Sides, y \in Nodes : j.child[t][y] = IF t = s /\ y = p THEN i ELSE l.child[t][y]
    BY <1>7, <2>1 DEF Relinks
  <2>4. /\ \A y \in Nodes : j.parent[y] = IF y = c THEN z ELSE h.parent[y]
        /\ \A y \in Nodes : j.color[y] = IF y = c THEN "black" ELSE h.color[y]
    BY <1>6, <1>7, <1>8 DEF Lifts, Relinks, PaintsAt
  <2> QED BY <1>9, <2>1, <2>2, <2>3, <2>4 DEF SameLinks, SameData
<1>13. /\ IsHeap(k) /\ SameData(f, k) /\ k.root = f.root /\ k.child = f.child
       /\ \A y \in Nodes : k.parent[y] = IF y = i THEN p ELSE IF y = z THEN i ELSE f.parent[y]
       /\ \A y \in Nodes : k.color[y] = IF y = i THEN "black" ELSE IF y = z THEN "red" ELSE f.color[y]
  BY <1>10, <1>11 DEF PaintsAt, SameData
<1>14. Rotated(h, k, z, i, e)
  <2>1. SameData(h, k) /\ k.root = IF h.root = z THEN i ELSE h.root
    BY <1>3, <1>12, <1>13 DEF SameData
  <2>2. ASSUME NEW t \in Sides, NEW y \in Nodes
        PROVE  k.child[t][y] = IF y = z /\ t = e THEN h.child[Opposite(e)][i]
                       ELSE IF y = i /\ t = Opposite(e) THEN z
                       ELSE IF y = h.parent[z] /\ h.child[t][y] = z THEN i
                       ELSE h.child[t][y]
    <3>1. k.child[t][y] = f.child[t][y]
      BY <1>13
    <3>2. h.child[s][p] = z /\ h.child[Opposite(e)][i] = c
      BY <1>2 DEF c
    <3> QED BY <1>2, <1>3, <1>4, <1>5, <1>12, <3>1, <3>2
  <2>3. ASSUME NEW y \in Nodes
        PROVE  k.parent[y] = IF y = i THEN h.parent[z] ELSE IF y = z THEN i
                     ELSE IF y = h.child[Opposite(e)][i] THEN z ELSE h.parent[y]
    <3>1. h.child[Opposite(e)][i] = c
      BY <1>2 DEF c
    <3> QED BY <1>3, <1>4, <1>12, <1>13, <3>1
  <2> QED BY <1>13, <2>1, <2>2, <2>3, Zenon DEF Rotated
<1>15. NephewHalf(k, f, i, z)
  BY <1>12, <1>13 DEF NephewHalf, SameData
<1>16. \A y \in Nodes : k.color[y] = IF y = z THEN "red" ELSE IF y = i \/ y = c THEN "black" ELSE h.color[y]
  BY <1>4, <1>12, <1>13
<1> QED BY <1>1, <1>14, <1>15, <1>16 DEF e, c, InnerNephewDone

RedOuterNephew(h, M, n, p, s, b, z, o, k) ==
  /\ Deficient(h, M, n, p, s, b)
  /\ z = h.child[s][p] /\ h.color[z] = "black"
  /\ o = h.child[s][z] /\ o # NULL /\ h.color[o] = "red"
  /\ OuterNephewDone(h, k, p, z, s)

LEMMA OuterNephewColours ==
  ASSUME NEW h, NEW M, NEW n, NEW p, NEW s, NEW b,
         NEW z, NEW o, NEW k, RedOuterNephew(h, M, n, p, s, b, z, o, k)
  PROVE  Balanced(k, M) /\ Frame(h, k, M)
<1> DEFINE e == Opposite(s)
           m == h.child[e][z]
<1>a. Deficient(h, M, n, p, s, b)
  BY Zenon DEF RedOuterNephew
<1>b. /\ z = h.child[s][p] /\ h.color[z] = "black"
      /\ o = h.child[s][z] /\ o # NULL /\ h.color[o] = "red"
  BY Zenon DEF RedOuterNephew
<1>c. OuterNephewDone(h, k, p, z, s)
  BY Zenon DEF RedOuterNephew
<1>1. /\ Shaped(h, M) /\ Reds(h, M, NULL) /\ p \in M /\ s \in Sides
      /\ n = h.child[e][p] /\ IsBlack(h, n) /\ Blacks(h, M, b, p, e)
  BY <1>a, Zenon DEF Deficient
<1>2. e \in Sides /\ e # s /\ Opposite(e) = s /\ \A t \in Sides : t = s \/ t = e
  BY <1>1, SidesFacts
<1> HIDE DEF e
<1>3. /\ b[p] = b[z] + Black(h, p) /\ b[z] = b[n] + 1 /\ b[n] \in Nat /\ b[z] \in Nat /\ b[p] \in Nat
      /\ z # NULL /\ z # n /\ z # p /\ n # p /\ z \in M /\ z \in Nodes /\ p \in Nodes /\ h.parent[z] = p
      /\ n \in N0 /\ p # NULL
  BY <1>a, <1>b, Sibling
<1>4. \A x \in M, t \in Sides :
        x # p => b[x] = b[h.child[t][x]] + Black(h, x) /\ b[x] \in Nat /\ b[h.child[t][x]] \in Nat
  BY <1>a, Sibling
<1>5. IsHeap(h) /\ M \subseteq Nodes
  BY <1>1, ShapedHeap
<1>6. /\ \A t \in Sides : h.child[t][z] # p /\ h.child[t][z] # z /\ (h.child[t][z] # NULL => h.child[t][z] # h.parent[p])
      /\ h.parent[p] # p /\ h.parent[p] # z
  <2>1. z = h.child[s][p] /\ z # NULL /\ p \in M /\ s \in Sides /\ Shaped(h, M)
    BY <1>b, <1>1, <1>3, Zenon
  <2> QED BY <2>1, ShapedLinks
<1>7. /\ o \in M /\ o \in Nodes /\ o \in N0 /\ h.parent[o] = z /\ o # p /\ o # z /\ o # h.parent[p]
      /\ \A t \in Sides : h.child[t][o] # z /\ h.child[t][o] # o
  <2>1. /\ o \in M /\ o \in Nodes /\ h.parent[o] = z
        /\ \A t \in Sides : h.child[t][o] # z /\ h.child[t][o] # o
    <3>1. o = h.child[s][z] /\ o # NULL /\ z \in M /\ s \in Sides /\ Shaped(h, M)
      BY <1>b, <1>1, <1>3, Zenon
    <3> QED BY <3>1, ShapedLinks
  <2> QED BY <1>b, <1>1, <1>6, <2>1, NullFacts, Zenon
<1>8. m \in N0 /\ m # p /\ m # z /\ m # o
  <2>1. m # o
    BY Zenon, <1>b, <1>1, <1>2, <1>3, <1>7 DEF Shaped, Tree
  <2> QED BY <1>2, <1>3, <1>5, <1>6, <2>1, HeapTypes
<1>9. n # o
  <2>1. n # NULL => h.parent[n] = p
    BY <1>1, <1>2, ShapedLinks
  <2> QED BY <1>b, <1>3, <1>7, <2>1, Zenon
<1>10. b[z] = b[m] + 1 /\ b[z] = b[o] + 1 /\ b[m] \in Nat /\ b[o] \in Nat
  <2>1. Black(h, z) = 1
    BY <1>b DEF Black
  <2> QED BY <1>b, <1>1, <1>2, <1>3, <1>4, <2>1
<1> HIDE DEF e, m
<1>11. Rotated(h, k, p, z, s)
  BY <1>c DEF OuterNephewDone
<1>12. /\ \A y \in Nodes : y # p /\ y # z /\ y # o => k.color[y] = h.color[y]
       /\ k.color[p] = "black" /\ k.color[z] = h.color[p] /\ k.color[o] = "black"
  BY <1>a, <1>b, <1>c, <1>3, <1>7 DEF OuterNephewDone, e
<1>13. Shaped(k, M) /\ Frame(h, k, M)
  BY <1>b, <1>1, <1>3, <1>11, RotateShaped, RotateFrame
<1>14. /\ k.child[s][p] = m /\ k.child[e][p] = n
       /\ k.child[s][z] = o /\ k.child[e][z] = p
       /\ \A t \in Sides : k.child[t][o] = h.child[t][o]
  <2>1. k.child[s][p] = m /\ k.child[e][p] = n
    BY <1>1, <1>2, <1>3, <1>6, <1>11 DEF Rotated, e, m
  <2>2. k.child[s][z] = o /\ k.child[e][z] = p
    BY <1>b, <1>1, <1>2, <1>3, <1>6, <1>11 DEF Rotated, e, m
  <2>3. \A t \in Sides : k.child[t][o] = h.child[t][o]
    BY <1>7, <1>11 DEF Rotated
  <2> QED BY <2>1, <2>2, <2>3
<1>15. Reds(k, M, NULL)
  <2> SUFFICES ASSUME NEW x \in M, k.color[x] = "red"
               PROVE  k.parent[x] \in M /\ k.color[k.parent[x]] = "black"
    BY DEF Reds
  <2>1. x \in Nodes /\ x # p /\ x # o /\ x # NULL
    BY <1>5, <1>12, NullFacts
  <2>2. k.parent[x] = IF x = z THEN h.parent[p] ELSE IF x = p THEN z ELSE IF x = m THEN p ELSE h.parent[x]
    BY <1>11, <2>1 DEF Rotated, m, e
  <2>3. CASE x = z
    <3>1. h.color[p] = "red"
      BY <1>12, <2>3
    <3>2. h.parent[p] \in M /\ h.color[h.parent[p]] = "black"
      BY <1>1, <1>3, <3>1 DEF Reds
    <3> QED BY <1>5, <1>6, <1>7, <1>12, <2>2, <2>3, <3>2
  <2>4. CASE x # z
    <3>1. h.color[x] = "red"
      BY <1>12, <2>1, <2>4
    <3>2. h.parent[x] \in M /\ h.color[h.parent[x]] = "black" /\ h.parent[x] \in Nodes
      BY <1>1, <1>5, <2>1, <3>1 DEF Reds
    <3>3. CASE x = m
      BY <1>1, <1>12, <2>1, <2>2, <2>4, <3>3
    <3>4. CASE x # m
      <4>1. h.parent[x] # z
        <5> SUFFICES ASSUME h.parent[x] = z PROVE FALSE
          OBVIOUS
        <5>1. x # h.root
          BY <1>1, <1>3, <2>1 DEF Shaped, Tree
        <5>2. PICK t \in Sides : h.child[t][z] = x
          BY <1>1, <5>1 DEF Shaped, Tree
        <5> QED BY <1>b, <1>2, <2>1, <3>4, <5>2 DEF m
      <4>2. h.parent[x] # o
        BY <1>b, <3>2
      <4>3. CASE h.parent[x] = p
        BY <1>1, <1>12, <2>1, <2>2, <2>4, <3>4, <4>3
      <4>4. CASE h.parent[x] # p
        BY <1>12, <2>1, <2>2, <2>4, <3>2, <3>4, <4>1, <4>2, <4>4
      <4> QED BY <4>3, <4>4
    <3> QED BY <3>3, <3>4
  <2> QED BY <2>3, <2>4
<1>16. \E c : Blacks(k, M, c, NULL, "left")
  <2>1. /\ Black(k, p) = 1 /\ Black(k, z) = Black(h, p) /\ Black(k, o) = 1 /\ Black(h, o) = 0
        /\ Black(h, p) \in Nat
    BY <1>b, <1>12 DEF Black
  <2> DEFINE c == [x \in N0 |-> IF x = p THEN b[n] + 1 ELSE IF x = z THEN b[p]
                                ELSE IF x = o THEN b[o] + 1 ELSE b[x]]
             W == {o}
  <2>2. b \in [N0 -> Nat]
    BY <1>1 DEF Blacks
  <2>3. c \in [N0 -> Nat]
    BY <1>3, <1>10, <2>2
  <2>4. /\ c[p] = b[n] + 1 /\ c[z] = b[p] /\ c[o] = b[o] + 1
        /\ \A x \in N0 : x # p /\ x # z /\ x # o => c[x] = b[x]
    BY <1>3, <1>7, NullFacts
  <2> HIDE DEF c
  <2>5. c[m] = b[m] /\ c[n] = b[n]
    BY <1>3, <1>8, <1>9, <2>4
  <2>6. \A x \in M, t \in Sides : Extra(x, t, NULL, "left") = 0
    BY <1>5, NoExtra
  <2>7. BlackAt(k, c, NULL, "left", p)
    BY <1>1, <1>2, <1>3, <1>10, <1>14, <2>1, <2>4, <2>5, <2>6 DEF BlackAt
  <2>8. BlackAt(k, c, NULL, "left", z)
    <3>1. c[z] = c[o] + 0 + Black(k, z) /\ c[z] = c[p] + 0 + Black(k, z)
      BY <1>3, <1>10, <2>1, <2>4
    <3>2. \A t \in Sides : k.child[t][z] = o \/ k.child[t][z] = p
      BY <1>2, <1>14
    <3>3. \A t \in Sides : Extra(z, t, NULL, "left") = 0
      BY <1>3, <2>6
    <3> QED BY <3>1, <3>2, <3>3 DEF BlackAt
  <2>9. BlackAt(k, c, NULL, "left", o)
    <3>1. ASSUME NEW t \in Sides PROVE c[o] = c[k.child[t][o]] + 0 + Black(k, o)
      <4>1. h.child[t][o] \in N0 /\ h.child[t][o] # o /\ h.child[t][o] # z
        BY <1>5, <1>7, HeapTypes
      <4>2. h.child[t][o] # p
        <5>1. h.child[t][o] # NULL => h.parent[h.child[t][o]] = o
          BY <1>1, <1>7 DEF Shaped, Tree
        <5> QED BY <1>3, <1>7, <5>1
      <4>3. b[o] = b[h.child[t][o]] + Black(h, o) /\ b[h.child[t][o]] \in Nat
        BY <1>4, <1>7
      <4>4. c[o] = b[o] + 1 /\ c[h.child[t][o]] = b[h.child[t][o]] /\ k.child[t][o] = h.child[t][o]
        BY <1>14, <2>4, <4>1, <4>2, Zenon
      <4> QED BY <2>1, <4>3, <4>4
    <3>2. \A t \in Sides : Extra(o, t, NULL, "left") = 0
      BY <1>7, <2>6
    <3> QED BY <3>1, <3>2, Zenon DEF BlackAt
  <2>10. \A x \in M : x \notin W \cup {p, z} => Black(k, x) = Black(h, x)
    BY <1>5, <1>12 DEF Black
  <2>11. Recolours(h, k, M, p, z, W, b, p, e, c, NULL, "left")
    <3>1. W \subseteq M /\ \A w \in W : h.parent[w] \in {p, z}
      BY <1>7
    <3>2. \A x \in N0 : x \notin W \cup {p, z} => c[x] = b[x]
      BY <2>4
    <3>3. \A x \in M, t \in Sides : x \notin {p, z} => Extra(x, t, NULL, "left") = Extra(x, t, p, e)
      BY <2>6 DEF Extra
    <3>4. \A x \in W \cup {p, z} : BlackAt(k, c, NULL, "left", x)
      BY <2>7, <2>8, <2>9
    <3> QED BY <2>3, <2>4, <2>10, <3>1, <3>2, <3>3, <3>4 DEF Recolours
  <2> HIDE DEF W
  <2>12. PICK r, B : Ranked(h, M, r, B)
    BY <1>1 DEF Shaped
  <2>13. Tree(h, M)
    BY <1>1 DEF Shaped
  <2>14. Blacks(k, M, c, NULL, "left")
    BY <1>b, <1>1, <1>3, <1>11, <2>11, <2>12, <2>13, RotateBlacks, Zenon
  <2> QED BY <2>14
<1> QED BY <1>13, <1>15, <1>16 DEF Balanced

RedInnerNephew(h, M, n, p, s, b, z, i, k) ==
  /\ Deficient(h, M, n, p, s, b)
  /\ z = h.child[s][p] /\ h.color[z] = "black"
  /\ IsBlack(h, h.child[s][z])
  /\ i = h.child[Opposite(s)][z] /\ i # NULL /\ h.color[i] = "red"
  /\ InnerNephewDone(h, k, z, i, s)

LEMMA InnerNephewColours ==
  ASSUME NEW h, NEW M, NEW n, NEW p, NEW s, NEW b,
         NEW z, NEW i, NEW k, RedInnerNephew(h, M, n, p, s, b, z, i, k)
  PROVE  /\ \E c : Deficient(k, M, n, p, s, c)
         /\ Frame(h, k, M)
         /\ k.child[s][p] = i /\ k.color[i] = "black" /\ k.child[s][i] = z /\ k.color[z] = "red"
<1> DEFINE e == Opposite(s)
           o == h.child[s][z]
           v == h.child[s][i]
           w == h.child[e][i]
<1>a. Deficient(h, M, n, p, s, b)
  BY Zenon DEF RedInnerNephew
<1>b. /\ z = h.child[s][p] /\ h.color[z] = "black" /\ IsBlack(h, o)
      /\ i = h.child[e][z] /\ i # NULL /\ h.color[i] = "red"
  BY Zenon DEF RedInnerNephew
<1>c. InnerNephewDone(h, k, z, i, s)
  BY Zenon DEF RedInnerNephew
<1>1. /\ Shaped(h, M) /\ Reds(h, M, NULL) /\ p \in M /\ s \in Sides
      /\ n = h.child[e][p] /\ IsBlack(h, n) /\ Blacks(h, M, b, p, e)
  BY <1>a, Zenon DEF Deficient
<1>2. e \in Sides /\ e # s /\ Opposite(e) = s /\ \A t \in Sides : t = s \/ t = e
  BY <1>1, SidesFacts
<1> HIDE DEF e
<1>3. /\ b[z] \in Nat /\ z # NULL /\ z # n /\ z # p /\ n # p /\ z \in M /\ z \in Nodes /\ p \in Nodes /\ h.parent[z] = p
      /\ n \in N0 /\ p # NULL
  BY <1>a, <1>b, Sibling
<1>4. \A x \in M, t \in Sides :
        x # p => b[x] = b[h.child[t][x]] + Black(h, x) /\ b[x] \in Nat /\ b[h.child[t][x]] \in Nat
  BY <1>a, Sibling
<1>5. IsHeap(h) /\ M \subseteq Nodes
  BY <1>1, ShapedHeap
<1>6. \A t \in Sides : h.child[t][z] # p /\ h.child[t][z] # z /\ h.child[t][z] \in N0
  BY <1>1, <1>3, <1>5, ShapedLinks, HeapTypes
<1>7. /\ i \in M /\ i \in Nodes /\ i \in N0 /\ h.parent[i] = z /\ i # p /\ i # z
      /\ \A t \in Sides : h.child[t][i] # z /\ h.child[t][i] # i /\ h.child[t][i] \in N0
  <2>1. /\ i \in M /\ i \in Nodes /\ h.parent[i] = z
        /\ \A t \in Sides : h.child[t][i] # z /\ h.child[t][i] # i
    <3>1. i = h.child[e][z] /\ i # NULL /\ e \in Sides
      BY <1>b, <1>2, Zenon
    <3> QED BY <1>1, <1>3, <3>1, ShapedLinks
  <2> QED BY <1>b, <1>2, <1>5, <1>6, <2>1, NullFacts, HeapTypes, Zenon
<1>8. o \in N0 /\ o # p /\ o # z /\ o # i
  <2>1. o # i
    BY <1>b, <1>1, <1>2, <1>3, <1>7, Zenon DEF Shaped, Tree
  <2> QED BY <1>1, <1>6, <2>1
<1>9. n # i
  <2>1. n # NULL => h.parent[n] = p
    BY <1>1, <1>2, ShapedLinks
  <2> QED BY <1>b, <1>3, <1>7, <2>1, Zenon
<1>10. \A t \in Sides : IsBlack(h, h.child[t][i])
  <2>1. \A t \in Sides : h.child[t][i] # NULL => IsBlack(h, h.child[t][i])
    BY <1>b, <1>1, <1>7, BlackBelowRed, Zenon
  <2> QED BY <2>1, Zenon DEF IsBlack
<1> HIDE DEF v, w, o
<1>11. /\ b[z] = b[i] + 1 /\ b[z] = b[o] + 1 /\ b[i] = b[v] /\ b[i] = b[w]
       /\ b[i] \in Nat /\ b[o] \in Nat /\ b[v] \in Nat /\ b[w] \in Nat
  <2>1. Black(h, z) = 1 /\ Black(h, i) = 0
    BY <1>b DEF Black
  <2>2. b[z] = b[i] + 1 /\ b[z] = b[o] + 1 /\ b[i] \in Nat /\ b[o] \in Nat
    BY <1>b, <1>1, <1>2, <1>3, <1>4, <2>1, Zenon DEF o
  <2>3. b[i] = b[v] + 0 /\ b[i] = b[w] + 0 /\ b[v] \in Nat /\ b[w] \in Nat
    BY <1>1, <1>2, <1>4, <1>7, <2>1, Zenon DEF v, w
  <2> QED BY <2>2, <2>3
<1>12. v \in N0 /\ v # z /\ v # i /\ w \in N0 /\ w # z /\ w # i /\ IsBlack(h, v)
  BY <1>1, <1>2, <1>7, <1>10, Zenon DEF v, w
<1>13. Rotated(h, k, z, i, e)
  BY <1>c DEF InnerNephewDone, e
<1>14. /\ \A y \in Nodes : y # i /\ y # z => k.color[y] = h.color[y]
       /\ k.color[z] = "red" /\ k.color[i] = "black"
  <2>1. v \in Nodes => h.color[v] = "black"
    BY <1>12, NullFacts DEF IsBlack
  <2> QED BY <1>a, <1>b, <1>c, <1>3, <1>7, <2>1, Zenon DEF InnerNephewDone, v, e
<1>15. Shaped(k, M) /\ Frame(h, k, M)
  BY <1>b, <1>1, <1>2, <1>3, <1>13, RotateShaped, RotateFrame
<1>16. /\ k.child[e][z] = v /\ k.child[s][z] = o
       /\ k.child[s][i] = z /\ k.child[e][i] = w
       /\ k.child[s][p] = i /\ k.child[e][p] = n
  <2>1. k.child[e][z] = v /\ k.child[s][z] = o
    BY Zenon, <1>b, <1>1, <1>2, <1>3, <1>13 DEF Rotated, v, o
  <2>2. k.child[s][i] = z /\ k.child[e][i] = w
    BY <1>1, <1>2, <1>3, <1>7, <1>13, Zenon DEF Rotated, w
  <2>3. k.child[s][p] = i /\ k.child[e][p] = n
    BY <1>b, <1>1, <1>2, <1>3, <1>7, <1>13, Zenon DEF Rotated
  <2> QED BY <2>1, <2>2, <2>3
<1>17. IsBlack(k, n)
  <2>1. n = NULL \/ n \in Nodes
    BY <1>3 DEF N0
  <2> QED BY <1>1, <1>3, <1>9, <1>14, <2>1 DEF IsBlack
<1>18. Reds(k, M, NULL)
  <2> SUFFICES ASSUME NEW x \in M, k.color[x] = "red"
               PROVE  k.parent[x] \in M /\ k.color[k.parent[x]] = "black"
    BY DEF Reds
  <2>1. x \in Nodes /\ x # i /\ x # NULL
    BY <1>5, <1>14, NullFacts
  <2>2. k.parent[x] = IF x = i THEN h.parent[z] ELSE IF x = z THEN i ELSE IF x = v THEN z ELSE h.parent[x]
    BY <1>2, <1>13, <2>1, Zenon DEF Rotated, v
  <2>3. CASE x = z
    BY <1>7, <1>14, <2>1, <2>2, <2>3, Zenon
  <2>4. CASE x # z
    <3>1. h.color[x] = "red" /\ x # v
      BY <1>12, <1>14, <2>1, <2>4 DEF IsBlack
    <3>2. h.parent[x] \in M /\ h.color[h.parent[x]] = "black" /\ h.parent[x] \in Nodes
      BY <1>1, <1>5, <2>1, <3>1 DEF Reds
    <3>3. h.parent[x] # z
      <4> SUFFICES ASSUME h.parent[x] = z PROVE FALSE
        OBVIOUS
      <4>1. x # h.root
        BY <1>1, <1>3, <2>1 DEF Shaped, Tree
      <4>2. PICK t \in Sides : h.child[t][z] = x
        BY <1>1, <4>1 DEF Shaped, Tree
      <4>3. x = o
        BY <1>b, <1>2, <2>1, <4>2 DEF o, e
      <4> QED BY <1>b, <2>1, <3>1, <4>3 DEF IsBlack, o
    <3>4. h.parent[x] # i
      BY <1>b, <3>2
    <3> QED BY <1>14, <2>1, <2>2, <2>4, <3>1, <3>2, <3>3, <3>4
  <2> QED BY <2>3, <2>4
<1>19. \E c : Blacks(k, M, c, p, e)
  <2>1. Black(k, z) = 0 /\ Black(k, i) = 1
    BY <1>14 DEF Black
  <2> DEFINE c == [x \in N0 |-> IF x = z THEN b[i] ELSE IF x = i THEN b[z] ELSE b[x]]
  <2>2. b \in [N0 -> Nat]
    BY <1>1 DEF Blacks
  <2>3. c \in [N0 -> Nat]
    BY <1>3, <1>11, <2>2
  <2>4. /\ c[z] = b[i] /\ c[i] = b[z]
        /\ \A x \in N0 : x # z /\ x # i => c[x] = b[x]
    BY <1>3, <1>7, NullFacts, Zenon
  <2> HIDE DEF c
  <2>5. c[v] = b[v] /\ c[w] = b[w] /\ c[o] = b[o]
    BY <1>8, <1>12, <2>4
  <2>6. \A t \in Sides : Extra(z, t, p, e) = 0 /\ Extra(i, t, p, e) = 0
    BY <1>3, <1>7, Zenon DEF Extra
  <2>7. BlackAt(k, c, p, e, z)
    <3>0. c[z] = c[v] /\ c[z] = c[o] /\ c[v] \in Nat /\ c[o] \in Nat
      <4>1. b[i] = b[o]
        BY <1>11
      <4> QED BY <1>11, <2>4, <2>5, <4>1
    <3>1. c[z] = c[v] + 0 + Black(k, z) /\ c[z] = c[o] + 0 + Black(k, z)
      BY <2>1, <3>0
    <3>2. \A t \in Sides : k.child[t][z] = v \/ k.child[t][z] = o
      BY <1>2, <1>16
    <3> QED BY <2>6, <3>1, <3>2 DEF BlackAt
  <2>8. BlackAt(k, c, p, e, i)
    <3>1. c[i] = c[z] + 0 + Black(k, i) /\ c[i] = c[w] + 0 + Black(k, i)
      BY <1>11, <2>1, <2>4, <2>5
    <3>2. \A t \in Sides : k.child[t][i] = z \/ k.child[t][i] = w
      BY <1>2, <1>16, Zenon
    <3> QED BY <2>6, <3>1, <3>2, Zenon DEF BlackAt
  <2>9. \A x \in M : x # z /\ x # i => Black(k, x) = Black(h, x)
    BY <1>5, <1>14 DEF Black
  <2>10. PICK r, B : Ranked(h, M, r, B)
    BY <1>1 DEF Shaped
  <2>11. Tree(h, M)
    BY <1>1 DEF Shaped
  <2>12. i = h.child[e][z]
    BY <1>b
  <2>13. Blacks(k, M, c, p, e)
    <3>1. e \in Sides /\ z \in M /\ Blacks(h, M, b, p, e)
      BY <1>1, <1>2, <1>3
    <3>2. PICK W : W = {}
      OBVIOUS
    <3>3. Recolours(h, k, M, z, i, W, b, p, e, c, p, e)
      BY <2>3, <2>4, <2>7, <2>8, <2>9, <3>2, Zenon DEF Recolours
    <3> QED BY <1>b, <1>13, <2>10, <2>11, <2>12, <3>1, <3>3, RotateBlacks
  <2> QED BY <2>13
<1>20. \E c : Deficient(k, M, n, p, s, c)
  BY <1>1, <1>15, <1>16, <1>17, <1>18, <1>19, Zenon DEF Deficient, e
<1> QED BY <1>14, <1>15, <1>16, <1>20, Zenon

(* What an iteration returns.                                              *)
EraseGoesOn(h, M, p, step) ==
  /\ Frame(h, step.heap, M)
  /\ step.parent = NULL => Balanced(step.heap, M)
  /\ step.parent # NULL =>
       /\ Erasing(step.heap, M, step.node, step.parent)
       /\ h.color[p] # "red" /\ Painted(h, step.heap)
       /\ step.node = p /\ step.parent = h.parent[p]

(* An iteration behind case 1.                                             *)
EraseRest(h, n, p, side, cb) ==
  LET s == h.child[side][p]
      outer == h.child[side][s]
      inner == h.child[Opposite(side)][s]
  IN  IF IsBlack(h, outer) /\ IsBlack(h, inner) THEN EraseFlip(h, p, s)
      ELSE [heap |-> IF IsBlack(h, outer)
                     THEN EraseOuterNephew(EraseInnerNephew(h, p, s, side, cb), p, inner, s, side, cb)
                     ELSE EraseOuterNephew(h, p, s, outer, side, cb),
            node |-> n, parent |-> NULL]

LEMMA EraseRestKeeps ==
  ASSUME NEW h, NEW M, NEW n, NEW p, NEW s, NEW b, Deficient(h, M, n, p, s, b), NEW cb,
         IsBlack(h, h.child[s][p])
  PROVE  EraseGoesOn(h, M, p, EraseRest(h, n, p, s, cb))
<1> DEFINE z == h.child[s][p]
           o == h.child[s][z]
           i == h.child[Opposite(s)][z]
           step == EraseRest(h, n, p, s, cb)
<1>1. Shaped(h, M) /\ p \in M /\ s \in Sides
  BY DEF Deficient
<1>2. z # NULL /\ z # p /\ z \in M /\ z \in Nodes /\ p \in Nodes /\ h.parent[z] = p
  BY Sibling
<1>3. h.color[z] = "black" /\ IsHeap(h)
  BY <1>1, <1>2, ShapedHeap DEF IsBlack
<1>4. Opposite(s) \in Sides /\ \A t \in Sides : t = s \/ t = Opposite(s)
  BY <1>1, SidesFacts
<1>5. o \in N0 /\ i \in N0
  BY <1>1, <1>2, <1>3, <1>4, HeapTypes
<1>6. CASE IsBlack(h, o) /\ IsBlack(h, i)
  <2>1. step = EraseFlip(h, p, z)
    BY <1>6 DEF EraseRest
  <2>2. \A t \in Sides : IsBlack(h, h.child[t][z])
    BY <1>4, <1>6
  <2>3. EraseFlip(h, p, z).parent = IF h.color[p] = "red" THEN NULL ELSE h.parent[p]
    BY <1>2, <1>3, EraseFlipFields
  <2> DEFINE f == EraseFlip(h, p, z)
  <2>4. /\ f.node = p /\ Frame(h, f.heap, M)
        /\ f.parent = NULL => Balanced(f.heap, M)
        /\ f.parent # NULL =>
             /\ Erasing(f.heap, M, p, f.parent)
             /\ Painted(h, f.heap) /\ f.parent = h.parent[p]
    BY <1>3, <2>2, EraseFlipKeeps
  <2> HIDE DEF z, f
  <2> QED BY <2>1, <2>3, <2>4 DEF EraseGoesOn, f
<1>7. CASE ~ IsBlack(h, o)
  <2> DEFINE k == EraseOuterNephew(h, p, z, o, s, cb)
  <2>1. step.heap = k /\ step.parent = NULL
    BY <1>7 DEF EraseRest
  <2>2. o # NULL /\ h.color[o] = "red"
    BY <1>3, <1>5, <1>7, HeapTypes DEF IsBlack, N0, Colors
  <2>3. NephewHalf(h, h, z, o)
    BY <1>3 DEF NephewHalf, SameData
  <2>4. OuterNephewDone(h, k, p, z, s)
    BY <1>1, <1>2, <2>2, <2>3, EraseOuterNephewFields
  <2> HIDE DEF k
  <2>5. Balanced(k, M) /\ Frame(h, k, M)
    <3>1. RedOuterNephew(h, M, n, p, s, b, z, o, k)
      BY <1>3, <2>2, <2>4, Zenon DEF RedOuterNephew
    <3> QED BY <3>1, OuterNephewColours, Zenon
  <2> QED BY <2>1, <2>5 DEF EraseGoesOn
<1>8. CASE IsBlack(h, o) /\ ~ IsBlack(h, i)
  <2> DEFINE f == EraseInnerNephew(h, p, z, s, cb)
             k == EraseOuterNephew(f, p, i, z, s, cb)
  <2>1. step.heap = k /\ step.parent = NULL
    BY <1>8 DEF EraseRest
  <2>2. i # NULL /\ h.color[i] = "red"
    BY <1>3, <1>5, <1>8, HeapTypes DEF IsBlack, N0, Colors
  <2>3. PICK j : InnerNephewDone(h, j, z, i, s) /\ NephewHalf(j, f, i, z)
    BY <1>1, <1>2, <2>2, EraseInnerNephewFields, Zenon
  <2> HIDE DEF f, step
  <2>4. /\ \E c : Deficient(j, M, n, p, s, c)
        /\ Frame(h, j, M)
        /\ j.child[s][p] = i /\ j.color[i] = "black" /\ j.child[s][i] = z /\ j.color[z] = "red"
    <3>1. RedInnerNephew(h, M, n, p, s, b, z, i, j)
      BY <1>3, <1>8, <2>2, <2>3, Zenon DEF RedInnerNephew
    <3> HIDE DEF z, i
    <3> QED BY <3>1, InnerNephewColours
  <2> HIDE DEF z, i
  <2>5. PICK c : Deficient(j, M, n, p, s, c)
    BY <2>4
  <2>6. Shaped(j, M)
    BY <2>5 DEF Deficient
  <2>7. OuterNephewDone(j, k, p, i, s)
    BY <1>1, <1>2, <2>2, <2>3, <2>4, <2>6, EraseOuterNephewFields
  <2> HIDE DEF k
  <2>8. Balanced(k, M) /\ Frame(j, k, M)
    <3>1. RedOuterNephew(j, M, n, p, s, c, i, z, k)
      BY <1>2, <2>4, <2>5, <2>7, Zenon DEF RedOuterNephew
    <3> QED BY <3>1, OuterNephewColours, Zenon
  <2>9. Frame(h, k, M)
    BY <2>4, <2>8, FrameTrans
  <2> QED BY <2>1, <2>8, <2>9 DEF EraseGoesOn, step
<1> QED BY <1>6, <1>7, <1>8

(* An iteration leaves a balanced tree behind, or one in which the paths   *)
(* through the parent lack a black node.                                   *)
LEMMA EraseStepKeeps ==
  ASSUME NEW h, NEW M, NEW n, NEW p, Erasing(h, M, n, p), NEW cb
  PROVE  EraseGoesOn(h, M, p, EraseStep(h, n, p, cb))
<1> DEFINE s == SiblingSide(h, n, p)
           z == h.child[s][p]
           step == EraseStep(h, n, p, cb)
<1>1. PICK b : Deficient(h, M, n, p, s, b)
  BY DEF Erasing
<1>2. z # NULL /\ z \in Nodes
  BY <1>1, Sibling
<1>3. IsHeap(h) /\ s \in Sides
  BY <1>1, ShapedHeap DEF Deficient
<1>4. CASE h.color[z] = "red"
  <2> DEFINE k == EraseRedSibling(h, p, z, s, cb)
  <2>1. step = EraseRest(k, n, p, s, cb)
    BY <1>4 DEF EraseStep, EraseRest, SiblingSide
  <2>2. /\ Frame(h, k, M) /\ k.color[p] = "red"
        /\ IsBlack(k, k.child[s][p])
        /\ \E c : Deficient(k, M, n, p, s, c)
    <3>1. RedSibling(h, M, n, p, s, b, z)
      BY <1>1, <1>4, Zenon DEF RedSibling
    <3> QED BY <3>1, RedSiblingKeeps, Zenon
  <2> HIDE DEF k, s, step
  <2>3. EraseGoesOn(k, M, p, step)
    BY <2>1, <2>2, EraseRestKeeps
  <2>4. step.parent = NULL
    BY <2>2, <2>3 DEF EraseGoesOn
  <2>5. Frame(h, step.heap, M)
    BY <2>2, <2>3, FrameTrans DEF EraseGoesOn
  <2> QED BY <2>3, <2>4, <2>5 DEF EraseGoesOn, step
<1>5. CASE h.color[z] # "red"
  <2>1. step = EraseRest(h, n, p, s, cb)
    BY <1>5, Zenon DEF EraseStep, EraseRest, SiblingSide
  <2>2. IsBlack(h, z)
    BY <1>2, <1>3, <1>5, HeapTypes DEF IsBlack, Colors
  <2> HIDE DEF s
  <2> QED BY <1>1, <2>1, <2>2, EraseRestKeeps
<1> QED BY <1>4, <1>5

-----------------------------------------------------------------------------
(* Taking a node out, and putting one in the place of another.             *)

(* A node outside the tree has no links.                                   *)
Clean(h, M) == \A x \in Nodes : x \notin M => h.parent[x] = NULL /\ \A s \in Sides : h.child[s][x] = NULL

(* The node n leaves the tree and its only child c, or NULL, moves up.     *)
Spliced(h, k, n, c) ==
  /\ IsHeap(k)
  /\ k.root = IF h.root = n THEN c ELSE h.root
  /\ \A t \in Sides, x \in Nodes :
       k.child[t][x] = IF x = n THEN NULL ELSE IF h.child[t][x] = n THEN c ELSE h.child[t][x]
  /\ \A x \in Nodes :
       k.parent[x] = IF x = n THEN NULL ELSE IF x = c THEN h.parent[n] ELSE h.parent[x]
  /\ \A x \in Nodes : x # n /\ x # c => k.color[x] = h.color[x]
  /\ c # NULL => k.color[c] = "black"

OnlyChild(h, n, c) == \E s \in Sides : c = h.child[s][n] /\ h.child[Opposite(s)][n] = NULL

LEMMA OnlyChildFacts ==
  ASSUME NEW h, NEW M, Shaped(h, M), NEW n \in M, NEW c, OnlyChild(h, n, c)
  PROVE  /\ c \in N0 /\ c # n
         /\ c # NULL => c \in M /\ c \in Nodes /\ h.parent[c] = n /\ h.root # c
         /\ \A x \in M : h.parent[x] = n => x = c
<1>1. IsHeap(h) /\ M \subseteq Nodes
  BY ShapedHeap
<1>2. PICK s \in Sides : c = h.child[s][n] /\ h.child[Opposite(s)][n] = NULL
  BY DEF OnlyChild
<1>3. c \in N0
  BY <1>1, <1>2, HeapTypes
<1>4. c # NULL => c \in M /\ c \in Nodes /\ h.parent[c] = n /\ h.root # c /\ c # n
  BY <1>2, ShapedLinks
<1>5. ASSUME NEW x \in M, h.parent[x] = n PROVE x = c
  <2>1. x # h.root /\ x # NULL
    BY <1>1, <1>5, NullFacts DEF Shaped, Tree
  <2>2. PICK t \in Sides : h.child[t][n] = x
    BY <1>5, <2>1 DEF Shaped, Tree
  <2>3. t = s \/ t = Opposite(s)
    BY SidesFacts
  <2> QED BY <1>2, <2>1, <2>2, <2>3
<1> QED BY <1>1, <1>3, <1>4, <1>5, NullFacts

LEMMA SpliceShaped ==
  ASSUME NEW h, NEW M, Shaped(h, M), Clean(h, M), NEW n \in M, NEW c, OnlyChild(h, n, c),
         NEW k, Spliced(h, k, n, c)
  PROVE  Shaped(k, M \ {n}) /\ Clean(k, M \ {n})
<1>1. /\ c \in N0 /\ c # n
      /\ c # NULL => c \in M /\ c \in Nodes /\ h.parent[c] = n /\ h.root # c
      /\ \A x \in M : h.parent[x] = n => x = c
  BY OnlyChildFacts
<1>2. Tree(h, M) /\ IsHeap(h) /\ M \subseteq Nodes /\ n \in Nodes /\ n # NULL
  BY NullFacts DEF Shaped, Tree
<1>3. \A x \in M, t \in Sides :
        h.child[t][x] # NULL => h.child[t][x] \in M /\ h.parent[h.child[t][x]] = x /\ h.child[t][x] # x
                                /\ h.child[t][x] # h.child[Opposite(t)][x]
  <2>1. ASSUME NEW x \in M, NEW t \in Sides, h.child[t][x] # NULL PROVE h.child[t][x] # x
    BY <2>1, ChildFacts
  <2> QED BY <1>2, <2>1 DEF Tree
<1>4. \A t \in Sides, x \in Nodes :
        k.child[t][x] = IF x = n THEN NULL ELSE IF h.child[t][x] = n THEN c ELSE h.child[t][x]
  BY DEF Spliced
<1>5. \A x \in Nodes :
        k.parent[x] = IF x = n THEN NULL ELSE IF x = c THEN h.parent[n] ELSE h.parent[x]
  BY DEF Spliced
<1>6. k.root = IF h.root = n THEN c ELSE h.root
  BY DEF Spliced
<1>7. /\ h.root \in M \cup {NULL}
      /\ h.root # NULL => h.parent[h.root] = NULL
  BY <1>2 DEF Tree
<1>8. h.parent[n] # n /\ (n # h.root => h.parent[n] \in M /\ \E t \in Sides : h.child[t][h.parent[n]] = n)
  <2>1. n # h.root => h.parent[n] \in M /\ \E t \in Sides : h.child[t][h.parent[n]] = n
    BY <1>2 DEF Tree
  <2> QED BY <1>2, <1>3, <1>7, <2>1
<1>9. Tree(k, M \ {n})
  <2>1. k.root \in (M \ {n}) \cup {NULL}
    BY <1>1, <1>6, <1>7
  <2>2. k.root # NULL => k.parent[k.root] = NULL
    <3>1. CASE h.root = n
      BY <1>1, <1>2, <1>5, <1>6, <1>7, <3>1
    <3>2. CASE h.root # n
      BY <1>1, <1>2, <1>5, <1>6, <1>7, <3>2
    <3> QED BY <3>1, <3>2
  <2>3. ASSUME NEW x \in M \ {n}, NEW t \in Sides, k.child[t][x] # NULL
        PROVE  k.child[t][x] \in M \ {n} /\ k.parent[k.child[t][x]] = x
    <3>0. x \in M /\ x \in Nodes /\ x # n
      BY <1>2
    <3>1. CASE h.child[t][x] = n
      <4>1. k.child[t][x] = c /\ h.parent[n] = x
        BY <1>2, <1>3, <1>4, <3>0, <3>1
      <4> QED BY <1>1, <1>5, <2>3, <4>1
    <3>2. CASE h.child[t][x] # n
      <4>1. k.child[t][x] = h.child[t][x]
        BY <1>4, <3>0, <3>2
      <4>2. h.child[t][x] \in M /\ h.parent[h.child[t][x]] = x
        BY <1>3, <2>3, <3>0, <4>1
      <4>3. h.child[t][x] # c
        BY <1>1, <2>3, <3>0, <4>1, <4>2
      <4> QED BY <1>2, <1>5, <3>2, <4>1, <4>2, <4>3
    <3> QED BY <3>1, <3>2
  <2>4. ASSUME NEW x \in M \ {n}, x # k.root
        PROVE  k.parent[x] \in M \ {n} /\ \E t \in Sides : k.child[t][k.parent[x]] = x
    <3>0. x \in M /\ x \in Nodes /\ x # n
      BY <1>2
    <3>1. CASE x = c
      <4>1. n # h.root
        BY <1>6, <2>4, <3>1
      <4>2. PICK t \in Sides : h.child[t][h.parent[n]] = n
        BY <1>8, <4>1
      <4>3. h.parent[n] \in M /\ h.parent[n] \in Nodes /\ h.parent[n] # n
        BY <1>2, <1>8, <4>1
      <4>4. k.parent[x] = h.parent[n] /\ k.child[t][h.parent[n]] = c
        BY <1>4, <1>5, <3>0, <3>1, <4>2, <4>3
      <4> QED BY <3>1, <4>3, <4>4
    <3>2. CASE x # c
      <4>1. x # h.root /\ h.parent[x] # n
        BY <1>1, <1>6, <2>4, <3>0, <3>2
      <4>2. h.parent[x] \in M /\ \E t \in Sides : h.child[t][h.parent[x]] = x
        BY <1>2, <3>0, <4>1 DEF Tree
      <4>3. k.parent[x] = h.parent[x]
        BY <1>5, <3>0, <3>2
      <4> QED BY <1>2, <1>4, <3>0, <4>1, <4>2, <4>3
    <3> QED BY <3>1, <3>2
  <2>5. ASSUME NEW x \in M \ {n}, NEW t \in Sides, k.child[t][x] # NULL
        PROVE  k.child[t][x] # k.child[Opposite(t)][x]
    <3>0. x \in M /\ x \in Nodes /\ x # n /\ Opposite(t) \in Sides /\ Opposite(Opposite(t)) = t
      BY <1>2, SidesFacts
    <3>1. /\ k.child[t][x] = IF h.child[t][x] = n THEN c ELSE h.child[t][x]
          /\ k.child[Opposite(t)][x] = IF h.child[Opposite(t)][x] = n THEN c ELSE h.child[Opposite(t)][x]
      BY <1>4, <3>0
    <3>2. /\ h.child[t][x] # NULL => h.parent[h.child[t][x]] = x /\ h.child[t][x] # h.child[Opposite(t)][x]
          /\ h.child[Opposite(t)][x] # NULL => h.parent[h.child[Opposite(t)][x]] = x
                                               /\ h.child[Opposite(t)][x] # h.child[t][x]
      BY <1>3, <3>0
    <3> QED BY <1>1, <1>2, <2>5, <3>0, <3>1, <3>2
  <2> QED BY <1>2, <2>1, <2>2, <2>3, <2>4, <2>5 DEF Tree, Spliced
<1>10. \E q, C : Ranked(k, M \ {n}, q, C)
  <2>1. PICK r, B : Ranked(h, M, r, B)
    BY DEF Shaped
  <2>2. /\ B \in Nat /\ r \in [Nodes -> 0 .. B]
        /\ \A x \in M, t \in Sides : h.child[t][x] # NULL => r[h.child[t][x]] < r[x]
    BY <2>1 DEF Ranked
  <2>3. c # NULL => r[c] < r[n] /\ r[c] \in Nat /\ r[n] \in Nat
    <3>1. PICK s \in Sides : c = h.child[s][n]
      BY DEF OnlyChild
    <3> QED BY <1>1, <1>2, <2>2, <3>1
  <2>4. ASSUME NEW x \in M \ {n}, NEW t \in Sides, k.child[t][x] # NULL PROVE r[k.child[t][x]] < r[x]
    <3>0. x \in M /\ x \in Nodes /\ x # n /\ r[x] \in Nat
      BY <1>2, <2>2
    <3>1. k.child[t][x] = IF h.child[t][x] = n THEN c ELSE h.child[t][x]
      BY <1>4, <3>0
    <3>2. h.child[t][x] # NULL => r[h.child[t][x]] < r[x]
      BY <2>2, <3>0
    <3>3. CASE h.child[t][x] = n
      BY <1>2, <2>3, <2>4, <3>0, <3>1, <3>2, <3>3
    <3>4. CASE h.child[t][x] # n
      BY <2>4, <3>1, <3>2, <3>4
    <3> QED BY <3>3, <3>4
  <2>5. Ranked(k, M \ {n}, r, B)
    BY <2>2, <2>4 DEF Ranked
  <2> QED BY <2>5
<1>11. Clean(k, M \ {n})
  <2> SUFFICES ASSUME NEW x \in Nodes, x \notin M \ {n}
               PROVE  k.parent[x] = NULL /\ \A t \in Sides : k.child[t][x] = NULL
    BY DEF Clean
  <2>1. CASE x = n
    BY <1>4, <1>5, <2>1
  <2>2. CASE x # n
    <3>1. x \notin M /\ x # c
      BY <1>1, <2>2, NullFacts
    <3>2. h.parent[x] = NULL /\ \A t \in Sides : h.child[t][x] = NULL
      BY <3>1 DEF Clean
    <3> QED BY <1>2, <1>4, <1>5, <2>2, <3>1, <3>2
  <2> QED BY <2>1, <2>2
<1> QED BY <1>9, <1>10, <1>11 DEF Shaped

(* An only child is red, for its sibling is NULL.                          *)
LEMMA OnlyChildColours ==
  ASSUME NEW h, NEW M, Shaped(h, M), Reds(h, M, NULL), NEW b, Blacks(h, M, b, NULL, "left"),
         NEW n \in M, NEW c, OnlyChild(h, n, c)
  PROVE  /\ b[n] = Black(h, n) /\ b[c] = 0
         /\ c # NULL => h.color[c] = "red" /\ h.color[n] = "black"
<1>1. IsHeap(h) /\ M \subseteq Nodes
  BY ShapedHeap
<1>2. /\ c \in N0 /\ c # n
      /\ c # NULL => c \in M /\ c \in Nodes /\ h.parent[c] = n /\ h.root # c
  BY OnlyChildFacts
<1>3. PICK s \in Sides : c = h.child[s][n] /\ h.child[Opposite(s)][n] = NULL
  BY DEF OnlyChild
<1>4. Opposite(s) \in Sides
  BY SidesFacts
<1>5. \A x \in M, t \in Sides :
        b[x] = b[h.child[t][x]] + Black(h, x) /\ b[x] \in Nat /\ b[h.child[t][x]] \in Nat
  BY <1>1, BlackSum
<1>6. b[NULL] = 0 /\ \A x : Black(h, x) \in {0, 1}
  BY DEF Blacks, Black
<1>7. b[n] = b[c] + Black(h, n) /\ b[n] = b[NULL] + Black(h, n) /\ b[c] \in Nat
  BY <1>3, <1>4, <1>5
<1>8. b[n] = Black(h, n) /\ b[c] = 0
  BY <1>6, <1>7
<1>9. ASSUME c # NULL PROVE h.color[c] = "red" /\ h.color[n] = "black"
  <2>1. c \in M /\ c \in Nodes /\ h.parent[c] = n
    BY <1>2, <1>9
  <2>2. b[c] = b[h.child[s][c]] + Black(h, c) /\ b[h.child[s][c]] \in Nat
    BY <1>5, <2>1
  <2>3. Black(h, c) = 0
    BY <1>6, <1>8, <2>2
  <2>4. h.color[c] = "red"
    BY <1>1, <2>1, <2>3, HeapTypes DEF Black, Colors
  <2> QED BY <1>9, <2>1, <2>4 DEF Reds
<1> QED BY <1>8, <1>9

(* The link on side e of q led to n, if the paths through it have lost a   *)
(* black node.                                                             *)
Leaves(h, M, n, c, q, e) ==
  \A x \in M, t \in Sides :
    Extra(x, t, q, e) = IF h.child[t][x] = n /\ c = NULL THEN Black(h, n) ELSE 0

LEMMA SpliceColours ==
  ASSUME NEW h, NEW M, Balanced(h, M), NEW n \in M, NEW c, OnlyChild(h, n, c),
         NEW k, Spliced(h, k, n, c), NEW q, NEW e, Leaves(h, M, n, c, q, e)
  PROVE  Reds(k, M \ {n}, NULL) /\ \E b : Blacks(k, M \ {n}, b, q, e)
<1>1. Shaped(h, M) /\ Reds(h, M, NULL) /\ \E b : Blacks(h, M, b, NULL, "left")
  BY DEF Balanced
<1>2. IsHeap(h) /\ M \subseteq Nodes /\ n \in Nodes /\ n # NULL
  BY <1>1, ShapedHeap, NullFacts
<1>3. /\ c \in N0 /\ c # n
      /\ c # NULL => c \in M /\ c \in Nodes /\ h.parent[c] = n /\ h.root # c
      /\ \A x \in M : h.parent[x] = n => x = c
  BY <1>1, OnlyChildFacts
<1>4. PICK b : Blacks(h, M, b, NULL, "left")
  BY <1>1
<1>5. /\ b[n] = Black(h, n) /\ b[c] = 0
      /\ c # NULL => h.color[c] = "red" /\ h.color[n] = "black"
  BY <1>1, <1>4, OnlyChildColours
<1>6. \A x \in M, t \in Sides :
        b[x] = b[h.child[t][x]] + Black(h, x) /\ b[x] \in Nat /\ b[h.child[t][x]] \in Nat
  BY <1>2, <1>4, BlackSum
<1>7. /\ \A x \in Nodes : x # n /\ x # c => k.color[x] = h.color[x]
      /\ c # NULL => k.color[c] = "black"
      /\ \A x \in Nodes :
           k.parent[x] = IF x = n THEN NULL ELSE IF x = c THEN h.parent[n] ELSE h.parent[x]
      /\ \A t \in Sides, x \in Nodes :
           k.child[t][x] = IF x = n THEN NULL ELSE IF h.child[t][x] = n THEN c ELSE h.child[t][x]
  BY DEF Spliced
<1>8. Reds(k, M \ {n}, NULL)
  <2> SUFFICES ASSUME NEW x \in M \ {n}, k.color[x] = "red"
               PROVE  k.parent[x] \in M \ {n} /\ k.color[k.parent[x]] = "black"
    BY DEF Reds
  <2>1. x \in M /\ x \in Nodes /\ x # n /\ x # c /\ x # NULL
    BY <1>2, <1>3, <1>7, NullFacts
  <2>2. h.color[x] = "red" /\ k.parent[x] = h.parent[x]
    BY <1>7, <2>1
  <2>3. h.parent[x] \in M /\ h.color[h.parent[x]] = "black"
    BY <1>1, <2>1, <2>2 DEF Reds
  <2>4. h.parent[x] # n
    BY <1>3, <2>1
  <2>5. h.parent[x] # c
    BY <1>2, <1>5, <2>3, NullFacts
  <2> QED BY <1>2, <1>7, <2>2, <2>3, <2>4, <2>5
<1>9. \E a : Blacks(k, M \ {n}, a, q, e)
  <2> DEFINE a == [x \in N0 |-> IF x = c /\ c # NULL THEN 1 ELSE b[x]]
  <2>1. b \in [N0 -> Nat] /\ b[NULL] = 0
    BY <1>4 DEF Blacks
  <2>2. a \in [N0 -> Nat]
    BY <2>1
  <2>3. /\ \A x \in N0 : x # c => a[x] = b[x]
        /\ a[NULL] = 0 /\ (c # NULL => a[c] = 1) /\ (c = NULL => a[c] = 0)
    BY <1>3, <2>1, NullFacts
  <2> HIDE DEF a
  <2>4. ASSUME NEW x \in M \ {n}, NEW t \in Sides
        PROVE  a[x] = a[k.child[t][x]] + Extra(x, t, q, e) + Black(k, x)
    <3>0. x \in M /\ x \in Nodes /\ x # n /\ x \in N0 /\ x # NULL /\ h.child[t][x] \in N0
      BY <1>2, NullFacts, HeapTypes
    <3>1. /\ Extra(x, t, q, e) = IF h.child[t][x] = n /\ c = NULL THEN Black(h, n) ELSE 0
          /\ k.child[t][x] = IF h.child[t][x] = n THEN c ELSE h.child[t][x]
      BY <1>7, <3>0 DEF Leaves
    <3>2. /\ b[x] = b[h.child[t][x]] + Black(h, x) /\ b[x] \in Nat /\ b[h.child[t][x]] \in Nat
          /\ Black(h, x) \in Nat /\ Black(h, n) \in Nat
      BY <1>6, <3>0 DEF Black
    <3>3. h.child[t][x] # NULL => h.parent[h.child[t][x]] = x /\ h.child[t][x] # x
      BY <1>1, <3>0, ChildFacts
    <3>4. CASE x = c
      <4>1. Black(h, x) = 0 /\ Black(k, x) = 1
        BY <1>5, <1>7, <3>0, <3>4 DEF Black
      <4>2. h.child[t][x] # n /\ h.child[t][x] # c
        <5>1. h.child[t][x] # c
          BY <3>0, <3>3, <3>4
        <5>3. h.child[t][x] # n
          <6> SUFFICES ASSUME h.child[t][x] = n PROVE FALSE
            OBVIOUS
          <6>1. PICK s \in Sides : h.child[s][n] = x
            BY <3>4 DEF OnlyChild
          <6>2. \A u \in Sides : h.child[u][x] # n
            BY <1>1, <3>0, <6>1, ChildFacts
          <6> QED BY <6>2
        <5> QED BY <5>1, <5>3
      <4>3. a[k.child[t][x]] = b[h.child[t][x]]
        BY <2>3, <3>0, <3>1, <4>2
      <4>4. b[x] = 0 /\ a[x] = 1
        BY <1>5, <2>3, <3>0, <3>4
      <4> QED BY <3>1, <3>2, <4>1, <4>2, <4>3, <4>4
    <3>5. CASE x # c
      <4>1. Black(k, x) = Black(h, x) /\ a[x] = b[x]
        BY <1>7, <2>3, <3>0, <3>5 DEF Black
      <4>2. CASE h.child[t][x] = n
        <5>1. CASE c = NULL
          BY <1>5, <2>3, <3>1, <3>2, <4>1, <4>2, <5>1
        <5>2. CASE c # NULL
          <6>1. Black(h, n) = 1
            BY <1>5, <5>2 DEF Black
          <6> QED BY <1>5, <2>3, <3>1, <3>2, <4>1, <4>2, <5>2, <6>1
        <5> QED BY <5>1, <5>2
      <4>3. CASE h.child[t][x] # n
        <5>1. h.child[t][x] # c \/ c = NULL
          BY <1>3, <3>0, <3>3
        <5>2. a[h.child[t][x]] = b[h.child[t][x]]
          BY <2>1, <2>3, <3>0, <5>1
        <5> QED BY <3>1, <3>2, <4>1, <4>3, <5>2
      <4> QED BY <4>2, <4>3
    <3> QED BY <3>4, <3>5
  <2>5. Blacks(k, M \ {n}, a, q, e)
    BY <2>2, <2>3, <2>4 DEF Blacks, BlackAt
  <2> QED BY <2>5
<1> QED BY <1>8, <1>9

(* A tree in which the paths by the NULL link on side e of q, if q is not  *)
(* NULL, lack a black node.                                                *)
Lacking(h, M, q, e) ==
  /\ Shaped(h, M) /\ Reds(h, M, NULL)
  /\ \E b : Blacks(h, M, b, q, e)
  /\ q # NULL => q \in M /\ e \in Sides /\ h.child[e][q] = NULL

LEMMA LackingMeans ==
  ASSUME NEW h, NEW M, NEW q, NEW e, Lacking(h, M, q, e)
  PROVE  /\ q = NULL => Balanced(h, M)
         /\ q # NULL => Erasing(h, M, NULL, q)
<1>1. Shaped(h, M) /\ Reds(h, M, NULL) /\ IsHeap(h) /\ M \subseteq Nodes
  BY ShapedHeap DEF Lacking
<1>2. PICK b : Blacks(h, M, b, q, e)
  BY DEF Lacking
<1>3. ASSUME q = NULL PROVE Balanced(h, M)
  <2>1. \A x \in M, t \in Sides : Extra(x, t, q, e) = 0 /\ Extra(x, t, NULL, "left") = 0
    BY <1>1, <1>3, NoExtra
  <2>2. Blacks(h, M, b, NULL, "left")
    BY <1>2, <2>1 DEF Blacks, BlackAt
  <2> QED BY <1>1, <2>2 DEF Balanced
<1>4. ASSUME q # NULL PROVE Erasing(h, M, NULL, q)
  <2>1. q \in M /\ e \in Sides /\ h.child[e][q] = NULL
    BY <1>4 DEF Lacking
  <2> DEFINE o == Opposite(e)
  <2>2. o \in Sides /\ o # e /\ Opposite(o) = e
    BY <2>1, SidesFacts
  <2>3. IsBlack(h, NULL)
    BY DEF IsBlack
  <2>4. Deficient(h, M, NULL, q, o, b)
    BY <1>1, <1>2, <2>1, <2>2, <2>3 DEF Deficient
  <2> HIDE DEF o
  <2>5. h.child[o][q] # NULL
    <3>1. PICK z : z = h.child[o][q]
      OBVIOUS
    <3>2. z # NULL
      BY <2>4, <3>1, Sibling
    <3> QED BY <3>1, <3>2
  <2>6. SiblingSide(h, NULL, q) = o
    BY <2>1, <2>2, <2>5 DEF SiblingSide, Sides, o, Opposite
  <2> QED BY <2>4, <2>6 DEF Erasing
<1> QED BY <1>3, <1>4

LEMMA SpliceKeeps ==
  ASSUME NEW h, NEW M, Balanced(h, M), Clean(h, M), NEW n \in M, NEW c, OnlyChild(h, n, c),
         NEW k, Spliced(h, k, n, c),
         NEW q, q = IF c = NULL /\ h.color[n] = "black" THEN h.parent[n] ELSE NULL
  PROVE  /\ Clean(k, M \ {n})
         /\ \E e : Lacking(k, M \ {n}, q, e)
<1>1. Shaped(h, M) /\ IsHeap(h) /\ M \subseteq Nodes /\ n \in Nodes /\ n # NULL
  BY ShapedHeap, NullFacts DEF Balanced
<1>2. Shaped(k, M \ {n}) /\ Clean(k, M \ {n})
  BY <1>1, SpliceShaped
<1>3. \A x \in M, t \in Sides : h.child[t][x] = n => h.parent[n] = x /\ n # x
  BY <1>1, ChildFacts
<1>4. CASE q = NULL
  <2>1. ASSUME NEW x \in M, NEW t \in Sides
        PROVE  Extra(x, t, q, "left") = IF h.child[t][x] = n /\ c = NULL THEN Black(h, n) ELSE 0
    <3>1. Extra(x, t, q, "left") = 0
      BY <1>1, <1>4, NoExtra
    <3>2. h.child[t][x] = n /\ c = NULL => h.color[n] # "black"
      BY <1>1, <1>3, <1>4, NullFacts
    <3> QED BY <3>1, <3>2 DEF Black
  <2>2. Leaves(h, M, n, c, q, "left")
    BY <2>1 DEF Leaves
  <2>3. Reds(k, M \ {n}, NULL) /\ \E b : Blacks(k, M \ {n}, b, q, "left")
    BY <2>2, SpliceColours
  <2>4. Lacking(k, M \ {n}, q, "left")
    BY <1>2, <1>4, <2>3 DEF Lacking
  <2> QED BY <1>2, <2>4
<1>5. CASE q # NULL
  <2>1. c = NULL /\ h.color[n] = "black" /\ q = h.parent[n]
    BY <1>5
  <2>2. n # h.root
    BY <1>1, <1>5, <2>1 DEF Shaped, Tree
  <2>3. q \in M /\ \E t \in Sides : h.child[t][q] = n
    BY <1>1, <2>1, <2>2 DEF Shaped, Tree
  <2>4. PICK e \in Sides : h.child[e][q] = n
    BY <2>3
  <2>5. \A t \in Sides : h.child[t][q] = n => t = e
    <3>1. h.child[Opposite(e)][q] # n
      BY <1>1, <2>3, <2>4 DEF Shaped, Tree
    <3> QED BY <3>1, SidesFacts
  <2>6. Leaves(h, M, n, c, q, e)
    BY <1>3, <2>1, <2>3, <2>4, <2>5 DEF Leaves, Extra, Black
  <2>7. Reds(k, M \ {n}, NULL) /\ \E b : Blacks(k, M \ {n}, b, q, e)
    BY <2>6, SpliceColours
  <2>8. q # n /\ q \in Nodes
    BY <1>1, <1>3, <2>3, <2>4
  <2>9. k.child[e][q] = NULL
    BY <2>1, <2>4, <2>8 DEF Spliced
  <2>10. Lacking(k, M \ {n}, q, e)
    BY <1>2, <2>3, <2>7, <2>8, <2>9 DEF Lacking
  <2> QED BY <1>2, <2>10
<1> QED BY <1>4, <1>5

(* The node y, which is not in the tree, takes the place of n.             *)
Replaced(h, k, n, y) ==
  /\ IsHeap(k)
  /\ k.root = IF h.root = n THEN y ELSE h.root
  /\ \A t \in Sides, x \in Nodes :
       k.child[t][x] = IF x = n THEN NULL ELSE IF x = y THEN h.child[t][n]
                       ELSE IF h.child[t][x] = n THEN y ELSE h.child[t][x]
  /\ \A x \in Nodes :
       k.parent[x] = IF x = n THEN NULL ELSE IF x = y THEN h.parent[n]
                     ELSE IF h.parent[x] = n THEN y ELSE h.parent[x]
  /\ \A x \in Nodes : x # n => k.color[x] = IF x = y THEN h.color[n] ELSE h.color[x]

LEMMA ReplaceShaped ==
  ASSUME NEW h, NEW M, Shaped(h, M), Clean(h, M), NEW n \in M, NEW y \in Nodes, y \notin M,
         NEW k, Replaced(h, k, n, y)
  PROVE  LET K == (M \ {n}) \cup {y} IN Shaped(k, K) /\ Clean(k, K)
<1> DEFINE K == (M \ {n}) \cup {y}
<1>1. Tree(h, M) /\ IsHeap(h) /\ M \subseteq Nodes /\ n \in Nodes /\ n # NULL /\ y # NULL /\ y # n
  BY NullFacts DEF Shaped, Tree
<1>2. \A x \in M, t \in Sides :
        h.child[t][x] # NULL => h.child[t][x] \in M /\ h.parent[h.child[t][x]] = x /\ h.child[t][x] # x
                                /\ h.child[t][x] # h.child[Opposite(t)][x]
  <2>1. ASSUME NEW x \in M, NEW t \in Sides, h.child[t][x] # NULL PROVE h.child[t][x] # x
    BY <2>1, ChildFacts
  <2> QED BY <1>1, <2>1 DEF Tree
<1>3. \A t \in Sides, x \in Nodes :
        k.child[t][x] = IF x = n THEN NULL ELSE IF x = y THEN h.child[t][n]
                        ELSE IF h.child[t][x] = n THEN y ELSE h.child[t][x]
  BY DEF Replaced
<1>4. \A x \in Nodes :
        k.parent[x] = IF x = n THEN NULL ELSE IF x = y THEN h.parent[n]
                      ELSE IF h.parent[x] = n THEN y ELSE h.parent[x]
  BY DEF Replaced
<1>5. k.root = IF h.root = n THEN y ELSE h.root
  BY DEF Replaced
<1>6. /\ h.root \in M \cup {NULL}
      /\ h.root # NULL => h.parent[h.root] = NULL
  BY <1>1 DEF Tree
<1>7. \A x \in M : x # h.root => h.parent[x] \in M /\ \E t \in Sides : h.child[t][h.parent[x]] = x
  BY <1>1 DEF Tree
<1>8. Tree(k, K)
  <2>1. k.root \in K \cup {NULL}
    BY <1>5, <1>6
  <2>2. k.root # NULL => k.parent[k.root] = NULL
    <3>1. CASE h.root = n
      BY <1>1, <1>4, <1>5, <1>6, <3>1
    <3>2. CASE h.root # n
      BY <1>1, <1>4, <1>5, <1>6, <3>2
    <3> QED BY <3>1, <3>2
  <2>3. ASSUME NEW x \in K, NEW t \in Sides, k.child[t][x] # NULL
        PROVE  k.child[t][x] \in K /\ k.parent[k.child[t][x]] = x
    <3>1. CASE x = y
      <4>1. k.child[t][x] = h.child[t][n]
        BY <1>1, <1>3, <3>1
      <4>2. h.child[t][n] \in M /\ h.parent[h.child[t][n]] = n /\ h.child[t][n] # n
        BY <1>2, <2>3, <4>1
      <4> QED BY <1>1, <1>4, <3>1, <4>1, <4>2
    <3>2. CASE x # y
      <4>0. x \in M /\ x \in Nodes /\ x # n
        BY <1>1, <3>2
      <4>1. k.child[t][x] = IF h.child[t][x] = n THEN y ELSE h.child[t][x]
        BY <1>3, <3>2, <4>0
      <4>2. CASE h.child[t][x] = n
        <5>1. h.parent[n] = x
          BY <1>1, <1>2, <4>0, <4>2
        <5> QED BY <1>1, <1>4, <4>1, <4>2, <5>1
      <4>3. CASE h.child[t][x] # n
        <5>1. h.child[t][x] \in M /\ h.parent[h.child[t][x]] = x
          BY <1>2, <2>3, <4>0, <4>1, <4>3
        <5> QED BY <1>1, <1>4, <4>0, <4>1, <4>3, <5>1
      <4> QED BY <4>2, <4>3
    <3> QED BY <3>1, <3>2
  <2>4. ASSUME NEW x \in K, x # k.root
        PROVE  k.parent[x] \in K /\ \E t \in Sides : k.child[t][k.parent[x]] = x
    <3>1. CASE x = y
      <4>1. n # h.root
        BY <1>5, <2>4, <3>1
      <4>2. h.parent[n] \in M /\ \E t \in Sides : h.child[t][h.parent[n]] = n
        BY <1>7, <4>1
      <4>3. PICK t \in Sides : h.child[t][h.parent[n]] = n
        BY <4>2
      <4>4. h.parent[n] # n /\ h.parent[n] \in Nodes /\ h.parent[n] # y
        BY <1>1, <1>2, <4>2, <4>3
      <4>5. k.parent[x] = h.parent[n] /\ k.child[t][h.parent[n]] = y
        BY <1>1, <1>3, <1>4, <3>1, <4>3, <4>4
      <4> QED BY <3>1, <4>2, <4>4, <4>5
    <3>2. CASE x # y
      <4>0. x \in M /\ x \in Nodes /\ x # n
        BY <1>1, <3>2
      <4>1. x # h.root
        BY <1>5, <2>4, <4>0
      <4>2. h.parent[x] \in M /\ \E t \in Sides : h.child[t][h.parent[x]] = x
        BY <1>7, <4>0, <4>1
      <4>3. k.parent[x] = IF h.parent[x] = n THEN y ELSE h.parent[x]
        BY <1>4, <3>2, <4>0
      <4>4. CASE h.parent[x] = n
        BY <1>1, <1>3, <4>2, <4>3, <4>4
      <4>5. CASE h.parent[x] # n
        <5>1. k.parent[x] = h.parent[x] /\ h.parent[x] # y /\ h.parent[x] \in Nodes
          BY <1>1, <4>2, <4>3, <4>5
        <5>2. \E t \in Sides : k.child[t][h.parent[x]] = x
          BY <1>3, <4>0, <4>2, <4>5, <5>1
        <5> QED BY <4>2, <4>5, <5>1, <5>2
      <4> QED BY <4>4, <4>5
    <3> QED BY <3>1, <3>2
  <2>5. ASSUME NEW x \in K, NEW t \in Sides, k.child[t][x] # NULL
        PROVE  k.child[t][x] # k.child[Opposite(t)][x]
    <3>0. Opposite(t) \in Sides /\ Opposite(Opposite(t)) = t
      BY SidesFacts
    <3>1. CASE x = y
      <4>1. k.child[t][x] = h.child[t][n] /\ k.child[Opposite(t)][x] = h.child[Opposite(t)][n]
        BY <1>1, <1>3, <3>0, <3>1
      <4> QED BY <1>2, <2>5, <4>1
    <3>2. CASE x # y
      <4>0. x \in M /\ x \in Nodes /\ x # n
        BY <1>1, <3>2
      <4>1. /\ k.child[t][x] = IF h.child[t][x] = n THEN y ELSE h.child[t][x]
            /\ k.child[Opposite(t)][x] = IF h.child[Opposite(t)][x] = n THEN y ELSE h.child[Opposite(t)][x]
        BY <1>3, <3>0, <3>2, <4>0
      <4>2. /\ h.child[t][x] # NULL => h.child[t][x] \in M /\ h.child[t][x] # h.child[Opposite(t)][x]
            /\ h.child[Opposite(t)][x] # NULL =>
                 h.child[Opposite(t)][x] \in M /\ h.child[Opposite(t)][x] # h.child[t][x]
        BY <1>2, <3>0, <4>0
      <4> QED BY <1>1, <2>5, <4>1, <4>2
    <3> QED BY <3>1, <3>2
  <2>6. K \subseteq Nodes /\ IsHeap(k)
    BY <1>1 DEF Replaced
  <2> HIDE DEF K
  <2> QED BY <2>1, <2>2, <2>3, <2>4, <2>5, <2>6 DEF Tree
<1>9. \E q, C : Ranked(k, K, q, C)
  <2>1. PICK r, B : Ranked(h, M, r, B)
    BY DEF Shaped
  <2>2. /\ B \in Nat /\ r \in [Nodes -> 0 .. B]
        /\ \A x \in M, t \in Sides : h.child[t][x] # NULL => r[h.child[t][x]] < r[x]
    BY <2>1 DEF Ranked
  <2> DEFINE q == [x \in Nodes |-> IF x = y THEN r[n] ELSE r[x]]
  <2>3. q \in [Nodes -> 0 .. B] /\ q[y] = r[n] /\ \A x \in M : q[x] = r[x]
    BY <1>1, <2>2
  <2> HIDE DEF q
  <2>4. ASSUME NEW x \in K, NEW t \in Sides, k.child[t][x] # NULL PROVE q[k.child[t][x]] < q[x]
    <3>1. CASE x = y
      <4>1. k.child[t][x] = h.child[t][n]
        BY <1>1, <1>3, <3>1
      <4> QED BY <1>2, <2>2, <2>3, <2>4, <3>1, <4>1
    <3>2. CASE x # y
      <4>0. x \in M /\ x \in Nodes /\ x # n
        BY <1>1, <3>2
      <4>1. k.child[t][x] = IF h.child[t][x] = n THEN y ELSE h.child[t][x]
        BY <1>3, <3>2, <4>0
      <4>2. h.child[t][x] # NULL
        BY <1>1, <2>4, <4>1
      <4>3. r[h.child[t][x]] < r[x] /\ h.child[t][x] \in M
        BY <1>2, <2>2, <4>0, <4>2
      <4>4. CASE h.child[t][x] = n
        BY <2>3, <4>0, <4>1, <4>3, <4>4
      <4>5. CASE h.child[t][x] # n
        BY <2>3, <4>0, <4>1, <4>3, <4>5
      <4> QED BY <4>4, <4>5
    <3> QED BY <3>1, <3>2
  <2>5. Ranked(k, K, q, B)
    BY <2>2, <2>3, <2>4 DEF Ranked
  <2> QED BY <2>5
<1>10. Clean(k, K)
  <2> SUFFICES ASSUME NEW x \in Nodes, x \notin K
               PROVE  k.parent[x] = NULL /\ \A t \in Sides : k.child[t][x] = NULL
    BY DEF Clean
  <2>1. CASE x = n
    BY <1>3, <1>4, <2>1
  <2>2. CASE x # n
    <3>1. x \notin M /\ x # y
      BY <2>2
    <3>2. h.parent[x] = NULL /\ \A t \in Sides : h.child[t][x] = NULL
      BY <3>1 DEF Clean
    <3> QED BY <1>1, <1>3, <1>4, <2>2, <3>1, <3>2
  <2> QED BY <2>1, <2>2
<1> QED BY <1>8, <1>9, <1>10 DEF Shaped

LEMMA ReplaceKeeps ==
  ASSUME NEW h, NEW M, NEW q, NEW e, Lacking(h, M, q, e), Clean(h, M),
         NEW n \in M, NEW y \in Nodes, y \notin M,
         NEW k, Replaced(h, k, n, y)
  PROVE  LET K == (M \ {n}) \cup {y}
         IN  Clean(k, K) /\ Lacking(k, K, IF q = n THEN y ELSE q, e)
<1> DEFINE K == (M \ {n}) \cup {y}
           p == IF q = n THEN y ELSE q
<1>1. Shaped(h, M) /\ Reds(h, M, NULL) /\ IsHeap(h) /\ M \subseteq Nodes
  BY ShapedHeap DEF Lacking
<1>2. n \in Nodes /\ n # NULL /\ y # NULL /\ y # n
  BY <1>1, NullFacts
<1>3. PICK b : Blacks(h, M, b, q, e)
  BY DEF Lacking
<1>4. Shaped(k, K) /\ Clean(k, K)
  BY <1>1, ReplaceShaped
<1>5. /\ \A t \in Sides, x \in Nodes :
           k.child[t][x] = IF x = n THEN NULL ELSE IF x = y THEN h.child[t][n]
                           ELSE IF h.child[t][x] = n THEN y ELSE h.child[t][x]
      /\ \A x \in Nodes :
           k.parent[x] = IF x = n THEN NULL ELSE IF x = y THEN h.parent[n]
                         ELSE IF h.parent[x] = n THEN y ELSE h.parent[x]
      /\ \A x \in Nodes : x # n => k.color[x] = IF x = y THEN h.color[n] ELSE h.color[x]
  BY DEF Replaced
<1>6. \A x \in K : x \in Nodes /\ x # n /\ (x # y => x \in M)
  BY <1>1, <1>2
<1>7. \A x \in M, t \in Sides : h.child[t][x] # NULL => h.child[t][x] \in M /\ h.child[t][x] # x
  BY <1>1, ChildFacts
<1>8. Reds(k, K, NULL)
  <2> SUFFICES ASSUME NEW x \in K, k.color[x] = "red"
               PROVE  k.parent[x] \in K /\ k.color[k.parent[x]] = "black"
    BY DEF Reds
  <2>1. CASE x = y
    <3>1. h.color[n] = "red" /\ k.parent[x] = h.parent[n]
      BY <1>2, <1>5, <2>1
    <3>2. h.parent[n] \in M /\ h.color[h.parent[n]] = "black"
      BY <1>1, <1>2, <3>1 DEF Reds
    <3>3. h.parent[n] # n /\ h.parent[n] # y /\ h.parent[n] \in Nodes
      BY <1>1, <3>1, <3>2
    <3> QED BY <1>5, <3>1, <3>2, <3>3
  <2>2. CASE x # y
    <3>0. x \in M /\ x \in Nodes /\ x # n /\ x # NULL
      BY <1>1, <1>6, <2>2, NullFacts
    <3>1. h.color[x] = "red" /\ k.parent[x] = IF h.parent[x] = n THEN y ELSE h.parent[x]
      BY <1>5, <2>2, <3>0
    <3>2. h.parent[x] \in M /\ h.color[h.parent[x]] = "black" /\ h.parent[x] \in Nodes
      BY <1>1, <3>0, <3>1 DEF Reds
    <3>3. CASE h.parent[x] = n
      BY <1>2, <1>5, <3>1, <3>2, <3>3
    <3>4. CASE h.parent[x] # n
      BY <1>5, <3>1, <3>2, <3>4
    <3> QED BY <3>3, <3>4
  <2> QED BY <2>1, <2>2
<1>9. q # y
  BY <1>2 DEF Lacking
<1> HIDE DEF K
<1>10. \E c : Blacks(k, K, c, p, e)
  <2> DEFINE c == [x \in N0 |-> IF x = y THEN b[n] ELSE b[x]]
  <2>1. b \in [N0 -> Nat] /\ b[NULL] = 0
    BY <1>3 DEF Blacks
  <2>2. c \in [N0 -> Nat]
    BY <1>2, <2>1, NullFacts
  <2>3. c[y] = b[n] /\ c[NULL] = 0 /\ \A x \in N0 : x # y => c[x] = b[x]
    BY <1>2, <2>1, NullFacts
  <2> HIDE DEF c
  <2>4. ASSUME NEW x \in K, NEW t \in Sides
        PROVE  c[x] = c[k.child[t][x]] + Extra(x, t, p, e) + Black(k, x)
    <3>1. CASE x = y
      <4>1. k.child[t][x] = h.child[t][n] /\ Black(k, x) = Black(h, n)
        BY <1>2, <1>5, <3>1 DEF Black
      <4>2. Extra(x, t, p, e) = Extra(n, t, q, e)
        BY <1>2, <1>9, <3>1 DEF Extra
      <4>3. b[n] = b[h.child[t][n]] + Extra(n, t, q, e) + Black(h, n)
        BY <1>3 DEF Blacks, BlackAt
      <4>4. h.child[t][n] \in N0 /\ h.child[t][n] # y
        BY <1>1, <1>2, <1>7, HeapTypes
      <4> QED BY <2>3, <3>1, <4>1, <4>2, <4>3, <4>4
    <3>2. CASE x # y
      <4>0. x \in M /\ x \in Nodes /\ x # n /\ x \in N0
        BY <1>6, <3>2, NullFacts
      <4>1. /\ k.child[t][x] = IF h.child[t][x] = n THEN y ELSE h.child[t][x]
            /\ Black(k, x) = Black(h, x)
        BY <1>5, <3>2, <4>0 DEF Black
      <4>2. Extra(x, t, p, e) = Extra(x, t, q, e)
        BY <3>2, <4>0 DEF Extra
      <4>3. b[x] = b[h.child[t][x]] + Extra(x, t, q, e) + Black(h, x)
        BY <1>3, <4>0 DEF Blacks, BlackAt
      <4>4. h.child[t][x] \in N0 /\ h.child[t][x] # y
        BY <1>1, <1>2, <1>7, <4>0, HeapTypes
      <4>5. c[k.child[t][x]] = b[h.child[t][x]]
        BY <1>2, <2>3, <4>1, <4>4, NullFacts
      <4> QED BY <2>3, <3>2, <4>0, <4>1, <4>2, <4>3, <4>5
    <3> QED BY <3>1, <3>2
  <2>5. Blacks(k, K, c, p, e)
    BY <2>2, <2>3, <2>4 DEF Blacks, BlackAt
  <2> QED BY <2>5
<1>11. p # NULL => p \in K /\ e \in Sides /\ k.child[e][p] = NULL
  <2>1. CASE q = n
    <3>1. p = y /\ e \in Sides /\ h.child[e][n] = NULL
      BY <1>2, <2>1 DEF Lacking
    <3> QED BY <1>2, <1>5, <3>1 DEF K
  <2>2. CASE q # n /\ q # NULL
    <3>1. p = q /\ e \in Sides /\ h.child[e][q] = NULL /\ q \in M
      BY <2>2 DEF Lacking
    <3> QED BY <1>1, <1>2, <1>5, <1>9, <2>2, <3>1 DEF K
  <2>3. CASE q # n /\ q = NULL
    BY <2>3
  <2> QED BY <2>1, <2>2, <2>3
<1>12. Lacking(k, K, p, e)
  BY <1>4, <1>8, <1>10, <1>11 DEF Lacking, K
<1> QED BY <1>4, <1>12 DEF K

-----------------------------------------------------------------------------
(* Removal of a node.                                                      *)

(* A node that is forgotten has no links.                                  *)
Forgotten(h, k, n) ==
  /\ IsHeap(k) /\ k.root = h.root
  /\ \A t \in Sides, x \in Nodes : k.child[t][x] = IF x = n THEN NULL ELSE h.child[t][x]
  /\ \A x \in Nodes : k.parent[x] = IF x = n THEN NULL ELSE h.parent[x]
  /\ \A x \in Nodes : x # n => k.color[x] = h.color[x]

LEMMA ForgetFields ==
  ASSUME NEW h, IsHeap(h), NEW n \in Nodes
  PROVE  Forgotten(h, Forget(h, n), n)
<1> DEFINE k == Forget(h, n)
<1>1. /\ k.root = h.root
      /\ k.child = [s \in Sides |-> [h.child[s] EXCEPT ![n] = NULL]]
      /\ k.parent = [h.parent EXCEPT ![n] = NULL]
      /\ k.color = [h.color EXCEPT ![n] = "red"]
      /\ DOMAIN k = DOMAIN h /\ k = [f \in DOMAIN k |-> k[f]]
  BY Zenon DEF IsHeap, Forget
<1> HIDE DEF k
<1>2. IsHeap(k)
  <2>1. k.child \in [Sides -> [Nodes -> N0]]
    BY <1>1, NullFacts DEF IsHeap
  <2>2. k.parent \in [Nodes -> N0] /\ k.color \in [Nodes -> Colors]
    BY <1>1, NullFacts DEF IsHeap, Colors
  <2> QED BY <1>1, <2>1, <2>2 DEF IsHeap
<1> QED BY <1>1, <1>2 DEF Forgotten, IsHeap, k

LEMMA EraseSimpleFields ==
  ASSUME NEW h, NEW M, Shaped(h, M), Clean(h, M), Reds(h, M, NULL), NEW b, Blacks(h, M, b, NULL, "left"),
         NEW n \in M, \E s \in Sides : h.child[s][n] = NULL, NEW cb
  PROVE  LET v == EraseSimple(h, n, cb)
         IN  \E c : /\ OnlyChild(h, n, c) /\ Spliced(h, Forget(v.heap, n), n, c)
                    /\ v.parent = IF c = NULL /\ h.color[n] = "black" THEN h.parent[n] ELSE NULL
<1> DEFINE p == h.parent[n]
           c == IF h.child["left"][n] = NULL THEN h.child["right"][n] ELSE h.child["left"][n]
           i == rb_change_child(h, n, c, p)
           j == IF c = NULL THEN i ELSE rb_set_parent_color(i, c, p, h.color[n])
           l == augment_propagate(j, p, NULL, cb)
           k == Forget(l, n)
           v == EraseSimple(h, n, cb)
<1>1. v.heap = l /\ v.parent = IF c = NULL /\ h.color[n] = "black" THEN p ELSE NULL
  BY DEF EraseSimple
<1>2. IsHeap(h) /\ M \subseteq Nodes /\ n \in Nodes /\ n # NULL /\ "black" \in Colors
  BY ShapedHeap, NullFacts DEF Colors
<1>3. OnlyChild(h, n, c)
  <2>1. CASE h.child["left"][n] = NULL
    BY <2>1, SidesFacts DEF OnlyChild
  <2>2. CASE h.child["left"][n] # NULL
    <3>1. h.child["right"][n] = NULL
      BY <2>2 DEF Sides
    <3> QED BY <2>2, <3>1, SidesFacts DEF OnlyChild
  <2> QED BY <2>1, <2>2
<1> HIDE DEF c, v
<1>4. /\ c \in N0 /\ c # n
      /\ c # NULL => c \in M /\ c \in Nodes /\ h.parent[c] = n /\ h.root # c
  BY <1>3, OnlyChildFacts
<1>5. c # NULL => h.color[n] = "black"
  BY <1>3, OnlyChildColours
<1>6. p \in N0 /\ p # n /\ (p = NULL <=> h.root = n) /\ (p # NULL => p \in Nodes /\ \E t \in Sides : h.child[t][p] = n)
  <2>1. p \in N0
    BY <1>2, HeapTypes
  <2>2. h.root = n => p = NULL
    BY <1>2 DEF Shaped, Tree
  <2>3. h.root # n => p \in M /\ \E t \in Sides : h.child[t][p] = n
    BY <1>2 DEF Shaped, Tree
  <2>4. p # n
    <3> SUFFICES ASSUME p = n PROVE FALSE
      OBVIOUS
    <3>1. PICK t \in Sides : h.child[t][p] = n
      BY <1>2, <2>2, <2>3
    <3>2. h.child[t][n] = n
      BY <3>1
    <3>3. h.child[t][n] # n
      BY <1>2, <3>2, ChildFacts
    <3> QED BY <3>2, <3>3
  <2> QED BY <1>2, <2>1, <2>2, <2>3, <2>4, NullFacts
<1> HIDE DEF p
<1>7. ChangesChild(h, i, n, c, p)
  BY <1>2, <1>4, <1>6, ChangeChild
<1> HIDE DEF i
<1>8. PaintsAt(i, j, c, p, "black")
  <2>1. IsHeap(i)
    BY <1>7 DEF ChangesChild
  <2>2. CASE c = NULL
    BY <2>1, <2>2, NullFacts DEF PaintsAt, SameData
  <2>3. CASE c # NULL
    <3>1. j = rb_set_parent_color(i, c, p, "black")
      BY <1>5, <2>3
    <3> HIDE DEF j
    <3> QED BY <1>2, <1>4, <1>6, <2>1, <2>3, <3>1, SetParentColor
  <2> QED BY <2>2, <2>3
<1> HIDE DEF j
<1>9. SameLinks(j, l)
  BY <1>8, AugmentPropagate DEF PaintsAt
<1> HIDE DEF l
<1>10. Forgotten(l, k, n)
  BY <1>2, <1>9, ForgetFields DEF SameLinks
<1> HIDE DEF k
<1>11. Spliced(h, k, n, c)
  <2>1. k.root = IF h.root = n THEN c ELSE h.root
    BY <1>6, <1>7, <1>8, <1>9, <1>10 DEF ChangesChild, PaintsAt, SameLinks, Forgotten
  <2>2. ASSUME NEW t \in Sides, NEW x \in Nodes
        PROVE  k.child[t][x] = IF x = n THEN NULL ELSE IF h.child[t][x] = n THEN c ELSE h.child[t][x]
    <3>1. k.child[t][x] = IF x = n THEN NULL ELSE IF x = p /\ t = Below(h, n, p) THEN c ELSE h.child[t][x]
      BY <1>7, <1>8, <1>9, <1>10 DEF ChangesChild, PaintsAt, SameLinks, Forgotten
    <3>2. h.child[t][x] = n => x = p
      <4> SUFFICES ASSUME h.child[t][x] = n PROVE x = p
        OBVIOUS
      <4>1. x \in M
        BY <1>2 DEF Clean
      <4> QED BY <1>2, <4>1 DEF Shaped, Tree, p
    <3>3. x = p => (h.child[t][x] = n <=> t = Below(h, n, p))
      <4> SUFFICES ASSUME x = p PROVE h.child[t][x] = n <=> t = Below(h, n, p)
        OBVIOUS
      <4>1. p # NULL /\ \E u \in Sides : h.child[u][p] = n
        BY <1>6, NullFacts
      <4>2. p \in M
        BY <1>2, <4>1 DEF Clean
      <4>3. \A u \in Sides : h.child[u][p] = n => h.child[Opposite(u)][p] # n
        BY <1>2, <4>2 DEF Shaped, Tree
      <4> QED BY <4>1, <4>3 DEF Below, Sides, Opposite
    <3> QED BY <3>1, <3>2, <3>3
  <2>3. \A x \in Nodes : k.parent[x] = IF x = n THEN NULL ELSE IF x = c THEN p ELSE h.parent[x]
    BY <1>7, <1>8, <1>9, <1>10 DEF ChangesChild, PaintsAt, SameLinks, Forgotten
  <2>4. /\ \A x \in Nodes : x # n /\ x # c => k.color[x] = h.color[x]
        /\ c # NULL => k.color[c] = "black"
    BY <1>4, <1>7, <1>8, <1>9, <1>10 DEF ChangesChild, PaintsAt, SameLinks, Forgotten
  <2>5. IsHeap(k)
    BY <1>10 DEF Forgotten
  <2> QED BY <2>1, <2>2, <2>3, <2>4, <2>5 DEF Spliced, p
<1> QED BY <1>1, <1>3, <1>11 DEF k, p, v

(* The walk to the end of a side stays in the tree and ends.               *)
LEMMA ExtremeFacts ==
  ASSUME NEW h, NEW M, Shaped(h, M), Clean(h, M), NEW r, NEW B, Ranked(h, M, r, B),
         NEW s \in Sides, NEW x \in M
  PROVE  LET y == Extreme(h, x, s)
         IN  /\ y \in M /\ h.child[s][y] = NULL
             /\ y # x => h.parent[y] \in M /\ h.child[s][h.parent[y]] = y /\ r[h.parent[y]] <= r[x]
<1>1. IsHeap(h) /\ M \subseteq Nodes /\ B \in Nat /\ r \in [Nodes -> 0 .. B]
  BY ShapedHeap DEF Ranked
<1>2. \A z \in Nodes : h.child[s][z] # NULL => z \in M /\ h.child[s][z] \in M /\ h.child[s][z] \in Nodes
                                               /\ r[h.child[s][z]] < r[z] /\ h.parent[h.child[s][z]] = z
  <2> SUFFICES ASSUME NEW z \in Nodes, h.child[s][z] # NULL
               PROVE  z \in M /\ h.child[s][z] \in M /\ h.child[s][z] \in Nodes
                      /\ r[h.child[s][z]] < r[z] /\ h.parent[h.child[s][z]] = z
    OBVIOUS
  <2>1. z \in M
    BY DEF Clean
  <2> QED BY <2>1, ChildFacts DEF Ranked
<1> DEFINE T == {z \in Nodes : h.child[s][z] = NULL}
           lf == [z \in Nodes |-> IF h.child[s][z] = NULL THEN z ELSE h.child[s][z]]
           base == [z \in Nodes |-> z]
           step == [u \in Nodes \X Nodes \X Nodes |-> u[2]]
<1>3. lf \in [Nodes -> Nodes] /\ base \in [Nodes -> Nodes] /\ step \in [Nodes \X Nodes \X Nodes -> Nodes]
  BY <1>2
<1>4. \A z \in Nodes : z \notin T => r[lf[z]] < r[z]
  BY <1>2
<1>5. \E f \in [Nodes -> Nodes] : Unfolds(f, Nodes, T, lf, lf, base, step)
  <2> HIDE DEF T, lf, base, step
  <2> QED BY <1>1, <1>3, <1>4, RecursionExists
<1>6. PICK f \in [Nodes -> Nodes] : Unfolds(f, Nodes, T, lf, lf, base, step)
  BY <1>5
<1>7. ASSUME NEW z \in Nodes PROVE f[z] = IF h.child[s][z] = NULL THEN z ELSE f[h.child[s][z]]
  <2>1. f[z] = IF z \in T THEN base[z] ELSE step[<<z, f[lf[z]], f[lf[z]]>>]
    BY <1>6 DEF Unfolds
  <2> QED BY <1>2, <2>1
<1>8. f = [z \in Nodes |-> IF h.child[s][z] = NULL THEN z ELSE f[h.child[s][z]]]
  BY <1>7
<1> DEFINE g == CHOOSE down : down = [z \in Nodes |-> IF h.child[s][z] = NULL THEN z ELSE down[h.child[s][z]]]
<1>9. g = [z \in Nodes |-> IF h.child[s][z] = NULL THEN z ELSE g[h.child[s][z]]]
  BY <1>8
<1>10. Extreme(h, x, s) = g[x]
  BY DEF Extreme
<1> HIDE DEF g
<1> DEFINE Good(z) == /\ g[z] \in M /\ h.child[s][g[z]] = NULL
                      /\ g[z] # z => h.parent[g[z]] \in M /\ h.child[s][h.parent[g[z]]] = g[z] /\ r[h.parent[g[z]]] <= r[z]
           P == {z \in M : Good(z)}
<1>11. ASSUME NEW z \in M, \A w \in M : r[w] < r[z] => w \in P PROVE z \in P
  <2>1. z \in Nodes /\ r[z] \in Nat
    BY <1>1
  <2>2. g[z] = IF h.child[s][z] = NULL THEN z ELSE g[h.child[s][z]]
    BY <1>9, <2>1
  <2>3. CASE h.child[s][z] = NULL
    BY <2>2, <2>3
  <2>4. CASE h.child[s][z] # NULL
    <3> DEFINE w == h.child[s][z]
    <3>1. w \in M /\ r[w] < r[z] /\ h.parent[w] = z /\ r[w] \in Nat
      BY <1>1, <1>2, <2>1, <2>4
    <3>2. Good(w)
      BY <1>11, <3>1, Zenon
    <3>3. g[z] = g[w] /\ h.child[s][z] = w
      BY <2>2, <2>4
    <3>4. \A a \in M : r[a] <= r[w] => r[a] <= r[z]
      <4>1. \A a \in M : r[a] \in Nat
        BY <1>1
      <4> HIDE DEF w
      <4> QED BY <2>1, <3>1, <4>1
    <3> HIDE DEF w
    <3>5. CASE g[w] = w
      BY <2>1, <3>1, <3>2, <3>3, <3>5
    <3>6. CASE g[w] # w
      BY <3>2, <3>3, <3>4, <3>6
    <3> QED BY <3>5, <3>6
  <2> QED BY <2>3, <2>4
<1>12. \A z \in M : z \in P
  <2> HIDE DEF P
  <2>1. [z \in M |-> r[z]] \in [M -> Nat]
    BY <1>1
  <2> QED BY <1>11, <2>1, RankInduction, Zenon
<1> QED BY <1>10, <1>12

(* Where the successor y of n is, the leftmost node on its right.          *)
Successor(h, M, n, w, y, c, u, g, p) ==
  /\ w = h.child["right"][n] /\ y = Extreme(h, w, "left") /\ c = h.child["right"][y]
  /\ u = h.child["left"][n] /\ g = h.parent[n] /\ p = h.parent[y]

LEMMA SuccessorFacts ==
  ASSUME NEW h, NEW M, Shaped(h, M), Clean(h, M), NEW n \in M, \A s \in Sides : h.child[s][n] # NULL,
         NEW w, NEW y, NEW c, NEW u, NEW g, NEW p, Successor(h, M, n, w, y, c, u, g, p)
  PROVE  /\ y \in M /\ y \in Nodes /\ h.child["left"][y] = NULL /\ y # n /\ y # g /\ y # u /\ h.root # y
         /\ w \in M /\ w \in Nodes /\ h.parent[w] = n /\ w # n /\ u \in M /\ u \in Nodes /\ h.parent[u] = n /\ u # n /\ u # w
         /\ c \in N0 /\ c # y /\ c # n /\ c # w /\ c # u /\ (c # NULL => c \in M /\ h.parent[c] = y)
         /\ g \in N0 /\ g # n /\ (g = NULL <=> h.root = n) /\ (g # NULL => g \in M /\ \E t \in Sides : h.child[t][g] = n)
         /\ p \in M /\ p \in Nodes /\ p # y /\ p # g
         /\ w = y => p = n
         /\ w # y => p # n /\ h.child["left"][p] = y
<1> USE DEF Successor
<1>1. IsHeap(h) /\ M \subseteq Nodes /\ n \in Nodes /\ "left" \in Sides /\ "right" \in Sides /\ "left" # "right"
  BY ShapedHeap, SidesFacts
<1>2. PICK r, B : Ranked(h, M, r, B)
  BY DEF Shaped
<1>3. /\ r \in [Nodes -> Nat] /\ \A x \in M : r[x] \in Nat
      /\ \A x \in M, t \in Sides : h.child[t][x] # NULL => r[h.child[t][x]] < r[x]
  <2>1. B \in Nat /\ r \in [Nodes -> 0 .. B]
    BY <1>2 DEF Ranked
  <2> QED BY <1>1, <1>2, <2>1 DEF Ranked
<1>4. /\ w \in M /\ w \in Nodes /\ h.parent[w] = n /\ w # n /\ u \in M /\ u \in Nodes /\ h.parent[u] = n /\ u # n
      /\ r[w] < r[n] /\ w # NULL
  BY <1>1, <1>3, ChildFacts
<1>5. u # w
  <2>1. h.child["left"][n] # h.child[Opposite("left")][n]
    BY <1>1 DEF Shaped, Tree
  <2> QED BY <2>1, SidesFacts
<1>6. /\ y \in M /\ h.child["left"][y] = NULL
      /\ y # w => h.parent[y] \in M /\ h.child["left"][h.parent[y]] = y /\ r[h.parent[y]] <= r[w]
  BY <1>1, <1>2, <1>4, ExtremeFacts
<1>7. y # NULL /\ y \in Nodes
  BY <1>1, <1>6, NullFacts
<1>8. g \in N0 /\ g # n /\ (g = NULL <=> h.root = n) /\ (g # NULL => g \in M /\ r[n] < r[g] /\ \E t \in Sides : h.child[t][g] = n)
  <2>1. h.root = n => g = NULL
    BY <1>1, NullFacts DEF Shaped, Tree
  <2>2. h.root # n => g \in M /\ \E t \in Sides : h.child[t][g] = n
    BY DEF Shaped, Tree
  <2>3. g \in N0
    BY <1>1, HeapTypes
  <2>4. h.root # n => r[n] < r[g]
    BY <1>1, <1>3, <2>2, NullFacts
  <2> QED BY <1>1, <1>3, <2>1, <2>2, <2>3, <2>4, NullFacts
<1>9. CASE y = w
  <2>1. p = n
    BY <1>4, <1>9
  <2>2. y # g
    BY <1>3, <1>4, <1>7, <1>8, <1>9
  <2>3. y # n /\ y # u /\ h.root # y
    BY <1>1, <1>4, <1>5, <1>9, NullFacts DEF Shaped, Tree
  <2>4. c \in N0 /\ (c # NULL => c \in M /\ h.parent[c] = y /\ c # y /\ c \in Nodes)
    BY <1>1, <1>6, <1>7, ChildFacts, HeapTypes
  <2>5. c # y /\ c # n /\ c # w /\ c # u
    <3>1. c # n
      <4>1. c # NULL => r[c] < r[y]
        BY <1>1, <1>3, <1>6
      <4> QED BY <1>1, <1>3, <1>4, <1>9, <2>4, <4>1, NullFacts
    <3>2. c # u
      BY <1>1, <1>4, <2>3, <2>4, NullFacts
    <3> QED BY <1>7, <1>9, <2>4, <3>1, <3>2
  <2> QED BY <1>1, <1>4, <1>5, <1>6, <1>7, <1>8, <1>9, <2>1, <2>2, <2>3, <2>4, <2>5
<1>10. CASE y # w
  <2>1. p \in M /\ p \in Nodes /\ h.child["left"][p] = y /\ r[p] <= r[w]
    BY <1>1, <1>6, <1>10
  <2>2. r[y] < r[p] /\ r[y] \in Nat /\ r[p] \in Nat /\ r[w] \in Nat /\ r[n] \in Nat
    BY <1>1, <1>3, <1>4, <1>6, <1>7, <2>1
  <2>3. r[y] < r[n] /\ r[p] < r[n]
    BY <1>4, <2>1, <2>2
  <2>4. p # n /\ p # y /\ y # n
    BY <2>2, <2>3
  <2>5. y # g /\ p # g
    <3>1. g = NULL => y # g /\ p # g
      BY <1>7, <2>1, NullFacts
    <3>2. g # NULL => r[g] \in Nat /\ r[n] < r[g]
      BY <1>1, <1>3, <1>8
    <3>3. g # NULL => r[y] < r[g] /\ r[p] < r[g]
      BY <2>2, <2>3, <3>2
    <3>4. g # NULL => y # g /\ p # g
      BY <2>2, <3>2, <3>3
    <3> QED BY <3>1, <3>4
  <2>6. y # u
    BY <1>4, <2>4
  <2>7. h.root # y
    BY <1>1, <1>7, <2>1, NullFacts DEF Shaped, Tree
  <2>8. c \in N0 /\ (c # NULL => c \in M /\ h.parent[c] = y /\ c # y /\ r[c] < r[y] /\ r[c] \in Nat)
    BY <1>1, <1>3, <1>6, <1>7, ChildFacts, HeapTypes
  <2>9. c # y /\ c # n /\ c # w /\ c # u
    <3>1. c # NULL => c # n
      BY <2>2, <2>3, <2>8
    <3> QED BY <1>1, <1>4, <1>7, <2>4, <2>8, <3>1, NullFacts
  <2> QED BY <1>1, <1>4, <1>5, <1>6, <1>7, <1>8, <1>10, <2>1, <2>4, <2>5, <2>6, <2>7, <2>8, <2>9
<1> QED BY <1>9, <1>10

LEMMA SpliceExists ==
  ASSUME NEW h, IsHeap(h), NEW n \in Nodes, NEW c \in N0
  PROVE  \E k : Spliced(h, k, n, c)
<1> DEFINE root == IF h.root = n THEN c ELSE h.root
           child == [t \in Sides |-> [x \in Nodes |->
                       IF x = n THEN NULL ELSE IF h.child[t][x] = n THEN c ELSE h.child[t][x]]]
           parent_ == [x \in Nodes |-> IF x = n THEN NULL ELSE IF x = c THEN h.parent[n] ELSE h.parent[x]]
           color == [x \in Nodes |-> IF x = c THEN "black" ELSE h.color[x]]
           k == [h EXCEPT !.root = root, !.child = child, !.parent = parent_, !.color = color]
<1>1. /\ root \in N0 /\ child \in [Sides -> [Nodes -> N0]]
      /\ parent_ \in [Nodes -> N0] /\ color \in [Nodes -> Colors]
  BY NullFacts DEF IsHeap, Colors
<1>2. /\ \A t \in Sides, x \in Nodes :
           child[t][x] = IF x = n THEN NULL ELSE IF h.child[t][x] = n THEN c ELSE h.child[t][x]
      /\ \A x \in Nodes : parent_[x] = IF x = n THEN NULL ELSE IF x = c THEN h.parent[n] ELSE h.parent[x]
      /\ \A x \in Nodes : color[x] = IF x = c THEN "black" ELSE h.color[x]
  OBVIOUS
<1>3. root = IF h.root = n THEN c ELSE h.root
  OBVIOUS
<1> HIDE DEF root, child, parent_, color
<1>4. /\ k.root = root /\ k.child = child /\ k.parent = parent_ /\ k.color = color
      /\ DOMAIN k = DOMAIN h /\ k = [f \in DOMAIN k |-> k[f]]
  BY DEF IsHeap
<1> HIDE DEF k
<1>5. IsHeap(k)
  BY <1>1, <1>4 DEF IsHeap
<1>6. c # NULL => c \in Nodes
  BY DEF N0
<1>7. Spliced(h, k, n, c)
  BY <1>2, <1>3, <1>4, <1>5, <1>6 DEF Spliced
<1> QED BY <1>7

(* The successor has left its place.                                       *)
Opened(h, k, w, y, c, p) ==
  /\ IsHeap(k) /\ k.root = h.root /\ k.color = h.color
  /\ \A t \in Sides, x \in Nodes :
       k.child[t][x] = IF w # y /\ t = "left" /\ x = p THEN c
                       ELSE IF w # y /\ t = "right" /\ x = y THEN w ELSE h.child[t][x]
  /\ \A x \in Nodes : k.parent[x] = IF w # y /\ x = w THEN y ELSE h.parent[x]

LEMMA SetThree ==
  ASSUME NEW h, IsHeap(h), NEW w \in Nodes, NEW y \in Nodes, NEW c \in N0, NEW p \in Nodes, w # y, p # y
  PROVE  Opened(h, [h EXCEPT !.child["left"][p] = c, !.child["right"][y] = w, !.parent[w] = y], w, y, c, p)
<1> DEFINE i == [h EXCEPT !.child["left"][p] = c]
           j == [i EXCEPT !.child["right"][y] = w]
           k == [j EXCEPT !.parent[w] = y]
<1>1. k = [h EXCEPT !.child["left"][p] = c, !.child["right"][y] = w, !.parent[w] = y]
  OBVIOUS
<1>2. "left" \in Sides /\ "right" \in Sides /\ w \in N0 /\ y \in N0
  BY NullFacts, SidesFacts
<1>3. Relinks(h, i, "left", p, c)
  BY <1>2, SetLink
<1> HIDE DEF i
<1>4. Relinks(i, j, "right", y, w)
  BY <1>2, <1>3, SetLink DEF Relinks
<1> HIDE DEF j
<1>5. IsHeap(j)
  BY <1>4 DEF Relinks
<1>6. /\ IsHeap(k) /\ k.root = j.root /\ k.child = j.child /\ k.color = j.color
      /\ \A x \in Nodes : k.parent[x] = IF x = w THEN y ELSE j.parent[x]
  BY <1>2, <1>5, SetParent
<1> HIDE DEF k
<1>7. Opened(h, k, w, y, c, p)
  BY <1>3, <1>4, <1>6 DEF Relinks, Opened
<1> QED BY <1>1, <1>7

LEMMA EraseInnerFields ==
  ASSUME NEW h, NEW M, Shaped(h, M), Clean(h, M), NEW n \in M, \A s \in Sides : h.child[s][n] # NULL, NEW cb
  PROVE  LET v == EraseInner(h, n, cb)
         IN  \E y, c, j :
               /\ y \in M /\ y \in Nodes /\ y # n
               /\ OnlyChild(h, y, c) /\ Spliced(h, j, y, c) /\ Replaced(j, Forget(v.heap, n), n, y)
               /\ v.parent = IF c = NULL /\ h.color[y] = "black"
                             THEN (IF h.parent[y] = n THEN y ELSE h.parent[y]) ELSE NULL
<1> DEFINE w == h.child["right"][n]
           y == Extreme(h, w, "left")
           c == h.child["right"][y]
           u == h.child["left"][n]
           g == h.parent[n]
           q == h.parent[y]
           p == IF y = w THEN y ELSE h.parent[y]
           d == h.color[n]
           o3 == [h EXCEPT !.child["left"][p] = c, !.child["right"][y] = w, !.parent[w] = y]
           o2 == augment_copy(o3, n, y, cb)
           o1 == augment_propagate(o2, p, y, cb)
           out == IF y = w THEN augment_copy(h, n, y, cb) ELSE o1
           a1 == [out EXCEPT !.child["left"][y] = u]
           a2 == [out EXCEPT !.child["left"][y] = u, !.parent[u] = y]
           a3 == rb_change_child(a2, n, y, g)
           a4 == rb_set_parent_color(a3, y, g, d)
           a5 == AdoptBlack(a4, c, p)
           l == augment_propagate(a5, y, NULL, cb)
           k == Forget(l, n)
           v == EraseInner(h, n, cb)
<1>1. v.heap = l /\ v.parent = IF c = NULL /\ h.color[y] = "black" THEN p ELSE NULL
  <2>1. v = [heap |-> l, parent |-> IF c = NULL /\ h.color[y] = "black" THEN p ELSE NULL]
    BY DEF EraseInner
  <2> HIDE DEF v, l, y, p, c
  <2> QED BY <2>1
<1>2. Successor(h, M, n, w, y, c, u, g, q)
  BY DEF Successor
<1>3. p = IF y = w THEN y ELSE q
  OBVIOUS
<1>4. IsHeap(h) /\ M \subseteq Nodes /\ n \in Nodes /\ n # NULL /\ "left" \in Sides /\ "right" \in Sides /\ "left" # "right"
  BY ShapedHeap, SidesFacts, NullFacts
<1> HIDE DEF y, v
<1>5. d \in Colors
  BY <1>4, HeapTypes
<1> HIDE DEF w, c, u, g, q, p, d
<1>6. /\ y \in M /\ y \in Nodes /\ h.child["left"][y] = NULL /\ y # n /\ y # g /\ y # u /\ h.root # y
      /\ w \in M /\ w \in Nodes /\ h.parent[w] = n /\ w # n /\ u \in M /\ u \in Nodes /\ h.parent[u] = n /\ u # n /\ u # w
      /\ c \in N0 /\ c # y /\ c # n /\ c # w /\ c # u /\ (c # NULL => c \in M /\ h.parent[c] = y)
      /\ g \in N0 /\ g # n /\ (g = NULL <=> h.root = n) /\ (g # NULL => g \in M /\ \E t \in Sides : h.child[t][g] = n)
      /\ q \in M /\ q \in Nodes /\ q # y /\ q # g
      /\ w = y => q = n
      /\ w # y => q # n /\ h.child["left"][q] = y
  BY <1>2, SuccessorFacts
<1>7. p \in Nodes /\ p \in N0 /\ y \in N0 /\ u \in N0 /\ p # g /\ (w # y => p = q) /\ (w = y => p = y)
  BY <1>3, <1>6, NullFacts
<1>8. Opened(h, out, w, y, c, p)
  <2>1. CASE y = w
    <3>1. SameLinks(h, out)
      BY <1>4, <2>1, AugmentCopy
    <3> HIDE DEF out
    <3> QED BY <2>1, <3>1 DEF SameLinks, Opened
  <2>2. CASE y # w
    <3>1. Opened(h, o3, w, y, c, p)
      BY <1>4, <1>6, <1>7, <2>2, SetThree, Zenon
    <3> HIDE DEF o3
    <3>2. SameLinks(o3, o2)
      BY <3>1, AugmentCopy DEF Opened
    <3> HIDE DEF o2
    <3>3. SameLinks(o2, o1)
      BY <3>2, AugmentPropagate DEF SameLinks
    <3> HIDE DEF o1
    <3>4. out = o1
      BY <2>2
    <3> HIDE DEF out
    <3> QED BY <3>1, <3>2, <3>3, <3>4 DEF SameLinks, Opened
  <2> QED BY <2>1, <2>2
<1> HIDE DEF out
<1>9. Relinks(out, a1, "left", y, u)
  BY <1>4, <1>6, <1>7, <1>8, SetLink DEF Opened
<1>9a. a2 = [a1 EXCEPT !.parent[u] = y]
  OBVIOUS
<1> HIDE DEF a1, a2
<1>10. /\ IsHeap(a2) /\ a2.root = a1.root /\ a2.child = a1.child /\ a2.color = a1.color
       /\ \A x \in Nodes : a2.parent[x] = IF x = u THEN y ELSE a1.parent[x]
  BY <1>6, <1>7, <1>9, <1>9a, SetParent DEF Relinks
<1>11. ChangesChild(a2, a3, n, y, g)
  BY <1>6, <1>7, <1>10, ChangeChild
<1> HIDE DEF a3
<1>12. PaintsAt(a3, a4, y, g, d)
  BY <1>5, <1>6, <1>11, SetParentColor DEF ChangesChild
<1> HIDE DEF a4
<1>13. PaintsAt(a4, a5, c, p, "black")
  <2>1. IsHeap(a4)
    BY <1>12 DEF PaintsAt
  <2> QED BY <1>6, <1>7, <2>1, Adopts
<1> HIDE DEF a5
<1>14. SameLinks(a5, l)
  BY <1>13, AugmentPropagate DEF PaintsAt
<1> HIDE DEF l
<1>15. Forgotten(l, k, n)
  BY <1>4, <1>14, ForgetFields DEF SameLinks
<1> HIDE DEF k
<1>16. k.root = IF g = NULL THEN y ELSE h.root
  BY <1>8, <1>9, <1>10, <1>11, <1>12, <1>13, <1>14, <1>15
     DEF Opened, Relinks, ChangesChild, PaintsAt, SameLinks, Forgotten
<1>17. ASSUME g # NULL PROVE Below(a2, n, g) = Below(h, n, g)
  <2>1. g \in Nodes
    BY <1>4, <1>6, <1>17
  <2>2. out.child["left"][g] = h.child["left"][g]
    BY <1>4, <1>6, <1>7, <1>8, <2>1 DEF Opened
  <2>3. a2.child["left"][g] = h.child["left"][g]
    BY <1>4, <1>6, <1>9, <1>10, <2>1, <2>2 DEF Relinks
  <2> QED BY <2>3 DEF Below
<1>18. ASSUME NEW t \in Sides, NEW x \in Nodes
       PROVE  k.child[t][x] = IF x = n THEN NULL ELSE IF x = g /\ t = Below(h, n, g) THEN y
                              ELSE IF t = "left" /\ x = y THEN u ELSE out.child[t][x]
  <2>1. x = g => Below(a2, n, g) = Below(h, n, g)
    BY <1>17, NullFacts
  <2> QED BY <1>9, <1>10, <1>11, <1>12, <1>13, <1>14, <1>15, <2>1
     DEF Relinks, ChangesChild, PaintsAt, SameLinks, Forgotten
<1>19. ASSUME NEW x \in Nodes
       PROVE  k.parent[x] = IF x = n THEN NULL ELSE IF x = c THEN p ELSE IF x = y THEN g
                            ELSE IF x = u THEN y ELSE out.parent[x]
  BY <1>9, <1>10, <1>11, <1>12, <1>13, <1>14, <1>15
     DEF Relinks, ChangesChild, PaintsAt, SameLinks, Forgotten
<1>20. ASSUME NEW x \in Nodes, x # n
       PROVE  k.color[x] = IF x = c THEN "black" ELSE IF x = y THEN d ELSE h.color[x]
  BY <1>8, <1>9, <1>10, <1>11, <1>12, <1>13, <1>14, <1>15, <1>20
     DEF Opened, Relinks, ChangesChild, PaintsAt, SameLinks, Forgotten
<1>21. OnlyChild(h, y, c)
  BY <1>4, <1>6, SidesFacts DEF OnlyChild, c
<1>22. PICK j : Spliced(h, j, y, c)
  BY <1>4, <1>6, SpliceExists
<1>23. Replaced(j, k, n, y)
  <2>1. IsHeap(k)
    BY <1>15 DEF Forgotten
  <2>2. k.root = IF j.root = n THEN y ELSE j.root
    <3>1. j.root = h.root
      BY <1>6, <1>22 DEF Spliced
    <3> QED BY <1>6, <1>16, <3>1
  <2>3. ASSUME NEW t \in Sides, NEW x \in Nodes
        PROVE  k.child[t][x] = IF x = n THEN NULL ELSE IF x = y THEN j.child[t][n]
                               ELSE IF j.child[t][x] = n THEN y ELSE j.child[t][x]
    <3>1. t = "left" \/ t = "right"
      BY DEF Sides
    <3>2. /\ k.child[t][x] = IF x = n THEN NULL ELSE IF x = g /\ t = Below(h, n, g) THEN y
                             ELSE IF t = "left" /\ x = y THEN u ELSE out.child[t][x]
          /\ out.child[t][x] = IF w # y /\ t = "left" /\ x = p THEN c
                               ELSE IF w # y /\ t = "right" /\ x = y THEN w ELSE h.child[t][x]
      BY <1>8, <1>18 DEF Opened
    <3>3. CASE x = n
      BY <3>2, <3>3
    <3>4. CASE x = y
      <4>1. j.child[t][n] = IF h.child[t][n] = y THEN c ELSE h.child[t][n]
        BY <1>4, <1>6, <1>22 DEF Spliced
      <4>2. h.child["left"][n] = u /\ h.child["right"][n] = w /\ h.child["right"][y] = c
        BY DEF u, w, c
      <4>3. CASE t = "left"
        BY <1>6, <3>2, <3>4, <4>1, <4>2, <4>3
      <4>4. CASE t = "right"
        <5>1. k.child[t][x] = out.child[t][x]
          BY <1>4, <1>6, <3>2, <3>4, <4>4
        <5>2. out.child[t][x] = IF w # y THEN w ELSE c
          BY <1>4, <3>2, <3>4, <4>2, <4>4
        <5> QED BY <1>6, <3>4, <4>1, <4>2, <4>4, <5>1, <5>2
      <4> QED BY <3>1, <4>3, <4>4
    <3>5. CASE x # n /\ x # y
      <4>1. j.child[t][x] = IF h.child[t][x] = y THEN c ELSE h.child[t][x]
        BY <1>22, <3>5 DEF Spliced
      <4>2. h.child[t][x] = n <=> x = g /\ t = Below(h, n, g)
        <5>1. h.child[t][x] = n => x = g
          <6> SUFFICES ASSUME h.child[t][x] = n PROVE x = g
            OBVIOUS
          <6>1. x \in M
            BY <1>4 DEF Clean
          <6> QED BY <1>4, <6>1, ChildFacts DEF g
        <5>2. x = g => (h.child[t][x] = n <=> t = Below(h, n, g))
          <6> SUFFICES ASSUME x = g PROVE h.child[t][x] = n <=> t = Below(h, n, g)
            OBVIOUS
          <6>1. g \in M /\ \E s \in Sides : h.child[s][g] = n
            BY <1>6, NullFacts
          <6>2. \A s \in Sides : h.child[s][g] = n => h.child[Opposite(s)][g] # n
            BY <1>4, <6>1 DEF Shaped, Tree
          <6> QED BY <6>1, <6>2 DEF Below, Sides, Opposite
        <5> QED BY <5>1, <5>2
      <4>3. h.child[t][x] = y <=> w # y /\ t = "left" /\ x = p
        <5>1. h.child[t][x] = y => x = q
          <6> SUFFICES ASSUME h.child[t][x] = y PROVE x = q
            OBVIOUS
          <6>1. x \in M
            BY <1>6, NullFacts DEF Clean
          <6> QED BY <1>6, <6>1, NullFacts, ChildFacts DEF q
        <5>2. CASE w = y
          BY <1>6, <3>5, <5>1, <5>2
        <5>3. CASE w # y
          <6>1. h.child["right"][q] # y
            <7>1. h.child["left"][q] # h.child[Opposite("left")][q]
              BY <1>4, <1>6, <5>3, NullFacts DEF Shaped, Tree
            <7> QED BY <1>6, <5>3, <7>1, SidesFacts
          <6> QED BY <1>6, <1>7, <3>1, <5>1, <5>3, <6>1
        <5> QED BY <5>2, <5>3
      <4>4. CASE h.child[t][x] = n
        BY <1>6, <3>2, <3>5, <4>1, <4>2, <4>4
      <4>5. CASE h.child[t][x] = y
        BY <1>6, <3>2, <3>5, <4>1, <4>2, <4>3, <4>5
      <4>6. CASE h.child[t][x] # n /\ h.child[t][x] # y
        BY <3>2, <3>5, <4>1, <4>2, <4>3, <4>6
      <4> QED BY <4>4, <4>5, <4>6
    <3> QED BY <3>3, <3>4, <3>5
  <2>4. ASSUME NEW x \in Nodes
        PROVE  k.parent[x] = IF x = n THEN NULL ELSE IF x = y THEN j.parent[n]
                             ELSE IF j.parent[x] = n THEN y ELSE j.parent[x]
    <3>1. /\ k.parent[x] = IF x = n THEN NULL ELSE IF x = c THEN p ELSE IF x = y THEN g
                           ELSE IF x = u THEN y ELSE out.parent[x]
          /\ out.parent[x] = IF w # y /\ x = w THEN y ELSE h.parent[x]
      BY <1>8, <1>19 DEF Opened
    <3>2. j.parent[n] = g
      BY <1>4, <1>6, <1>22 DEF Spliced, g
    <3>3. CASE x = n
      BY <3>1, <3>3
    <3>4. CASE x = y
      BY <1>6, <3>1, <3>2, <3>4
    <3>5. CASE x # n /\ x # y
      <4>1. j.parent[x] = IF x = c THEN q ELSE h.parent[x]
        BY <1>22, <3>5 DEF Spliced, q
      <4>2. CASE x = c
        BY <1>6, <1>7, <3>1, <3>5, <4>1, <4>2
      <4>3. CASE x # c
        <5>1. h.parent[x] = n => x = u \/ x = w
          <6> SUFFICES ASSUME h.parent[x] = n PROVE x = u \/ x = w
            OBVIOUS
          <6>1. x \in M
            BY <1>4 DEF Clean
          <6>2. x # h.root
            BY <1>4, <6>1, NullFacts DEF Shaped, Tree
          <6>3. PICK t \in Sides : h.child[t][n] = x
            BY <6>1, <6>2 DEF Shaped, Tree
          <6> QED BY <6>3 DEF Sides, u, w
        <5> QED BY <1>6, <3>1, <3>5, <4>1, <4>3, <5>1
      <4> QED BY <4>2, <4>3
    <3> QED BY <3>3, <3>4, <3>5
  <2>5. ASSUME NEW x \in Nodes, x # n
        PROVE  k.color[x] = IF x = y THEN j.color[n] ELSE j.color[x]
    <3>1. k.color[x] = IF x = c THEN "black" ELSE IF x = y THEN d ELSE h.color[x]
      BY <1>20, <2>5
    <3>2. j.color[n] = d
      BY <1>4, <1>6, <1>22 DEF Spliced, d
    <3>3. x # y => j.color[x] = IF x = c THEN "black" ELSE h.color[x]
      BY <1>22, NullFacts DEF Spliced
    <3> QED BY <1>6, <3>1, <3>2, <3>3
  <2> QED BY <2>1, <2>2, <2>3, <2>4, <2>5 DEF Replaced
<1>24. p = IF h.parent[y] = n THEN y ELSE h.parent[y]
  BY <1>3, <1>6 DEF q
<1>25. v.parent = IF c = NULL /\ h.color[y] = "black"
                  THEN (IF h.parent[y] = n THEN y ELSE h.parent[y]) ELSE NULL
  BY <1>1, <1>24
<1> QED BY <1>1, <1>6, <1>21, <1>22, <1>23, <1>25 DEF k, v

LEMMA EraseNodeKeeps ==
  ASSUME NEW h, NEW M, Balanced(h, M), Clean(h, M), NEW n \in M, NEW cb
  PROVE  LET v == EraseNode(h, n, cb)
             k == Forget(v.heap, n)
         IN  /\ Clean(k, M \ {n})
             /\ v.parent = NULL => Balanced(k, M \ {n})
             /\ v.parent # NULL => Erasing(k, M \ {n}, NULL, v.parent)
<1> DEFINE v == EraseNode(h, n, cb)
           k == Forget(v.heap, n)
<1>1. Shaped(h, M) /\ Reds(h, M, NULL) /\ n \in Nodes /\ M \subseteq Nodes
  BY ShapedHeap DEF Balanced
<1>2. PICK b : Blacks(h, M, b, NULL, "left")
  BY DEF Balanced
<1> SUFFICES Clean(k, M \ {n}) /\ \E e : Lacking(k, M \ {n}, v.parent, e)
  BY LackingMeans
<1>3. CASE \E s \in Sides : h.child[s][n] = NULL
  <2>1. v = EraseSimple(h, n, cb)
    BY <1>3 DEF EraseNode
  <2> HIDE DEF v
  <2>2. PICK c : /\ OnlyChild(h, n, c) /\ Spliced(h, k, n, c)
                 /\ v.parent = IF c = NULL /\ h.color[n] = "black" THEN h.parent[n] ELSE NULL
    BY <1>1, <1>2, <1>3, <2>1, EraseSimpleFields
  <2> HIDE DEF k
  <2> QED BY <2>2, SpliceKeeps
<1>4. CASE ~ \E s \in Sides : h.child[s][n] = NULL
  <2>1. v = EraseInner(h, n, cb)
    BY <1>4 DEF EraseNode
  <2> HIDE DEF v
  <2>2. PICK y, c, j :
          /\ y \in M /\ y \in Nodes /\ y # n
          /\ OnlyChild(h, y, c) /\ Spliced(h, j, y, c) /\ Replaced(j, k, n, y)
          /\ v.parent = IF c = NULL /\ h.color[y] = "black"
                        THEN (IF h.parent[y] = n THEN y ELSE h.parent[y]) ELSE NULL
    BY <1>1, <1>4, <2>1, EraseInnerFields
  <2> HIDE DEF k
  <2>3. PICK q : q = IF c = NULL /\ h.color[y] = "black" THEN h.parent[y] ELSE NULL
    OBVIOUS
  <2>4. Clean(j, M \ {y}) /\ \E e : Lacking(j, M \ {y}, q, e)
    BY <2>2, <2>3, SpliceKeeps
  <2>5. PICK e : Lacking(j, M \ {y}, q, e)
    BY <2>4
  <2>6. n \in M \ {y} /\ y \notin M \ {y} /\ ((M \ {y}) \ {n}) \cup {y} = M \ {n}
    BY <2>2
  <2>7. Clean(k, M \ {n}) /\ Lacking(k, M \ {n}, IF q = n THEN y ELSE q, e)
    <3>1. PICK L : L = M \ {y}
      OBVIOUS
    <3>2. Clean(k, (L \ {n}) \cup {y}) /\ Lacking(k, (L \ {n}) \cup {y}, IF q = n THEN y ELSE q, e)
      BY <2>2, <2>4, <2>5, <2>6, <3>1, ReplaceKeeps
    <3> QED BY <2>6, <3>1, <3>2
  <2>8. v.parent = IF q = n THEN y ELSE q
    BY <1>1, <2>2, <2>3, NullFacts
  <2> QED BY <2>7, <2>8
<1> QED BY <1>3, <1>4

-----------------------------------------------------------------------------
(* Hanging a leaf.                                                         *)

(* A sequence with one more node in front.                                 *)
LEMMA PushFront ==
  ASSUME NEW S, NEW x \in S, NEW t \in Seq(S)
  PROVE  /\ <<x>> \o t \in Seq(S) /\ <<x>> \o t # <<>> /\ Len(<<x>> \o t) = Len(t) + 1
         /\ Last(<<x>> \o t) = IF t = <<>> THEN x ELSE Last(t)
<1>1. <<x>> \in Seq(S) /\ Len(<<x>>) = 1 /\ <<x>>[1] = x
  OBVIOUS
<1>2. /\ <<x>> \o t \in Seq(S) /\ Len(<<x>> \o t) = Len(t) + 1 /\ Len(t) \in Nat
      /\ \A i \in 1 .. Len(t) + 1 : (<<x>> \o t)[i] = IF i <= 1 THEN <<x>>[i] ELSE t[i - 1]
  <2>1. Len(<<x>> \o t) = Len(<<x>>) + Len(t)
    BY <1>1, ConcatProperties
  <2>2. \A i \in 1 .. Len(<<x>>) + Len(t) : (<<x>> \o t)[i] = IF i <= Len(<<x>>) THEN <<x>>[i] ELSE t[i - Len(<<x>>)]
    BY <1>1, ConcatProperties
  <2>3. <<x>> \o t \in Seq(S) /\ Len(t) \in Nat
    BY <1>1, ConcatProperties, LenProperties
  <2> QED BY <1>1, <2>1, <2>2, <2>3
<1>3. <<x>> \o t # <<>>
  <2>1. Len(<<>>) = 0
    OBVIOUS
  <2> QED BY <1>2, <2>1
<1>4. CASE t = <<>>
  <2>1. Len(t) = 0
    BY <1>4
  <2>2. Last(<<x>> \o t) = (<<x>> \o t)[1]
    BY <1>2, <2>1 DEF Last
  <2> QED BY <1>1, <1>2, <1>3, <1>4, <2>1, <2>2
<1>5. CASE t # <<>>
  <2>1. Len(t) # 0 /\ Len(t) \in Nat
    BY <1>5, EmptySeq
  <2>2. (<<x>> \o t)[Len(t) + 1] = t[Len(t)]
    BY <1>2, <2>1
  <2>3. Last(<<x>> \o t) = Last(t)
    BY <1>2, <2>2 DEF Last
  <2> QED BY <1>2, <1>3, <1>5, <2>3
<1> QED BY <1>4, <1>5

(* The search for the place of a new node ends at a NULL link.             *)
LEMMA DescentFacts ==
  ASSUME NEW h, NEW M, Shaped(h, M), Clean(h, M), NEW start
  PROVE  LET path == Descent(h, start)
         IN  /\ path = <<>> <=> h.root = NULL
             /\ path # <<>> => Last(path) \in M /\ h.child[Turn(h, start, Last(path))][Last(path)] = NULL
<1>1. PICK r, B : Ranked(h, M, r, B)
  BY DEF Shaped
<1>2. IsHeap(h) /\ M \subseteq Nodes /\ B \in Nat /\ r \in [Nodes -> 0 .. B]
  BY <1>1, ShapedHeap DEF Ranked
<1> DEFINE to(x) == h.child[Turn(h, start, x)][x]
<1>3. \A x \in Nodes : Turn(h, start, x) \in Sides
  BY DEF Turn, Sides
<1>4. \A x \in Nodes : to(x) \in N0 /\ (to(x) # NULL => x \in M /\ to(x) \in M /\ to(x) \in Nodes /\ r[to(x)] < r[x])
  <2> SUFFICES ASSUME NEW x \in Nodes
               PROVE  to(x) \in N0 /\ (to(x) # NULL => x \in M /\ to(x) \in M /\ to(x) \in Nodes /\ r[to(x)] < r[x])
    OBVIOUS
  <2>1. to(x) \in N0
    BY <1>2, <1>3, HeapTypes
  <2>2. ASSUME to(x) # NULL PROVE x \in M
    BY <1>3, <2>2 DEF Clean
  <2>3. ASSUME to(x) # NULL PROVE to(x) \in M /\ to(x) \in Nodes /\ r[to(x)] < r[x]
    BY <1>1, <1>3, <2>2, <2>3, ChildFacts DEF Ranked
  <2> QED BY <2>1, <2>2, <2>3
<1> DEFINE S == Seq(N0)
           lf == [x \in N0 |-> IF x = NULL THEN NULL ELSE to(x)]
           r0 == [x \in N0 |-> IF x = NULL THEN 0 ELSE r[x] + 1]
           base == [x \in N0 |-> <<>>]
           step == [u \in N0 \X S \X S |-> <<u[1]>> \o u[2]]
<1>5. /\ lf \in [N0 -> N0] /\ base \in [N0 -> S] /\ r0 \in [N0 -> 0 .. B + 1] /\ B + 1 \in Nat
      /\ \A x \in N0 : x \notin {NULL} => r0[lf[x]] < r0[x]
  <2>1. \A x \in N0 : x # NULL => x \in Nodes
    BY DEF N0
  <2>2. lf \in [N0 -> N0]
    BY <1>4, <2>1, NullFacts
  <2>3. r0 \in [N0 -> 0 .. B + 1] /\ B + 1 \in Nat
    BY <1>2, <2>1
  <2>4. \A x \in Nodes : r0[x] = r[x] + 1 /\ r[x] \in Nat /\ lf[x] = to(x)
    BY <1>2, NullFacts
  <2>5. r0[NULL] = 0
    BY NullFacts
  <2>6. base \in [N0 -> S]
    OBVIOUS
  <2> HIDE DEF lf, r0, S, base, to
  <2>7. ASSUME NEW x \in Nodes PROVE r0[lf[x]] < r0[x]
    <3>1. CASE to(x) = NULL
      BY <2>4, <2>5, <3>1
    <3>2. CASE to(x) # NULL
      BY <1>4, <2>4, <3>2
    <3> QED BY <3>1, <3>2
  <2> QED BY <2>1, <2>2, <2>3, <2>6, <2>7
<1>6. step \in [N0 \X S \X S -> S]
  <2> SUFFICES ASSUME NEW u \in N0 \X S \X S PROVE <<u[1]>> \o u[2] \in S
    OBVIOUS
  <2>1. u[1] \in N0 /\ u[2] \in Seq(N0)
    OBVIOUS
  <2> QED BY <2>1, PushFront
<1>7. \E f \in [N0 -> S] : Unfolds(f, N0, {NULL}, lf, lf, base, step)
  <2> HIDE DEF S, lf, base, step, r0
  <2> QED BY <1>5, <1>6, RecursionExists
<1>8. PICK f \in [N0 -> S] : Unfolds(f, N0, {NULL}, lf, lf, base, step)
  BY <1>7
<1>9. ASSUME NEW x \in N0 PROVE f[x] = IF x = NULL THEN <<>> ELSE <<x>> \o f[to(x)]
  <2>1. f[x] = IF x \in {NULL} THEN base[x] ELSE step[<<x, f[lf[x]], f[lf[x]]>>]
    BY <1>8 DEF Unfolds
  <2>2. f[lf[x]] \in S
    BY <1>5, <1>8
  <2>3. <<x, f[lf[x]], f[lf[x]]>> \in N0 \X S \X S
    BY <2>2
  <2>4. step[<<x, f[lf[x]], f[lf[x]]>>] = <<x>> \o f[lf[x]]
    BY <2>3, Zenon
  <2>5. base[x] = <<>> /\ (x # NULL => lf[x] = to(x))
    OBVIOUS
  <2> HIDE DEF step, base, lf, to
  <2> QED BY <2>1, <2>4, <2>5
<1>10. f = [x \in N0 |-> IF x = NULL THEN <<>> ELSE <<x>> \o f[h.child[Turn(h, start, x)][x]]]
  BY <1>9
<1> DEFINE g == CHOOSE down : down = [x \in Nodes \cup {NULL} |->
                  IF x = NULL THEN <<>> ELSE <<x>> \o down[h.child[Turn(h, start, x)][x]]]
<1>11. g = [x \in N0 |-> IF x = NULL THEN <<>> ELSE <<x>> \o g[h.child[Turn(h, start, x)][x]]]
  BY <1>10, Zenon DEF N0
<1>12. Descent(h, start) = g[h.root]
  BY DEF Descent
<1> HIDE DEF g
<1>13. \A x \in N0 : g[x] = IF x = NULL THEN <<>> ELSE <<x>> \o g[to(x)]
  BY <1>11, Zenon
<1> DEFINE Good(x) == /\ g[x] \in Seq(N0) /\ (x # NULL => g[x] # <<>>)
                      /\ g[x] # <<>> => Last(g[x]) \in M /\ to(Last(g[x])) = NULL
           L == M \cup {NULL}
           P == {x \in L : Good(x)}
<1>14. ASSUME NEW x \in L, \A y \in L : r0[y] < r0[x] => y \in P PROVE x \in P
  <2>1. CASE x = NULL
    <3>1. g[x] = <<>>
      BY <1>13, <2>1, NullFacts
    <3>2. g[x] \in Seq(N0)
      BY <3>1
    <3>3. Good(x)
      BY <2>1, <3>1, <3>2
    <3> HIDE DEF Good
    <3> QED BY <2>1, <3>3
  <2>2. CASE x # NULL
    <3>1. x \in M /\ x \in N0 /\ x \in Nodes /\ to(x) \in L
      BY <1>2, <1>4, <2>2, NullFacts
    <3>2. r0[to(x)] < r0[x]
      <4>1. lf[x] = to(x)
        BY <2>2, <3>1
      <4> HIDE DEF lf, to, r0
      <4> QED BY <1>5, <2>2, <3>1, <4>1
    <3>3. Good(to(x))
      <4> HIDE DEF to, r0, L
      <4> QED BY <1>14, <3>1, <3>2
    <3>4. g[x] = <<x>> \o g[to(x)]
      BY <1>13, <2>2, <3>1
    <3> DEFINE t == g[to(x)]
    <3>5. g[x] \in Seq(N0) /\ g[x] # <<>> /\ Last(g[x]) = IF t = <<>> THEN x ELSE Last(t)
      BY <3>1, <3>3, <3>4, PushFront
    <3>6. CASE t = <<>>
      <4>1. to(x) = NULL
        BY <3>3, <3>6
      <4> HIDE DEF to, t
      <4> QED BY <2>2, <3>1, <3>5, <3>6, <4>1
    <3>7. CASE t # <<>>
      <4>1. Last(t) \in M /\ to(Last(t)) = NULL
        BY <3>3, <3>7
      <4>2. Last(g[x]) = Last(t)
        BY <3>5, <3>7
      <4> HIDE DEF to, t
      <4> QED BY <2>2, <3>1, <3>5, <4>1, <4>2
    <3> QED BY <3>6, <3>7
  <2> QED BY <2>1, <2>2
<1>15. \A x \in L : x \in P
  <2>1. [x \in L |-> r0[x]] \in [L -> Nat]
    <3>1. \A x \in L : x \in N0
      BY <1>2, NullFacts
    <3> HIDE DEF r0, L
    <3>2. \A x \in L : r0[x] \in Nat
      BY <1>5, <3>1
    <3> QED BY <3>2
  <2> HIDE DEF P, r0, L
  <2> QED BY <1>14, <2>1, RankInduction
<1>16. h.root \in L
  BY DEF Shaped, Tree
<1>17. h.root = NULL => g[h.root] = <<>>
  BY <1>13, NullFacts
<1> QED BY <1>12, <1>15, <1>16, <1>17

(* The leaf n is hung below p on side s, or is the root.                   *)
Hung(h, k, n, p, s) ==
  /\ IsHeap(k)
  /\ k.root = IF p = NULL THEN n ELSE h.root
  /\ \A t \in Sides, x \in Nodes :
       k.child[t][x] = IF x = n THEN NULL ELSE IF x = p /\ t = s THEN n ELSE h.child[t][x]
  /\ \A x \in Nodes : k.parent[x] = IF x = n THEN p ELSE h.parent[x]
  /\ \A x \in Nodes : k.color[x] = IF x = n THEN "red" ELSE h.color[x]

Vacant(h, M, p, s) ==
  /\ p = NULL => h.root = NULL
  /\ p # NULL => p \in M /\ s \in Sides /\ h.child[s][p] = NULL

LEMMA HungShaped ==
  ASSUME NEW h, NEW M, Shaped(h, M), Clean(h, M), NEW n \in Nodes, n \notin M,
         NEW p, NEW s, Vacant(h, M, p, s), NEW k, Hung(h, k, n, p, s)
  PROVE  Shaped(k, M \cup {n}) /\ Clean(k, M \cup {n})
<1> DEFINE K == M \cup {n}
<1>1. Tree(h, M) /\ IsHeap(h) /\ M \subseteq Nodes /\ n # NULL /\ n # p /\ p \in M \cup {NULL}
  BY NullFacts DEF Shaped, Tree, Vacant
<1>2. /\ \A t \in Sides, x \in Nodes :
           k.child[t][x] = IF x = n THEN NULL ELSE IF x = p /\ t = s THEN n ELSE h.child[t][x]
      /\ \A x \in Nodes : k.parent[x] = IF x = n THEN p ELSE h.parent[x]
      /\ k.root = IF p = NULL THEN n ELSE h.root
  BY DEF Hung
<1>3. /\ \A x \in M, t \in Sides :
           h.child[t][x] # NULL => h.child[t][x] \in M /\ h.parent[h.child[t][x]] = x
                                   /\ h.child[t][x] # h.child[Opposite(t)][x]
      /\ \A x \in M : x # h.root => h.parent[x] \in M /\ \E t \in Sides : h.child[t][h.parent[x]] = x
      /\ h.root \in M \cup {NULL} /\ (h.root # NULL => h.parent[h.root] = NULL)
  BY <1>1 DEF Tree
<1>4. Tree(k, K)
  <2>1. k.root \in K \cup {NULL} /\ (k.root # NULL => k.parent[k.root] = NULL)
    BY <1>1, <1>2, <1>3
  <2>2. ASSUME NEW x \in K, NEW t \in Sides, k.child[t][x] # NULL
        PROVE  k.child[t][x] \in K /\ k.parent[k.child[t][x]] = x
    <3>1. x # n /\ x \in M /\ x \in Nodes
      BY <1>1, <1>2, <2>2
    <3>2. CASE x = p /\ t = s
      BY <1>1, <1>2, <3>1, <3>2
    <3>3. CASE ~(x = p /\ t = s)
      <4>1. k.child[t][x] = h.child[t][x]
        BY <1>2, <3>1, <3>3
      <4>2. h.child[t][x] \in M /\ h.parent[h.child[t][x]] = x
        BY <1>3, <2>2, <3>1, <4>1
      <4>3. h.child[t][x] # n /\ h.child[t][x] \in Nodes
        BY <1>1, <4>2
      <4> QED BY <1>2, <4>1, <4>2, <4>3
    <3> QED BY <3>2, <3>3
  <2>3. ASSUME NEW x \in K, x # k.root
        PROVE  k.parent[x] \in K /\ \E t \in Sides : k.child[t][k.parent[x]] = x
    <3>1. CASE x = n
      <4>1. p # NULL /\ p \in M /\ s \in Sides /\ p \in Nodes
        BY <1>1, <1>2, <2>3, <3>1 DEF Vacant
      <4> QED BY <1>1, <1>2, <3>1, <4>1
    <3>2. CASE x # n
      <4>1. x \in M /\ x \in Nodes /\ x # NULL
        BY <1>1, <3>2, NullFacts
      <4>2. x # h.root
        BY <1>2, <2>3, <4>1 DEF Vacant
      <4>3. h.parent[x] \in M /\ k.parent[x] = h.parent[x] /\ h.parent[x] # n /\ h.parent[x] \in Nodes
        BY <1>1, <1>2, <1>3, <3>2, <4>1, <4>2
      <4>4. PICK t \in Sides : h.child[t][h.parent[x]] = x
        BY <1>3, <4>1, <4>2
      <4>5. ~(h.parent[x] = p /\ t = s)
        BY <4>1, <4>3, <4>4, NullFacts, <1>1 DEF Vacant
      <4>6. k.child[t][k.parent[x]] = x
        BY <1>2, <4>3, <4>4, <4>5
      <4> QED BY <4>3, <4>6
    <3> QED BY <3>1, <3>2
  <2>4. ASSUME NEW x \in K, NEW t \in Sides, k.child[t][x] # NULL
        PROVE  k.child[t][x] # k.child[Opposite(t)][x]
    <3>0. Opposite(t) \in Sides /\ Opposite(Opposite(t)) = t
      BY SidesFacts
    <3>1. x # n /\ x \in M /\ x \in Nodes
      BY <1>1, <1>2, <2>4
    <3>2. /\ k.child[t][x] = IF x = p /\ t = s THEN n ELSE h.child[t][x]
          /\ k.child[Opposite(t)][x] = IF x = p /\ Opposite(t) = s THEN n ELSE h.child[Opposite(t)][x]
      BY <1>2, <3>0, <3>1
    <3>3. h.child[t][x] # n /\ h.child[Opposite(t)][x] # n /\ t # Opposite(t)
      BY <1>1, <1>3, <3>0, <3>1, SidesFacts
    <3> QED BY <1>3, <2>4, <3>1, <3>2, <3>3
  <2>5. K \subseteq Nodes /\ IsHeap(k)
    BY <1>1 DEF Hung
  <2> HIDE DEF K
  <2> QED BY <2>1, <2>2, <2>3, <2>4, <2>5 DEF Tree
<1>5. \E q, C : Ranked(k, K, q, C)
  <2>1. PICK r, B : Ranked(h, M, r, B)
    BY DEF Shaped
  <2>2. /\ B \in Nat /\ r \in [Nodes -> 0 .. B]
        /\ \A x \in M, t \in Sides : h.child[t][x] # NULL => r[h.child[t][x]] < r[x]
    BY <2>1 DEF Ranked
  <2> DEFINE q == [x \in Nodes |-> IF x = n THEN 0 ELSE r[x] + 1]
  <2>3. q \in [Nodes -> 0 .. B + 1] /\ B + 1 \in Nat
    BY <2>2
  <2>4. q[n] = 0 /\ \A x \in M : q[x] = r[x] + 1 /\ r[x] \in Nat
    BY <1>1, <2>2
  <2> HIDE DEF q
  <2>5. ASSUME NEW x \in K, NEW t \in Sides, k.child[t][x] # NULL PROVE q[k.child[t][x]] < q[x]
    <3>1. x # n /\ x \in M /\ x \in Nodes
      BY <1>1, <1>2, <2>5
    <3>2. k.child[t][x] = IF x = p /\ t = s THEN n ELSE h.child[t][x]
      BY <1>2, <3>1
    <3>3. CASE x = p /\ t = s
      BY <2>4, <3>1, <3>2, <3>3
    <3>4. CASE ~(x = p /\ t = s)
      <4>1. h.child[t][x] \in M /\ r[h.child[t][x]] < r[x]
        BY <1>3, <2>2, <2>5, <3>1, <3>2, <3>4
      <4> QED BY <2>4, <3>1, <3>2, <3>4, <4>1
    <3> QED BY <3>3, <3>4
  <2>6. Ranked(k, K, q, B + 1)
    BY <2>3, <2>5 DEF Ranked
  <2> QED BY <2>6
<1>6. Clean(k, K)
  <2> SUFFICES ASSUME NEW x \in Nodes, x \notin K
               PROVE  k.parent[x] = NULL /\ \A t \in Sides : k.child[t][x] = NULL
    BY DEF Clean
  <2>1. h.parent[x] = NULL /\ (\A t \in Sides : h.child[t][x] = NULL) /\ x # n /\ x # p
    BY <1>1, NullFacts DEF Clean
  <2> QED BY <1>2, <2>1
<1> QED BY <1>4, <1>5, <1>6 DEF Shaped

LEMMA HungKeeps ==
  ASSUME NEW h, NEW M, Balanced(h, M), Clean(h, M), NEW n \in Nodes, n \notin M,
         NEW p, NEW s, Vacant(h, M, p, s), NEW k, Hung(h, k, n, p, s)
  PROVE  Inserting(k, M \cup {n}, n) /\ Clean(k, M \cup {n})
<1> DEFINE K == M \cup {n}
<1>1. Shaped(h, M) /\ IsHeap(h) /\ M \subseteq Nodes /\ n # NULL /\ n # p /\ p \in M \cup {NULL} /\ Reds(h, M, NULL)
  BY NullFacts, ShapedHeap DEF Vacant, Balanced
<1>2. Shaped(k, K) /\ Clean(k, K)
  BY <1>1, HungShaped
<1>3. /\ \A t \in Sides, x \in Nodes :
           k.child[t][x] = IF x = n THEN NULL ELSE IF x = p /\ t = s THEN n ELSE h.child[t][x]
      /\ \A x \in Nodes : k.parent[x] = IF x = n THEN p ELSE h.parent[x]
      /\ \A x \in Nodes : k.color[x] = IF x = n THEN "red" ELSE h.color[x]
  BY DEF Hung
<1>4. Reds(k, K, n)
  <2> SUFFICES ASSUME NEW x \in K, k.color[x] = "red", x # n
               PROVE  k.parent[x] \in K /\ k.color[k.parent[x]] = "black"
    BY DEF Reds
  <2>1. x \in M /\ x \in Nodes /\ x # NULL
    BY <1>1, NullFacts
  <2>2. h.parent[x] \in M /\ h.color[h.parent[x]] = "black"
    BY <1>1, <1>3, <2>1 DEF Reds
  <2> QED BY <1>1, <1>3, <2>1, <2>2
<1>5. \A x \in M, t \in Sides : h.child[t][x] # NULL => h.child[t][x] \in M
  BY <1>1, ChildFacts
<1>6. \E c : Blacks(k, K, c, NULL, "left")
  <2>1. PICK b : Blacks(h, M, b, NULL, "left")
    BY DEF Balanced
  <2>2. b \in [N0 -> Nat] /\ b[NULL] = 0
    BY <2>1 DEF Blacks
  <2> DEFINE c == [x \in N0 |-> IF x = n THEN 0 ELSE b[x]]
  <2>3. c \in [N0 -> Nat]
    BY <2>2
  <2>4. c[n] = 0 /\ c[NULL] = 0 /\ \A x \in N0 : x # n => c[x] = b[x]
    BY <1>1, <2>2, NullFacts
  <2> HIDE DEF c
  <2>5. ASSUME NEW x \in K, NEW t \in Sides
        PROVE  c[x] = c[k.child[t][x]] + Extra(x, t, NULL, "left") + Black(k, x)
    <3>0. Extra(x, t, NULL, "left") = 0
      BY <1>1, NoExtra
    <3>1. CASE x = n
      BY <1>3, <2>4, <3>0, <3>1 DEF Black
    <3>2. CASE x # n
      <4>1. x \in M /\ x \in Nodes /\ x \in N0
        BY <1>1, <3>2, NullFacts
      <4>2. b[x] = b[h.child[t][x]] + Black(h, x) /\ b[x] \in Nat /\ b[h.child[t][x]] \in Nat
        BY <1>1, <2>1, <4>1, BlackSum
      <4>3. Black(k, x) = Black(h, x)
        BY <1>3, <3>2, <4>1 DEF Black
      <4>4. c[k.child[t][x]] = b[h.child[t][x]]
        <5>1. CASE x = p /\ t = s
          <6>1. h.child[t][x] = NULL /\ k.child[t][x] = n
            BY <1>3, <3>2, <4>1, <5>1, <1>1, NullFacts DEF Vacant
          <6> QED BY <2>2, <2>4, <6>1
        <5>2. CASE ~(x = p /\ t = s)
          <6>1. k.child[t][x] = h.child[t][x] /\ h.child[t][x] \in N0 /\ h.child[t][x] # n
            BY <1>1, <1>3, <1>5, <3>2, <4>1, <5>2, HeapTypes
          <6> QED BY <2>4, <6>1
        <5> QED BY <5>1, <5>2
      <4>5. c[x] = b[x] /\ Black(h, x) \in Nat
        BY <2>4, <3>2, <4>1 DEF Black
      <4> QED BY <3>0, <4>2, <4>3, <4>4, <4>5
    <3> QED BY <3>1, <3>2
  <2>6. Blacks(k, K, c, NULL, "left")
    BY <2>3, <2>4, <2>5 DEF Blacks, BlackAt
  <2> QED BY <2>6
<1>7. k.color[n] = "red"
  BY <1>3
<1> QED BY <1>2, <1>4, <1>6, <1>7 DEF Inserting

(* Two heaps whose trees are the same, with other intervals.               *)
SameTree(h, k) ==
  IsHeap(k) /\ k.root = h.root /\ k.child = h.child /\ k.parent = h.parent /\ k.color = h.color

LEMMA SameTreeKeeps ==
  ASSUME NEW h, NEW k, SameTree(h, k), NEW M
  PROVE  /\ Clean(h, M) => Clean(k, M)
         /\ Balanced(h, M) => Balanced(k, M)
<1>1. Clean(h, M) => Clean(k, M)
  BY DEF Clean, SameTree
<1>2. Shaped(h, M) => Shaped(k, M)
  <2>1. Tree(h, M) => Tree(k, M)
    BY DEF Tree, SameTree
  <2>2. \A r, B : Ranked(h, M, r, B) => Ranked(k, M, r, B)
    BY DEF Ranked, SameTree
  <2> QED BY <2>1, <2>2 DEF Shaped
<1>3. Reds(h, M, NULL) => Reds(k, M, NULL)
  BY DEF Reds, SameTree
<1>4. \A b : Blacks(h, M, b, NULL, "left") => Blacks(k, M, b, NULL, "left")
  <2>1. \A x : Black(k, x) = Black(h, x)
    BY DEF Black, SameTree
  <2>2. k.child = h.child
    BY DEF SameTree
  <2> QED BY <2>1, <2>2 DEF Blacks, BlackAt
<1> QED BY <1>1, <1>2, <1>3, <1>4 DEF Balanced

LEMMA SetInterval ==
  ASSUME NEW h, IsHeap(h), NEW n, NEW a, NEW b, NEW c
  PROVE  SameTree(h, [h EXCEPT !.start[n] = a, !.last[n] = b, !.sub[n] = c])
<1> DEFINE k == [[[h EXCEPT !.start[n] = a] EXCEPT !.last[n] = b] EXCEPT !.sub[n] = c]
<1>1. k = [h EXCEPT !.start[n] = a, !.last[n] = b, !.sub[n] = c]
  OBVIOUS
<1>2. /\ DOMAIN k = DOMAIN h /\ k = [f \in DOMAIN k |-> k[f]]
      /\ k.root = h.root /\ k.child = h.child /\ k.parent = h.parent /\ k.color = h.color
  BY DEF IsHeap
<1> HIDE DEF k
<1>3. SameTree(h, k)
  BY <1>2 DEF IsHeap, SameTree
<1> QED BY <1>1, <1>3

LEMMA LinkNodeFields ==
  ASSUME NEW h, IsHeap(h), NEW n \in Nodes, NEW p \in N0, NEW s \in Sides, n # p
  PROVE  Hung(h, rb_link_node(h, n, p, s), n, p, s)
<1> DEFINE a == [h EXCEPT !.parent[n] = p]
           b == [a EXCEPT !.color[n] = "red"]
           c == [b EXCEPT !.child["left"][n] = NULL]
           g == [c EXCEPT !.child["right"][n] = NULL]
           k == rb_link_node(h, n, p, s)
<1>1. g = [h EXCEPT !.parent[n] = p, !.color[n] = "red",
                    !.child["left"][n] = NULL, !.child["right"][n] = NULL]
  OBVIOUS
<1> SUFFICES Hung(h, k, n, p, s)
  OBVIOUS
<1>2. /\ p = NULL => k = [g EXCEPT !.root = n]
      /\ p # NULL => k = [g EXCEPT !.child[s][p] = n]
  BY <1>1 DEF rb_link_node
<1>3. /\ IsHeap(a) /\ a.root = h.root /\ a.child = h.child /\ a.color = h.color
      /\ \A y \in Nodes : a.parent[y] = IF y = n THEN p ELSE h.parent[y]
  BY SetParent
<1> HIDE DEF a
<1>4. /\ IsHeap(b) /\ b.root = h.root /\ b.child = h.child /\ b.parent = a.parent
      /\ \A y \in Nodes : b.color[y] = IF y = n THEN "red" ELSE h.color[y]
  <2>1. "red" \in Colors
    BY DEF Colors
  <2> QED BY <1>3, <2>1, SetColor
<1> HIDE DEF b
<1>5. NULL \in N0 /\ "left" \in Sides /\ "right" \in Sides /\ n \in N0
  BY NullFacts, SidesFacts
<1>6. Relinks(b, c, "left", n, NULL)
  BY <1>4, <1>5, SetLink
<1> HIDE DEF c
<1>7. Relinks(c, g, "right", n, NULL)
  BY <1>5, <1>6, SetLink DEF Relinks
<1> HIDE DEF g
<1>8. /\ IsHeap(g) /\ g.root = h.root
      /\ \A t \in Sides, x \in Nodes : g.child[t][x] = IF x = n THEN NULL ELSE h.child[t][x]
      /\ \A y \in Nodes : g.parent[y] = IF y = n THEN p ELSE h.parent[y]
      /\ \A y \in Nodes : g.color[y] = IF y = n THEN "red" ELSE h.color[y]
  <2>1. \A t \in Sides : t = "left" \/ t = "right"
    BY DEF Sides
  <2>2. /\ IsHeap(g) /\ g.root = h.root
        /\ \A y \in Nodes : g.parent[y] = IF y = n THEN p ELSE h.parent[y]
        /\ \A y \in Nodes : g.color[y] = IF y = n THEN "red" ELSE h.color[y]
    BY <1>3, <1>4, <1>6, <1>7 DEF Relinks
  <2>3. \A t \in Sides, x \in Nodes : g.child[t][x] = IF x = n THEN NULL ELSE h.child[t][x]
    BY <1>4, <1>6, <1>7, <2>1 DEF Relinks
  <2> QED BY <2>2, <2>3
<1>9. CASE p = NULL
  <2> DEFINE j == [g EXCEPT !.root = n]
  <2>1. k = j
    BY <1>2, <1>9
  <2>2. IsHeap(j) /\ j.root = n /\ j.child = g.child /\ j.parent = g.parent /\ j.color = g.color
    <3>1. IsHeap(g)
      BY <1>8
    <3> QED BY <1>5, <3>1, SetRoot
  <2> HIDE DEF k, j
  <2>3. \A t \in Sides, x \in Nodes :
          k.child[t][x] = IF x = n THEN NULL ELSE IF x = p /\ t = s THEN n ELSE h.child[t][x]
    <3>1. \A x \in Nodes : x # p
      BY <1>9, NullFacts
    <3> QED BY <1>8, <2>1, <2>2, <3>1
  <2>4. /\ \A x \in Nodes : k.parent[x] = IF x = n THEN p ELSE h.parent[x]
        /\ \A x \in Nodes : k.color[x] = IF x = n THEN "red" ELSE h.color[x]
    BY <1>8, <2>1, <2>2
  <2> QED BY <1>9, <2>1, <2>2, <2>3, <2>4 DEF Hung
<1>10. CASE p # NULL
  <2>1. p \in Nodes
    BY <1>10 DEF N0
  <2>2. Relinks(g, k, s, p, n)
    BY <1>2, <1>5, <1>8, <1>10, <2>1, SetLink
  <2> HIDE DEF k
  <2>3. IsHeap(k) /\ k.root = h.root /\ k.parent = g.parent /\ k.color = g.color
    BY <1>8, <2>2 DEF Relinks
  <2>4. \A t \in Sides, x \in Nodes :
          k.child[t][x] = IF x = n THEN NULL ELSE IF x = p /\ t = s THEN n ELSE h.child[t][x]
    BY <1>8, <2>2 DEF Relinks
  <2>5. /\ \A x \in Nodes : k.parent[x] = IF x = n THEN p ELSE h.parent[x]
        /\ \A x \in Nodes : k.color[x] = IF x = n THEN "red" ELSE h.color[x]
    BY <1>8, <2>3
  <2> QED BY <1>10, <2>3, <2>4, <2>5 DEF Hung
<1> QED BY <1>9, <1>10

(* interval_tree_insert up to the rebalancing.                             *)
LEMMA PlaceKeeps ==
  ASSUME NEW h, NEW M, Balanced(h, M), Clean(h, M), NEW n \in Nodes, n \notin M, NEW start, NEW last
  PROVE  LET k == Place(h, n, start, last)
         IN  Inserting(k, M \cup {n}, n) /\ Clean(k, M \cup {n})
<1> DEFINE path == Descent(h, start)
           p == IF path = <<>> THEN NULL ELSE Last(path)
           s == IF p = NULL THEN "left" ELSE Turn(h, start, p)
           f == Learn(h, ToSet(path), last)
           g == [f EXCEPT !.start[n] = start, !.last[n] = last, !.sub[n] = last]
           k == rb_link_node(g, n, p, s)
<1>1. k = Place(h, n, start, last)
  BY DEF Place
<1>2. Shaped(h, M) /\ IsHeap(h) /\ M \subseteq Nodes
  BY ShapedHeap DEF Balanced
<1>3. s \in Sides
  BY DEF Turn, Sides
<1>4. Vacant(h, M, p, s) /\ p \in N0 /\ p # n
  <2>1. /\ path = <<>> <=> h.root = NULL
        /\ path # <<>> => Last(path) \in M /\ h.child[Turn(h, start, Last(path))][Last(path)] = NULL
    BY <1>2, DescentFacts
  <2> HIDE DEF path
  <2>2. /\ p = NULL => h.root = NULL
        /\ p # NULL => p \in M /\ h.child[s][p] = NULL
        /\ p \in M \cup {NULL}
    BY <1>2, <2>1, NullFacts
  <2> HIDE DEF p, s
  <2> QED BY <1>2, <1>3, <2>2, NullFacts DEF Vacant
<1>5. SameLinks(h, f)
  BY <1>2, LearnFields
<1> HIDE DEF f, p, s, path
<1>6. SameTree(f, g)
  BY <1>5, SetInterval, Zenon DEF SameLinks
<1> HIDE DEF g
<1>7. SameTree(h, g)
  BY <1>5, <1>6 DEF SameTree, SameLinks
<1>8. Clean(g, M) /\ Balanced(g, M) /\ Vacant(g, M, p, s) /\ IsHeap(g)
  BY <1>4, <1>7, SameTreeKeeps DEF Vacant, SameTree
<1>9. Hung(g, k, n, p, s)
  BY <1>3, <1>4, <1>8, LinkNodeFields
<1> HIDE DEF k
<1> QED BY <1>1, <1>8, <1>9, HungKeeps

-----------------------------------------------------------------------------
(* rb_replace_node.                                                        *)

(* The link that leads to a node.                                          *)
LEMMA LinkTo ==
  ASSUME NEW h, NEW M, Shaped(h, M), Clean(h, M), NEW n \in M, NEW t \in Sides, NEW x \in Nodes
  PROVE  h.child[t][x] = n <=> x = h.parent[n] /\ t = Below(h, n, h.parent[n])
<1>1. Tree(h, M) /\ M \subseteq Nodes /\ n # NULL
  BY NullFacts DEF Shaped, Tree
<1>2. ASSUME h.child[t][x] = n PROVE x = h.parent[n] /\ t = Below(h, n, h.parent[n])
  <2>1. x \in M
    BY <1>1, <1>2 DEF Clean
  <2>2. x = h.parent[n]
    BY <1>1, <1>2, <2>1 DEF Tree
  <2>3. h.child[Opposite(t)][x] # n
    BY <1>1, <1>2, <2>1 DEF Tree
  <2>4. t = Below(h, n, x)
    BY <1>2, <2>3 DEF Below, Sides, Opposite
  <2> QED BY <2>2, <2>4
<1>3. ASSUME x = h.parent[n], t = Below(h, n, x) PROVE h.child[t][x] = n
  <2>1. n # h.root
    BY <1>1, <1>3, NullFacts DEF Tree
  <2>2. PICK u \in Sides : h.child[u][x] = n
    BY <1>1, <1>3, <2>1 DEF Tree
  <2> QED BY <1>3, <2>2 DEF Below, Sides
<1> QED BY <1>2, <1>3

LEMMA ReplaceNodeFields ==
  ASSUME NEW h, NEW M, Shaped(h, M), Clean(h, M), NEW n \in M, NEW y \in Nodes, y \notin M
  PROVE  Replaced(h, Forget(rb_replace_node(h, n, y), n), n, y)
<1> DEFINE p == h.parent[n]
           i == rb_change_child(h, n, y, p)
           kids == {h.child[t][n] : t \in Sides} \ {NULL}
           j == rb_replace_node(h, n, y)
           k == Forget(j, n)
<1>1. Tree(h, M) /\ IsHeap(h) /\ M \subseteq Nodes /\ n \in Nodes /\ n # NULL /\ y # NULL /\ y # n /\ y \in N0
  BY NullFacts DEF Shaped, Tree
<1>2. p \in N0 /\ (p = NULL <=> h.root = n)
  <2>1. p \in N0
    BY <1>1, HeapTypes
  <2> QED BY <1>1, <2>1, NullFacts DEF Tree
<1>3. p # n /\ p # y
  <2>1. p # n
    <3> SUFFICES ASSUME p = n PROVE FALSE
      OBVIOUS
    <3>1. PICK t \in Sides : h.child[t][n] = n
      BY <1>1, <1>2 DEF Tree
    <3>2. h.child[t][n] # n
      BY <1>1, <3>1, ChildFacts
    <3> QED BY <3>1, <3>2
  <2>2. p = NULL \/ p \in M
    BY <1>1, <1>2 DEF Tree
  <2> QED BY <1>1, <2>1, <2>2
<1>4. ASSUME NEW x \in Nodes PROVE x \in kids <=> h.parent[x] = n
  <2>1. ASSUME x \in kids PROVE h.parent[x] = n
    <3>1. PICK t \in Sides : x = h.child[t][n]
      BY <2>1
    <3>2. x # NULL
      BY <2>1
    <3> QED BY <1>1, <3>1, <3>2 DEF Tree
  <2>2. ASSUME h.parent[x] = n PROVE x \in kids
    <3>1. x \in M
      BY <1>1, <2>2 DEF Clean
    <3>2. x # h.root /\ x # NULL
      BY <1>1, <2>2, NullFacts DEF Tree
    <3>3. PICK t \in Sides : h.child[t][n] = x
      BY <1>1, <2>2, <3>1, <3>2 DEF Tree
    <3> QED BY <3>2, <3>3
  <2> QED BY <2>1, <2>2
<1>5. ASSUME NEW t \in Sides, NEW x \in Nodes
      PROVE  h.child[t][x] = n <=> x = p /\ t = Below(h, n, p)
  BY LinkTo
<1>6. y \notin kids
  <2>1. h.parent[y] = NULL
    BY DEF Clean
  <2> HIDE DEF kids
  <2> QED BY <1>1, <1>4, <2>1
<1>7. /\ j.root = i.root
      /\ j.parent = [x \in Nodes |-> IF x = y THEN p ELSE IF x \in kids THEN y ELSE h.parent[x]]
      /\ j.child = [t \in Sides |-> [i.child[t] EXCEPT ![y] = h.child[t][n]]]
      /\ IsHeap(i) => j.color = [i.color EXCEPT ![y] = h.color[n]]
      /\ IsHeap(i) => DOMAIN j = DOMAIN i /\ j = [f \in DOMAIN j |-> j[f]]
  <2> DEFINE pp == [x \in Nodes |-> IF x = y THEN p ELSE IF x \in kids THEN y ELSE h.parent[x]]
             cc == [t \in Sides |-> [i.child[t] EXCEPT ![y] = h.child[t][n]]]
             v == h.color[n]
  <2>1. j = [i EXCEPT !.parent = pp, !.color[y] = v, !.child = cc]
    BY DEF rb_replace_node
  <2> HIDE DEF pp, cc, v, i, j
  <2>2. /\ IsHeap(i) => j.root = i.root /\ j.parent = pp /\ j.child = cc /\ j.color = [i.color EXCEPT ![y] = v]
        /\ IsHeap(i) => DOMAIN j = DOMAIN i /\ j = [f \in DOMAIN j |-> j[f]]
    BY <2>1 DEF IsHeap
  <2>3. IsHeap(i)
    BY <1>1, <1>2, ChangeChild DEF ChangesChild, i
  <2> QED BY <2>2, <2>3 DEF pp, cc, v
<1>8. ChangesChild(h, i, n, y, p)
  BY <1>1, <1>2, ChangeChild
<1> HIDE DEF i, p, kids, j
<1>9. IsHeap(i) /\ i.parent = h.parent /\ i.color = h.color /\ i.root = IF h.root = n THEN y ELSE h.root
  BY <1>2, <1>8 DEF ChangesChild
<1>10. IsHeap(j)
  <2>1. j.parent \in [Nodes -> N0]
    BY <1>1, <1>2, <1>7 DEF IsHeap
  <2>2. j.child \in [Sides -> [Nodes -> N0]]
    <3>1. \A t \in Sides : i.child[t] \in [Nodes -> N0] /\ h.child[t][n] \in N0
      BY <1>1, <1>9 DEF IsHeap
    <3> QED BY <1>7, <3>1
  <2>3. j.color \in [Nodes -> Colors] /\ j.root \in N0
    <3>1. h.color[n] \in Colors /\ i.color \in [Nodes -> Colors] /\ i.root \in N0
      BY <1>1, <1>9 DEF IsHeap
    <3> QED BY <1>7, <1>9, <3>1
  <2> QED BY <1>7, <1>9, <2>1, <2>2, <2>3 DEF IsHeap
<1>11. Forgotten(j, k, n)
  BY <1>1, <1>10, ForgetFields
<1> SUFFICES Replaced(h, k, n, y)
  BY DEF j
<1> HIDE DEF k
<1>12. ASSUME NEW t \in Sides, NEW x \in Nodes
       PROVE  k.child[t][x] = IF x = n THEN NULL ELSE IF x = y THEN h.child[t][n]
                              ELSE IF h.child[t][x] = n THEN y ELSE h.child[t][x]
  <2>1. k.child[t][x] = IF x = n THEN NULL ELSE j.child[t][x]
    BY <1>11 DEF Forgotten
  <2>2. j.child[t][x] = IF x = y THEN h.child[t][n] ELSE i.child[t][x]
    <3>1. i.child[t] \in [Nodes -> N0]
      BY <1>9 DEF IsHeap
    <3> QED BY <1>7, <3>1
  <2>3. i.child[t][x] = IF x = p /\ t = Below(h, n, p) THEN y ELSE h.child[t][x]
    BY <1>8 DEF ChangesChild
  <2> QED BY <1>5, <2>1, <2>2, <2>3
<1>13. ASSUME NEW x \in Nodes
       PROVE  /\ k.parent[x] = IF x = n THEN NULL ELSE IF x = y THEN p
                               ELSE IF h.parent[x] = n THEN y ELSE h.parent[x]
              /\ x # n => k.color[x] = IF x = y THEN h.color[n] ELSE h.color[x]
  <2>1. k.parent[x] = (IF x = n THEN NULL ELSE j.parent[x]) /\ (x # n => k.color[x] = j.color[x])
    BY <1>11 DEF Forgotten
  <2>2. j.parent[x] = IF x = y THEN p ELSE IF x \in kids THEN y ELSE h.parent[x]
    BY <1>7
  <2>3. j.color[x] = IF x = y THEN h.color[n] ELSE h.color[x]
    <3>1. h.color \in [Nodes -> Colors] /\ j.color = [h.color EXCEPT ![y] = h.color[n]]
      BY <1>1, <1>7, <1>9 DEF IsHeap
    <3> QED BY <3>1
  <2>4. x \in kids <=> h.parent[x] = n
    BY <1>4
  <2> QED BY <2>1, <2>2, <2>3, <2>4
<1>14. IsHeap(k) /\ k.root = IF h.root = n THEN y ELSE h.root
  BY <1>7, <1>9, <1>11 DEF Forgotten
<1> QED BY <1>12, <1>13, <1>14 DEF Replaced, p

LEMMA ReplaceNodeKeeps ==
  ASSUME NEW h, NEW M, Balanced(h, M), Clean(h, M), NEW n \in M, NEW y \in Nodes, y \notin M
  PROVE  LET k == Forget(rb_replace_node(h, n, y), n)
             K == (M \ {n}) \cup {y}
         IN  Balanced(k, K) /\ Clean(k, K)
<1> DEFINE k == Forget(rb_replace_node(h, n, y), n)
           K == (M \ {n}) \cup {y}
<1>1. Lacking(h, M, NULL, "left") /\ Shaped(h, M) /\ n # NULL
  BY ShapedHeap, NullFacts DEF Lacking, Balanced
<1>2. Replaced(h, k, n, y)
  BY <1>1, ReplaceNodeFields
<1> HIDE DEF k
<1>3. Clean(k, K) /\ Lacking(k, K, IF NULL = n THEN y ELSE NULL, "left")
  BY <1>1, <1>2, ReplaceKeeps
<1>4. Lacking(k, K, NULL, "left")
  BY <1>1, <1>3
<1> HIDE DEF K
<1>5. Balanced(k, K)
  BY <1>4, LackingMeans
<1> QED BY <1>3, <1>5 DEF k, K

-----------------------------------------------------------------------------
(* The nodes of the tree.                                                  *)

LEMMA ConcatSet ==
  ASSUME NEW S, NEW s \in Seq(S), NEW t \in Seq(S)
  PROVE  s \o t \in Seq(S) /\ ToSet(s \o t) = ToSet(s) \cup ToSet(t)
<1>1. /\ s \o t \in Seq(S) /\ Len(s \o t) = Len(s) + Len(t) /\ Len(s) \in Nat /\ Len(t) \in Nat
      /\ \A i \in 1 .. Len(s) + Len(t) : (s \o t)[i] = IF i <= Len(s) THEN s[i] ELSE t[i - Len(s)]
      /\ DOMAIN s = 1 .. Len(s) /\ DOMAIN t = 1 .. Len(t) /\ DOMAIN (s \o t) = 1 .. Len(s) + Len(t)
  <2>1. s \o t \in Seq(S) /\ Len(s \o t) = Len(s) + Len(t) /\ Len(s) \in Nat /\ Len(t) \in Nat
    BY ConcatProperties, LenProperties
  <2>2. \A i \in 1 .. Len(s) + Len(t) : (s \o t)[i] = IF i <= Len(s) THEN s[i] ELSE t[i - Len(s)]
    BY ConcatProperties
  <2>3. DOMAIN s = 1 .. Len(s) /\ DOMAIN t = 1 .. Len(t) /\ DOMAIN (s \o t) = 1 .. Len(s \o t)
    BY <2>1, LenProperties
  <2> QED BY <2>1, <2>2, <2>3
<1>2. PICK u : u = s \o t
  OBVIOUS
<1>3. ASSUME NEW i \in DOMAIN u PROVE u[i] \in ToSet(s) \cup ToSet(t)
  <2>1. i \in 1 .. Len(s) + Len(t)
    BY <1>1, <1>2, <1>3
  <2>2. CASE i <= Len(s)
    <3>1. i \in DOMAIN s /\ u[i] = s[i]
      BY <1>1, <1>2, <2>1, <2>2
    <3> QED BY <3>1 DEF ToSet
  <2>3. CASE ~(i <= Len(s))
    <3>1. i - Len(s) \in DOMAIN t /\ u[i] = t[i - Len(s)]
      BY <1>1, <1>2, <2>1, <2>3
    <3> QED BY <3>1 DEF ToSet
  <2> QED BY <2>2, <2>3
<1>4. ASSUME NEW i \in DOMAIN s PROVE s[i] \in ToSet(u)
  <2>1. i \in DOMAIN u /\ u[i] = s[i]
    BY <1>1, <1>2
  <2> QED BY <2>1 DEF ToSet
<1>5. ASSUME NEW i \in DOMAIN t PROVE t[i] \in ToSet(u)
  <2>1. i + Len(s) \in DOMAIN u /\ u[i + Len(s)] = t[i]
    BY <1>1, <1>2
  <2> QED BY <2>1 DEF ToSet
<1>6. ToSet(u) = ToSet(s) \cup ToSet(t)
  BY <1>3, <1>4, <1>5 DEF ToSet
<1> QED BY <1>1, <1>2, <1>6

LEMMA SetOfOne ==
  ASSUME NEW S, NEW x \in S
  PROVE  <<x>> \in Seq(S) /\ ToSet(<<x>>) = {x}
<1>1. <<x>> \in Seq(S) /\ DOMAIN <<x>> = {1} /\ <<x>>[1] = x
  OBVIOUS
<1> QED BY <1>1 DEF ToSet

(* InOrder is the recursion it reads as.                                   *)
LEMMA InOrderUnfolds ==
  ASSUME NEW h, NEW M, Shaped(h, M), Clean(h, M)
  PROVE  /\ \A x \in N0 : InOrder(h, x) \in Seq(N0)
         /\ InOrder(h, NULL) = <<>>
         /\ \A x \in Nodes :
              InOrder(h, x) = InOrder(h, h.child["left"][x]) \o <<x>> \o InOrder(h, h.child["right"][x])
<1>1. PICK r, B : Ranked(h, M, r, B)
  BY DEF Shaped
<1>2. IsHeap(h) /\ M \subseteq Nodes /\ B \in Nat /\ r \in [Nodes -> 0 .. B]
  BY <1>1, ShapedHeap DEF Ranked
<1> DEFINE S == Seq(N0)
           r0 == [x \in N0 |-> IF x = NULL THEN 0 ELSE r[x] + 1]
           to(s) == [x \in N0 |-> IF x = NULL THEN NULL ELSE h.child[s][x]]
           lf == to("left")
           rt == to("right")
           base == [x \in N0 |-> <<>>]
           step == [u \in N0 \X S \X S |-> u[2] \o <<u[1]>> \o u[3]]
<1>3. /\ r0 \in [N0 -> 0 .. B + 1] /\ B + 1 \in Nat /\ r0[NULL] = 0
      /\ \A x \in Nodes : r0[x] = r[x] + 1 /\ r[x] \in Nat
  BY <1>2, NullFacts DEF N0
<1>4. ASSUME NEW s \in Sides
      PROVE  to(s) \in [N0 -> N0] /\ \A x \in N0 : x \notin {NULL} => r0[to(s)[x]] < r0[x]
  <2>1. ASSUME NEW x \in Nodes PROVE h.child[s][x] \in N0 /\ r0[h.child[s][x]] < r0[x]
    <3>1. h.child[s][x] \in N0
      BY <1>2, HeapTypes
    <3>2. CASE h.child[s][x] = NULL
      <4> HIDE DEF r0
      <4> QED BY <1>3, <3>1, <3>2
    <3>3. CASE h.child[s][x] # NULL
      <4>1. x \in M
        BY <3>3 DEF Clean
      <4>2. h.child[s][x] \in Nodes /\ r[h.child[s][x]] < r[x]
        BY <1>1, <3>3, <4>1, ChildFacts DEF Ranked
      <4> HIDE DEF r0
      <4> QED BY <1>3, <3>1, <4>2
    <3> QED BY <3>2, <3>3
  <2>2. \A x \in N0 : x # NULL => x \in Nodes
    BY DEF N0
  <2>3. \A x \in N0 : to(s)[x] = IF x = NULL THEN NULL ELSE h.child[s][x]
    OBVIOUS
  <2>4. to(s) \in [N0 -> N0]
    BY <2>1, <2>2, NullFacts
  <2> HIDE DEF r0, to
  <2> QED BY <2>1, <2>2, <2>3, <2>4
<1>5. lf \in [N0 -> N0] /\ rt \in [N0 -> N0] /\ base \in [N0 -> S]
      /\ \A x \in N0 : x \notin {NULL} => r0[lf[x]] < r0[x] /\ r0[rt[x]] < r0[x]
  <2>1. base \in [N0 -> S]
    OBVIOUS
  <2> HIDE DEF to, r0, base
  <2> QED BY <1>4, <2>1, SidesFacts
<1>6. ASSUME NEW x \in N0, NEW s \in S, NEW t \in S
      PROVE  s \o <<x>> \o t \in S /\ step[<<x, s, t>>] = s \o <<x>> \o t
  <2>1. <<x>> \in S /\ s \o <<x>> \in S
    BY SetOfOne, ConcatSet
  <2>2. (s \o <<x>>) \o t \in S
    BY <2>1, ConcatSet
  <2>3. <<x, s, t>> \in N0 \X S \X S
    OBVIOUS
  <2>4. step[<<x, s, t>>] = s \o <<x>> \o t
    BY <2>3
  <2> HIDE DEF step
  <2> QED BY <2>2, <2>4
<1>7. step \in [N0 \X S \X S -> S]
  <2> SUFFICES ASSUME NEW u \in N0 \X S \X S PROVE u[2] \o <<u[1]>> \o u[3] \in S
    OBVIOUS
  <2>1. u[1] \in N0 /\ u[2] \in S /\ u[3] \in S
    OBVIOUS
  <2> HIDE DEF S, step
  <2> QED BY <1>6, <2>1
<1>8. \E f \in [N0 -> S] : Unfolds(f, N0, {NULL}, lf, rt, base, step)
  <2> HIDE DEF S, lf, rt, base, step, r0
  <2> QED BY <1>3, <1>5, <1>7, RecursionExists
<1>9. PICK f \in [N0 -> S] : Unfolds(f, N0, {NULL}, lf, rt, base, step)
  BY <1>8
<1>10. ASSUME NEW x \in N0
       PROVE  f[x] = IF x = NULL THEN <<>> ELSE f[h.child["left"][x]] \o <<x>> \o f[h.child["right"][x]]
  <2>1. f[x] = IF x \in {NULL} THEN base[x] ELSE step[<<x, f[lf[x]], f[rt[x]]>>]
    BY <1>9 DEF Unfolds
  <2>2. f[lf[x]] \in S /\ f[rt[x]] \in S
    BY <1>5, <1>9
  <2>3. step[<<x, f[lf[x]], f[rt[x]]>>] = f[lf[x]] \o <<x>> \o f[rt[x]]
    <3> HIDE DEF step, S, lf, rt
    <3> QED BY <1>6, <2>2
  <2>4. base[x] = <<>> /\ (x # NULL => lf[x] = h.child["left"][x] /\ rt[x] = h.child["right"][x])
    OBVIOUS
  <2> HIDE DEF step, base, lf, rt
  <2> QED BY <2>1, <2>3, <2>4
<1>11. f = [x \in N0 |-> IF x = NULL THEN <<>> ELSE f[h.child["left"][x]] \o <<x>> \o f[h.child["right"][x]]]
  BY <1>10, Zenon
<1> DEFINE g == CHOOSE in : in = [x \in Nodes \cup {NULL} |->
                  IF x = NULL THEN <<>> ELSE in[h.child["left"][x]] \o <<x>> \o in[h.child["right"][x]]]
<1>12. g = [x \in N0 |-> IF x = NULL THEN <<>> ELSE g[h.child["left"][x]] \o <<x>> \o g[h.child["right"][x]]]
  BY <1>11, Zenon DEF N0
<1>13. \A x : InOrder(h, x) = g[x]
  BY DEF InOrder
<1> HIDE DEF g
<1>14. \A x \in N0 : g[x] = IF x = NULL THEN <<>> ELSE g[h.child["left"][x]] \o <<x>> \o g[h.child["right"][x]]
  BY <1>12
<1>15. InOrder(h, NULL) = <<>>
  BY <1>13, <1>14, NullFacts
<1>16. \A x \in Nodes :
         InOrder(h, x) = InOrder(h, h.child["left"][x]) \o <<x>> \o InOrder(h, h.child["right"][x])
  BY <1>13, <1>14, NullFacts, Zenon
<1> DEFINE P == {x \in N0 : InOrder(h, x) \in S}
<1>17. ASSUME NEW x \in N0, \A y \in N0 : r0[y] < r0[x] => y \in P PROVE x \in P
  <2>1. CASE x = NULL
    BY <1>15, <2>1
  <2>2. CASE x # NULL
    <3>1. x \in Nodes
      BY <2>2 DEF N0
    <3>2. lf[x] \in P /\ rt[x] \in P
      <4> HIDE DEF lf, rt, r0, P
      <4> QED BY <1>5, <1>17, <2>2
    <3>3. lf[x] = h.child["left"][x] /\ rt[x] = h.child["right"][x]
      BY <2>2
    <3>4. InOrder(h, h.child["left"][x]) \in S /\ InOrder(h, h.child["right"][x]) \in S
      <4> HIDE DEF lf, rt
      <4> QED BY <3>2, <3>3
    <3>5. InOrder(h, x) \in S
      <4> HIDE DEF S
      <4> QED BY <1>6, <1>16, <3>1, <3>4
    <3> QED BY <3>5
  <2> QED BY <2>1, <2>2
<1>18. \A x \in N0 : x \in P
  <2>1. r0 \in [N0 -> Nat]
    <3> HIDE DEF r0
    <3> QED BY <1>3
  <2> HIDE DEF P, r0
  <2> QED BY <1>17, <2>1, RankInduction
<1> QED BY <1>15, <1>16, <1>18

LEMMA MembersAre ==
  ASSUME NEW h, NEW M, Shaped(h, M), Clean(h, M)
  PROVE  Members(h) = M
<1>1. PICK r, B : Ranked(h, M, r, B)
  BY DEF Shaped
<1>2. /\ IsHeap(h) /\ M \subseteq Nodes /\ B \in Nat /\ r \in [Nodes -> 0 .. B] /\ NULL \notin M
      /\ \A x \in M, t \in Sides : h.child[t][x] # NULL => r[h.child[t][x]] < r[x]
  BY <1>1, ShapedHeap, NullFacts DEF Ranked
<1> DEFINE st(x) == ToSet(InOrder(h, x))
<1>3. /\ st(NULL) = {}
      /\ \A x \in Nodes : st(x) = st(h.child["left"][x]) \cup {x} \cup st(h.child["right"][x])
  <2>1. ToSet(<<>>) = {}
    BY DEF ToSet
  <2>2. InOrder(h, NULL) = <<>>
    BY InOrderUnfolds
  <2>3. ASSUME NEW x \in Nodes
        PROVE  st(x) = st(h.child["left"][x]) \cup {x} \cup st(h.child["right"][x])
    <3> DEFINE a == InOrder(h, h.child["left"][x])
               c == InOrder(h, h.child["right"][x])
    <3>1. a \in Seq(N0) /\ c \in Seq(N0) /\ x \in N0
      BY <1>2, InOrderUnfolds, HeapTypes, NullFacts, SidesFacts
    <3>2. InOrder(h, x) = a \o <<x>> \o c
      BY InOrderUnfolds
    <3> HIDE DEF a, c
    <3>3. PICK e : e = <<x>>
      OBVIOUS
    <3>4. e \in Seq(N0) /\ ToSet(e) = {x}
      BY <3>1, <3>3, SetOfOne
    <3>5. PICK d : d = a \o e
      OBVIOUS
    <3>6. d \in Seq(N0) /\ ToSet(d) = ToSet(a) \cup ToSet(e)
      BY <3>1, <3>4, <3>5, ConcatSet
    <3>7. ToSet(d \o c) = ToSet(d) \cup ToSet(c)
      BY <3>1, <3>6, ConcatSet
    <3>8. InOrder(h, x) = d \o c
      BY <3>2, <3>3, <3>5
    <3> QED BY <3>4, <3>6, <3>7, <3>8 DEF a, c
  <2> QED BY <2>1, <2>2, <2>3
<1> HIDE DEF st
<1> DEFINE Good(z) == /\ st(z) \subseteq M
                      /\ \A y \in st(z), t \in Sides : h.child[t][y] # NULL => h.child[t][y] \in st(z)
           P == {z \in M : Good(z)}
<1>4. ASSUME NEW x \in M, NEW t \in Sides, h.child[t][x] # NULL
      PROVE  h.child[t][x] \in M /\ h.child[t][x] \in Nodes /\ r[h.child[t][x]] < r[x]
  BY <1>2, <1>4, ChildFacts
<1>5. ASSUME NEW z \in M, \A y \in M : r[y] < r[z] => y \in P PROVE z \in P
  <2> DEFINE a == h.child["left"][z]
             c == h.child["right"][z]
  <2>1. z \in Nodes /\ "left" \in Sides /\ "right" \in Sides
    BY <1>2, SidesFacts
  <2>2. st(z) = st(a) \cup {z} \cup st(c)
    BY <1>3, <2>1
  <2>3. ASSUME NEW t \in Sides PROVE Good(h.child[t][z])
    <3>1. CASE h.child[t][z] = NULL
      BY <1>3, <3>1
    <3>2. CASE h.child[t][z] # NULL
      <4>1. h.child[t][z] \in P
        <5> HIDE DEF P
        <5> QED BY <1>4, <1>5, <3>2
      <4> QED BY <4>1
    <3> QED BY <3>1, <3>2
  <2>4. ASSUME NEW t \in Sides, h.child[t][z] # NULL PROVE h.child[t][z] \in st(z)
    <3>1. h.child[t][z] \in st(h.child[t][z])
      BY <1>3, <1>4, <2>4
    <3>2. h.child[t][z] = a \/ h.child[t][z] = c
      BY DEF Sides
    <3> HIDE DEF a, c
    <3> QED BY <2>2, <3>1, <3>2
  <2>5. Good(a) /\ Good(c)
    BY <2>1, <2>3
  <2> HIDE DEF a, c
  <2>6. st(z) \subseteq M
    BY <2>2, <2>5
  <2>7. ASSUME NEW y \in st(z), NEW t \in Sides, h.child[t][y] # NULL PROVE h.child[t][y] \in st(z)
    <3>1. CASE y = z
      BY <2>4, <2>7, <3>1
    <3>2. CASE y # z
      <4>1. y \in st(a) \/ y \in st(c)
        BY <2>2, <3>2
      <4>2. h.child[t][y] \in st(a) \/ h.child[t][y] \in st(c)
        BY <2>5, <2>7, <4>1
      <4> QED BY <2>2, <4>2
    <3> QED BY <3>1, <3>2
  <2> QED BY <2>6, <2>7
<1>6. \A z \in M : z \in P
  <2>1. [x \in M |-> r[x]] \in [M -> Nat]
    BY <1>2
  <2> HIDE DEF P
  <2> QED BY <1>5, <2>1, RankInduction
<1>7. Members(h) = st(h.root) /\ h.root \in M \cup {NULL}
  BY DEF Members, st, Shaped, Tree
<1>8. Good(h.root)
  BY <1>3, <1>6, <1>7
<1> DEFINE Q == {x \in M : x \in st(h.root)}
           up == [x \in M |-> B - r[x]]
<1>9. up \in [M -> Nat]
  <2>1. \A x \in M : r[x] \in 0 .. B
    BY <1>2
  <2> QED BY <1>2, <2>1
<1>10. ASSUME NEW x \in M, \A y \in M : up[y] < up[x] => y \in Q PROVE x \in Q
  <2>1. CASE x = h.root
    <3>1. x \in Nodes
      BY <1>2
    <3>2. x \in st(x)
      BY <1>3, <3>1
    <3> QED BY <2>1, <3>2
  <2>2. CASE x # h.root
    <3>1. h.parent[x] \in M /\ \E t \in Sides : h.child[t][h.parent[x]] = x
      BY <2>2 DEF Shaped, Tree
    <3>2. PICK p, t : p = h.parent[x] /\ t \in Sides /\ h.child[t][p] = x
      BY <3>1
    <3>3. p \in M /\ x # NULL /\ r[x] < r[p]
      BY <1>2, <3>1, <3>2
    <3>4. up[p] < up[x]
      <4>1. r[p] \in 0 .. B /\ r[x] \in 0 .. B
        BY <1>2, <3>3
      <4> QED BY <1>2, <3>3, <4>1
    <3>5. p \in st(h.root)
      <4>1. p \in Q
        <5> HIDE DEF up, Q
        <5> QED BY <1>10, <3>3, <3>4
      <4> QED BY <4>1
    <3> QED BY <1>8, <3>2, <3>3, <3>5
  <2> QED BY <2>1, <2>2
<1>11. \A x \in M : x \in Q
  <2> HIDE DEF up, Q
  <2> QED BY <1>9, <1>10, RankInduction
<1> QED BY <1>7, <1>8, <1>11

LEMMA FrameClean ==
  ASSUME NEW h, NEW k, NEW M, Frame(h, k, M), Clean(h, M)
  PROVE  Clean(k, M)
BY DEF Frame, OutsideSame, Clean

(* The empty tree.                                                         *)
LEMMA EmptyTree == Balanced(EmptyHeap, {}) /\ Clean(EmptyHeap, {})
<1> DEFINE h == EmptyHeap
<1>1. /\ h.root = NULL /\ h.parent = [x \in Nodes |-> NULL] /\ h.color = [x \in Nodes |-> "red"]
      /\ h.child = [t \in Sides |-> [x \in Nodes |-> NULL]]
      /\ {"root", "child", "parent", "color", "start", "last", "sub"} \subseteq DOMAIN h
      /\ h = [f \in DOMAIN h |-> h[f]]
  BY DEF EmptyHeap
<1> HIDE DEF h
<1>2. IsHeap(h)
  <2>1. h.child \in [Sides -> [Nodes -> N0]] /\ h.parent \in [Nodes -> N0] /\ h.root \in N0
    BY <1>1, NullFacts
  <2>2. h.color \in [Nodes -> Colors]
    BY <1>1 DEF Colors
  <2> QED BY <1>1, <2>1, <2>2 DEF IsHeap
<1>3. Tree(h, {}) /\ Clean(h, {})
  BY <1>1, <1>2 DEF Tree, Clean
<1>4. Ranked(h, {}, [x \in Nodes |-> 0], 0)
  BY DEF Ranked
<1>5. Reds(h, {}, NULL) /\ Blacks(h, {}, [x \in N0 |-> 0], NULL, "left")
  <2>1. NULL \in N0
    BY NullFacts
  <2> QED BY <2>1 DEF Reds, Blacks
<1> QED BY <1>3, <1>4, <1>5 DEF Balanced, Shaped, h

-----------------------------------------------------------------------------
(* The rules as RbTree states them.                                        *)

LEMMA UniformHolds ==
  ASSUME NEW h, NEW M, Shaped(h, M), Clean(h, M), NEW b, NEW q, NEW e, Blacks(h, M, b, q, e)
  PROVE  Uniform(h, q, e)
<1>1. PICK r, B : Ranked(h, M, r, B)
  BY DEF Shaped
<1>2. IsHeap(h) /\ M \subseteq Nodes /\ B \in Nat /\ r \in [Nodes -> 0 .. B] /\ NULL \notin M
  BY <1>1, ShapedHeap, NullFacts DEF Ranked
<1> DEFINE S == SUBSET Nat
           r0 == [x \in N0 |-> IF x = NULL THEN 0 ELSE r[x] + 1]
           to(s) == [x \in N0 |-> IF x = NULL THEN NULL ELSE h.child[s][x]]
           lf == to("left")
           rt == to("right")
           base == [x \in N0 |-> {0}]
           raise(a, x, s) == {j + Extra(x, s, q, e) : j \in a}
           add(a, x) == {k + Black(h, x) : k \in a}
           step == [u \in N0 \X S \X S |-> add(raise(u[2], u[1], "left") \cup raise(u[3], u[1], "right"), u[1])]
<1>3. /\ r0 \in [N0 -> 0 .. B + 1] /\ B + 1 \in Nat /\ r0[NULL] = 0
      /\ \A x \in Nodes : r0[x] = r[x] + 1 /\ r[x] \in Nat
  BY <1>2, NullFacts DEF N0
<1>4. ASSUME NEW s \in Sides
      PROVE  to(s) \in [N0 -> N0] /\ \A x \in N0 : x \notin {NULL} => r0[to(s)[x]] < r0[x]
  <2>1. ASSUME NEW x \in Nodes PROVE h.child[s][x] \in N0 /\ r0[h.child[s][x]] < r0[x]
    <3>1. h.child[s][x] \in N0
      BY <1>2, HeapTypes
    <3>2. CASE h.child[s][x] = NULL
      <4> HIDE DEF r0
      <4> QED BY <1>3, <3>1, <3>2
    <3>3. CASE h.child[s][x] # NULL
      <4>1. x \in M
        BY <3>3 DEF Clean
      <4>2. h.child[s][x] \in Nodes /\ r[h.child[s][x]] < r[x]
        BY <1>1, <3>3, <4>1, ChildFacts DEF Ranked
      <4> HIDE DEF r0
      <4> QED BY <1>3, <3>1, <4>2
    <3> QED BY <3>2, <3>3
  <2>2. \A x \in N0 : x # NULL => x \in Nodes
    BY DEF N0
  <2>3. \A x \in N0 : to(s)[x] = IF x = NULL THEN NULL ELSE h.child[s][x]
    OBVIOUS
  <2>4. to(s) \in [N0 -> N0]
    BY <2>1, <2>2, NullFacts
  <2> HIDE DEF r0, to
  <2> QED BY <2>1, <2>2, <2>3, <2>4
<1>5. lf \in [N0 -> N0] /\ rt \in [N0 -> N0] /\ base \in [N0 -> S]
      /\ \A x \in N0 : x \notin {NULL} => r0[lf[x]] < r0[x] /\ r0[rt[x]] < r0[x]
  <2>1. base \in [N0 -> S]
    OBVIOUS
  <2> HIDE DEF to, r0, base
  <2> QED BY <1>4, <2>1, SidesFacts
<1>6. step \in [N0 \X S \X S -> S]
  <2> SUFFICES ASSUME NEW u \in N0 \X S \X S
               PROVE  add(raise(u[2], u[1], "left") \cup raise(u[3], u[1], "right"), u[1]) \in S
    OBVIOUS
  <2>1. u[2] \subseteq Nat /\ u[3] \subseteq Nat
    OBVIOUS
  <2>2. \A s : Extra(u[1], s, q, e) \in Nat
    BY DEF Extra
  <2>3. Black(h, u[1]) \in Nat
    BY DEF Black
  <2> QED BY <2>1, <2>2, <2>3
<1>7. \E f \in [N0 -> S] : Unfolds(f, N0, {NULL}, lf, rt, base, step)
  <2> HIDE DEF S, lf, rt, base, step, r0
  <2> QED BY <1>3, <1>5, <1>6, RecursionExists
<1>8. PICK f \in [N0 -> S] : Unfolds(f, N0, {NULL}, lf, rt, base, step)
  BY <1>7
<1> DEFINE spread(d, x) == UNION {{j + Extra(x, s, q, e) : j \in d[h.child[s][x]]} : s \in Sides}
<1>9. ASSUME NEW x \in N0 PROVE f[x] = IF x = NULL THEN {0} ELSE add(spread(f, x), x)
  <2>1. f[x] = IF x \in {NULL} THEN base[x] ELSE step[<<x, f[lf[x]], f[rt[x]]>>]
    BY <1>8 DEF Unfolds
  <2>2. f[lf[x]] \in S /\ f[rt[x]] \in S
    BY <1>5, <1>8
  <2>3. step[<<x, f[lf[x]], f[rt[x]]>>]
          = add(raise(f[lf[x]], x, "left") \cup raise(f[rt[x]], x, "right"), x)
    <3>1. <<x, f[lf[x]], f[rt[x]]>> \in N0 \X S \X S
      BY <2>2
    <3> HIDE DEF add, raise, S, lf, rt
    <3> QED BY <3>1
  <2>4. base[x] = {0} /\ (x # NULL => lf[x] = h.child["left"][x] /\ rt[x] = h.child["right"][x])
    OBVIOUS
  <2>5. x # NULL => raise(f[lf[x]], x, "left") \cup raise(f[rt[x]], x, "right") = spread(f, x)
    <3>1. Sides = {"left", "right"}
      BY DEF Sides
    <3>2. spread(f, x) = UNION {raise(f[h.child[s][x]], x, s) : s \in {"left", "right"}}
      BY <3>1
    <3>3. UNION {raise(f[h.child[s][x]], x, s) : s \in {"left", "right"}}
            = raise(f[h.child["left"][x]], x, "left") \cup raise(f[h.child["right"][x]], x, "right")
      <4> HIDE DEF raise
      <4> QED OBVIOUS
    <3> HIDE DEF raise, spread, lf, rt
    <3> QED BY <2>4, <3>2, <3>3
  <2> HIDE DEF step, base, lf, rt, add, raise, spread
  <2> QED BY <2>1, <2>3, <2>4, <2>5
<1> DEFINE extra(x, s) == IF x = q /\ s = e THEN 1 ELSE 0
           Heights(d) == [x \in Nodes \cup {NULL} |->
             IF x = NULL THEN {0}
             ELSE {k + (IF h.color[x] = "black" THEN 1 ELSE 0) :
                     k \in UNION {{j + extra(x, s) : j \in d[h.child[s][x]]} : s \in Sides}}]
           g == CHOOSE height : height = Heights(height)
<1>10. ASSUME NEW d PROVE Heights(d) = [x \in N0 |-> IF x = NULL THEN {0} ELSE add(spread(d, x), x)]
  BY DEF N0, Extra, Black
<1>11. f = Heights(f)
  <2>1. f = [x \in N0 |-> IF x = NULL THEN {0} ELSE add(spread(f, x), x)]
    <3> HIDE DEF add, spread
    <3> QED BY <1>9
  <2> HIDE DEF Heights, add, spread
  <2> QED BY <1>10, <2>1
<1>12. g = Heights(g)
  <2> HIDE DEF Heights
  <2> QED BY <1>11
<1>13. Uniform(h, q, e) <=> Cardinality(g[h.root]) = 1
  BY DEF Uniform
<1> HIDE DEF g
<1>14. \A x \in N0 : g[x] = IF x = NULL THEN {0} ELSE add(spread(g, x), x)
  <2>1. Heights(g) = [x \in N0 |-> IF x = NULL THEN {0} ELSE add(spread(g, x), x)]
    BY DEF N0, Extra, Black
  <2> HIDE DEF Heights, add, spread
  <2> QED BY <1>12, <2>1
<1>15. /\ b \in [N0 -> Nat] /\ b[NULL] = 0
       /\ \A x \in M, s \in Sides : b[x] = b[h.child[s][x]] + Extra(x, s, q, e) + Black(h, x)
  BY DEF Blacks, BlackAt
<1> DEFINE P == {x \in M : g[x] = {b[x]}}
<1>16. g[NULL] = {b[NULL]}
  BY <1>14, <1>15, NullFacts
<1>17. ASSUME NEW x \in M, \A y \in M : r[y] < r[x] => y \in P PROVE x \in P
  <2>1. x \in N0 /\ x # NULL /\ x \in Nodes
    BY <1>2, NullFacts
  <2>2. ASSUME NEW s \in Sides PROVE g[h.child[s][x]] = {b[h.child[s][x]]} /\ b[h.child[s][x]] \in Nat
    <3>1. CASE h.child[s][x] = NULL
      BY <1>15, <1>16, <3>1, NullFacts
    <3>2. CASE h.child[s][x] # NULL
      <4>1. h.child[s][x] \in M /\ r[h.child[s][x]] < r[x] /\ h.child[s][x] \in Nodes
        BY <1>1, <3>2, ChildFacts DEF Ranked
      <4>2. h.child[s][x] \in P
        <5> HIDE DEF P
        <5> QED BY <1>17, <4>1
      <4> QED BY <1>15, <4>1, <4>2, NullFacts
    <3> QED BY <3>1, <3>2
  <2>3. spread(g, x) = {b[h.child[s][x]] + Extra(x, s, q, e) : s \in Sides}
    <3>1. ASSUME NEW s \in Sides
          PROVE  {j + Extra(x, s, q, e) : j \in g[h.child[s][x]]} = {b[h.child[s][x]] + Extra(x, s, q, e)}
      BY <2>2
    <3> DEFINE a(s) == {j + Extra(x, s, q, e) : j \in g[h.child[s][x]]}
               c(s) == b[h.child[s][x]] + Extra(x, s, q, e)
    <3>2. \A s \in Sides : a(s) = {c(s)}
      BY <3>1
    <3>3. UNION {a(s) : s \in Sides} = {c(s) : s \in Sides}
      <4> HIDE DEF a, c
      <4> QED BY <3>2
    <3> QED BY <3>3
  <2>4. g[x] = add(spread(g, x), x)
    <3> HIDE DEF add, spread
    <3> QED BY <1>14, <2>1
  <2>5. \A k \in spread(g, x) : k + Black(h, x) = b[x]
    <3> HIDE DEF spread
    <3> QED BY <1>15, <2>3
  <2>6. spread(g, x) # {}
    <3>1. b[h.child["left"][x]] + Extra(x, "left", q, e) \in spread(g, x)
      <4> HIDE DEF spread
      <4> QED BY <2>3, SidesFacts
    <3> QED BY <3>1
  <2>7. add(spread(g, x), x) = {b[x]}
    <3> HIDE DEF spread
    <3> QED BY <2>5, <2>6
  <2> QED BY <2>4, <2>7
<1>18. \A x \in M : x \in P
  <2>1. [x \in M |-> r[x]] \in [M -> Nat]
    BY <1>2
  <2> HIDE DEF P
  <2> QED BY <1>17, <2>1, RankInduction
<1>19. g[h.root] = {b[h.root]}
  <2>1. h.root \in M \cup {NULL}
    BY DEF Shaped, Tree
  <2> QED BY <1>16, <1>18, <2>1
<1>20. Cardinality({b[h.root]}) = 1
  BY FS_Singleton
<1> QED BY <1>13, <1>19, <1>20

LEMMA RedsApartHolds ==
  ASSUME NEW h, NEW M, Shaped(h, M), Clean(h, M), NEW x0, Reds(h, M, x0)
  PROVE  RedsApart(h, x0)
<1>1. Members(h) = M /\ NULL \notin M
  BY MembersAre, ShapedHeap, NullFacts
<1> QED BY <1>1 DEF RedsApart, Reds

-----------------------------------------------------------------------------
(* The invariant: M is the set of the nodes of the tree.                   *)

RulesOf(M) ==
  /\ Clean(heap, M) /\ loop \in {"idle", "insert", "erase"}
  /\ loop = "idle" => Balanced(heap, M)
  /\ loop = "insert" => Inserting(heap, M, node)
  /\ loop = "erase" => Erasing(heap, M, node, parent)

TreeRules == \E M : RulesOf(M)

LEMMA RulesShaped ==
  ASSUME NEW M, RulesOf(M)
  PROVE  Shaped(heap, M) /\ Clean(heap, M) /\ Members(heap) = M
<1>1. Shaped(heap, M)
  BY DEF RulesOf, Balanced, Inserting, Erasing, Deficient
<1> QED BY <1>1, MembersAre DEF RulesOf

LEMMA TreeRulesInit == TreeInit => TreeRules
<1> SUFFICES ASSUME TreeInit PROVE RulesOf({})
  BY DEF TreeRules
<1> QED BY EmptyTree DEF RulesOf, TreeInit

LEMMA InsertKeepsRules ==
  ASSUME NEW M, RulesOf(M), NEW n \in Nodes, interval_tree_insert(n)
  PROVE  TreeRules'
<1>1. n \notin M /\ loop = "idle" /\ Balanced(heap, M) /\ Clean(heap, M)
  BY RulesShaped DEF interval_tree_insert, RulesOf
<1>2. Inserting(Place(heap, n, START[n], LAST[n]), M \cup {n}, n) /\ Clean(Place(heap, n, START[n], LAST[n]), M \cup {n})
  BY <1>1, PlaceKeeps
<1>3. heap' = Place(heap, n, START[n], LAST[n]) /\ loop' = "insert" /\ node' = n
  BY DEF interval_tree_insert
<1>4. RulesOf(M \cup {n})'
  BY <1>2, <1>3 DEF RulesOf
<1> QED BY <1>4 DEF TreeRules

LEMMA RebalanceInsertedKeepsRules ==
  ASSUME NEW M, RulesOf(M), RebalanceInserted
  PROVE  TreeRules'
<1> DEFINE step == InsertStep(heap, node, "augment")
<1>1. loop = "insert" /\ Inserting(heap, M, node) /\ Clean(heap, M)
  BY DEF RebalanceInserted, RulesOf
<1>2. /\ Frame(heap, step.heap, M)
      /\ step.node = NULL => Balanced(step.heap, M)
      /\ step.node # NULL => Inserting(step.heap, M, step.node)
  BY <1>1, InsertStepKeeps
<1>3. heap' = step.heap /\ node' = step.node /\ loop' = IF step.node = NULL THEN "idle" ELSE "insert"
  BY DEF RebalanceInserted
<1> HIDE DEF step
<1>4. Clean(step.heap, M)
  BY <1>1, <1>2, FrameClean
<1>5. RulesOf(M)'
  BY <1>2, <1>3, <1>4 DEF RulesOf
<1> QED BY <1>5 DEF TreeRules

LEMMA RemoveKeepsRules ==
  ASSUME NEW M, RulesOf(M), NEW n \in Nodes, interval_tree_remove(n)
  PROVE  TreeRules'
<1> DEFINE e == EraseNode(heap, n, "augment")
           k == Forget(e.heap, n)
<1>1. n \in M /\ loop = "idle" /\ Balanced(heap, M) /\ Clean(heap, M)
  BY RulesShaped DEF interval_tree_remove, RulesOf
<1>2. /\ Clean(k, M \ {n})
      /\ e.parent = NULL => Balanced(k, M \ {n})
      /\ e.parent # NULL => Erasing(k, M \ {n}, NULL, e.parent)
  BY <1>1, EraseNodeKeeps
<1>3. /\ heap' = k /\ parent' = e.parent /\ node' = NULL
      /\ loop' = IF e.parent = NULL THEN "idle" ELSE "erase"
  BY DEF interval_tree_remove
<1> HIDE DEF e, k
<1>4. RulesOf(M \ {n})'
  BY <1>2, <1>3 DEF RulesOf
<1> QED BY <1>4 DEF TreeRules

LEMMA RebalanceErasedKeepsRules ==
  ASSUME NEW M, RulesOf(M), RebalanceErased
  PROVE  TreeRules'
<1> DEFINE step == EraseStep(heap, node, parent, "augment")
<1>1. loop = "erase" /\ Erasing(heap, M, node, parent) /\ Clean(heap, M)
  BY DEF RebalanceErased, RulesOf
<1>2. EraseGoesOn(heap, M, parent, step)
  BY <1>1, EraseStepKeeps
<1>3. /\ heap' = step.heap /\ parent' = step.parent
      /\ step.parent # NULL => node' = step.node
      /\ loop' = IF step.parent = NULL THEN "idle" ELSE "erase"
  BY DEF RebalanceErased
<1> HIDE DEF step
<1>4. Clean(step.heap, M)
  BY <1>1, <1>2, FrameClean DEF EraseGoesOn
<1>5. RulesOf(M)'
  BY <1>2, <1>3, <1>4 DEF RulesOf, EraseGoesOn
<1> QED BY <1>5 DEF TreeRules

LEMMA ReplaceKeepsRules ==
  ASSUME NEW M, RulesOf(M), NEW n \in Nodes, NEW y \in Nodes, Replace(n, y)
  PROVE  TreeRules'
<1> DEFINE g == [heap EXCEPT !.start[y] = START[y], !.last[y] = LAST[y], !.sub[y] = heap.sub[n]]
           k == Forget(rb_replace_node(g, n, y), n)
           K == (M \ {n}) \cup {y}
<1>1. n \in M /\ y \notin M /\ loop = "idle" /\ Balanced(heap, M) /\ Clean(heap, M)
  BY RulesShaped DEF Replace, RulesOf
<1>2. Balanced(g, M) /\ Clean(g, M)
  <2>1. IsHeap(heap)
    BY <1>1, ShapedHeap DEF Balanced
  <2>2. SameTree(heap, g)
    BY <2>1, SetInterval, Zenon
  <2> HIDE DEF g
  <2> QED BY <1>1, <2>2, SameTreeKeeps
<1>3. heap' = k /\ loop' = loop
  BY DEF Replace
<1>4. Balanced(k, K) /\ Clean(k, K)
  <2> HIDE DEF g
  <2> QED BY <1>1, <1>2, ReplaceNodeKeeps
<1> HIDE DEF k, K
<1>5. RulesOf(K)'
  BY <1>1, <1>3, <1>4 DEF RulesOf
<1> QED BY <1>5 DEF TreeRules

(* Every step keeps the rules, with the nodes that are then in the tree.   *)
LEMMA TreeRulesInductive == TreeRules /\ [TreeNext]_treeVars => TreeRules'
<1> SUFFICES ASSUME TreeRules, [TreeNext]_treeVars PROVE TreeRules'
  OBVIOUS
<1>0. PICK M : RulesOf(M)
  BY DEF TreeRules
<1>1. ASSUME NEW n \in Nodes, interval_tree_insert(n) PROVE TreeRules'
  BY <1>0, <1>1, InsertKeepsRules
<1>2. ASSUME NEW n \in Nodes, interval_tree_remove(n) PROVE TreeRules'
  BY <1>0, <1>2, RemoveKeepsRules
<1>3. ASSUME NEW n \in Nodes, NEW y \in Nodes, Replace(n, y) PROVE TreeRules'
  BY <1>0, <1>3, ReplaceKeepsRules
<1>4. CASE RebalanceInserted
  BY <1>0, <1>4, RebalanceInsertedKeepsRules
<1>5. CASE RebalanceErased
  BY <1>0, <1>5, RebalanceErasedKeepsRules
<1>6. CASE UNCHANGED treeVars
  <2>1. heap' = heap /\ loop' = loop /\ node' = node /\ parent' = parent
    BY <1>6 DEF treeVars
  <2>2. RulesOf(M)'
    BY <1>0, <2>1 DEF RulesOf
  <2> QED BY <2>2 DEF TreeRules
<1> QED BY <1>1, <1>2, <1>3, <1>4, <1>5, <1>6 DEF TreeNext, Rebalance

LEMMA TreeRulesImplyRedBlack == TreeRules => RedBlack
<1> SUFFICES ASSUME NEW M, RulesOf(M) PROVE RedBlack
  BY DEF TreeRules
<1>1. Shaped(heap, M) /\ Clean(heap, M) /\ Members(heap) = M /\ NULL \notin M
  BY RulesShaped, ShapedHeap, NullFacts
<1>2. ASSUME loop = "idle" PROVE RedsApart(heap, NULL) /\ Uniform(heap, NULL, "left")
  <2>1. Reds(heap, M, NULL) /\ \E b : Blacks(heap, M, b, NULL, "left")
    BY <1>2 DEF RulesOf, Balanced
  <2> QED BY <1>1, <2>1, RedsApartHolds, UniformHolds
<1>3. ASSUME loop = "insert"
      PROVE  heap.color[node] = "red" /\ RedsApart(heap, node) /\ Uniform(heap, NULL, "left")
  <2>1. heap.color[node] = "red" /\ Reds(heap, M, node) /\ \E b : Blacks(heap, M, b, NULL, "left")
    BY <1>3 DEF RulesOf, Inserting
  <2> QED BY <1>1, <2>1, RedsApartHolds, UniformHolds
<1>4. ASSUME loop = "erase"
      PROVE  /\ parent # NULL /\ IsBlack(heap, node)
             /\ RedsApart(heap, NULL)
             /\ Uniform(heap, parent, IF heap.child["right"][parent] # node THEN "left" ELSE "right")
  <2> DEFINE s == SiblingSide(heap, node, parent)
  <2>1. PICK b : Deficient(heap, M, node, parent, s, b)
    BY <1>4 DEF RulesOf, Erasing
  <2>2. /\ Reds(heap, M, NULL) /\ parent \in M /\ IsBlack(heap, node)
        /\ Blacks(heap, M, b, parent, Opposite(s))
    BY <2>1 DEF Deficient
  <2>3. Opposite(s) = IF heap.child["right"][parent] # node THEN "left" ELSE "right"
    BY DEF SiblingSide, Opposite
  <2> HIDE DEF s
  <2>4. Uniform(heap, parent, Opposite(s))
    BY <1>1, <2>2, UniformHolds
  <2> QED BY <1>1, <2>2, <2>3, <2>4, RedsApartHolds
<1> QED BY <1>2, <1>3, <1>4 DEF RedBlack

(* After every operation, and at every iteration of the rebalancing loops, *)
(* the tree obeys the rules that these loops rely on and restore.          *)
THEOREM RulesAlwaysHold == TreeSpec => []RedBlack
<1>1. TreeSpec => []TreeRules
  BY TreeRulesInit, TreeRulesInductive, PTL DEF TreeSpec
<1> QED BY <1>1, TreeRulesImplyRedBlack, PTL

-----------------------------------------------------------------------------
(* The loops climb.                                                        *)

LEMMA UpwardUnfolds ==
  ASSUME NEW h, NEW M, Shaped(h, M), Clean(h, M)
  PROVE  /\ \A x \in N0 : Upward(h, x, NULL) \in Seq(N0)
         /\ \A x \in Nodes : Upward(h, x, NULL) = <<x>> \o Upward(h, h.parent[x], NULL)
<1>1. PICK r, B : Ranked(h, M, r, B)
  BY DEF Shaped
<1>2. /\ IsHeap(h) /\ M \subseteq Nodes /\ B \in Nat /\ r \in [Nodes -> 0 .. B] /\ NULL \notin M
      /\ \A x \in M, t \in Sides : h.child[t][x] # NULL => r[h.child[t][x]] < r[x]
  BY <1>1, ShapedHeap, NullFacts DEF Ranked
<1> DEFINE S == Seq(N0)
           r0 == [x \in N0 |-> IF x = NULL THEN 0 ELSE B - r[x] + 1]
           lf == [x \in N0 |-> IF x = NULL THEN NULL ELSE h.parent[x]]
           base == [x \in N0 |-> <<>>]
           step == [u \in N0 \X S \X S |-> <<u[1]>> \o u[2]]
<1>3. /\ r0 \in [N0 -> 0 .. B + 1] /\ B + 1 \in Nat /\ r0[NULL] = 0
      /\ \A x \in Nodes : r0[x] = B - r[x] + 1 /\ r[x] \in Nat /\ r[x] <= B
  BY <1>2, NullFacts DEF N0
<1>4. /\ lf \in [N0 -> N0] /\ lf[NULL] = NULL
      /\ \A x \in Nodes : lf[x] = h.parent[x] /\ h.parent[x] \in N0
  BY <1>2, NullFacts DEF N0, IsHeap
<1>5. ASSUME NEW x \in N0, x \notin {NULL} PROVE r0[lf[x]] < r0[x]
  <2>1. x \in Nodes
    BY <1>5 DEF N0
  <2>2. CASE h.parent[x] = NULL
    <3> HIDE DEF r0, lf
    <3> QED BY <1>2, <1>3, <1>4, <2>1, <2>2
  <2>3. CASE h.parent[x] # NULL
    <3>1. x \in M
      BY <2>1, <2>3 DEF Clean
    <3>2. x # h.root
      BY <2>3, <3>1, <1>2 DEF Shaped, Tree
    <3>3. PICK p, t : p = h.parent[x] /\ p \in M /\ t \in Sides /\ h.child[t][p] = x
      BY <3>1, <3>2 DEF Shaped, Tree
    <3>4. r[x] < r[p] /\ p \in Nodes
      BY <1>2, <1>5, <3>3
    <3> HIDE DEF r0, lf
    <3> QED BY <1>2, <1>3, <1>4, <2>1, <3>3, <3>4
  <2> QED BY <2>2, <2>3
<1>6. step \in [N0 \X S \X S -> S]
  <2> SUFFICES ASSUME NEW u \in N0 \X S \X S PROVE <<u[1]>> \o u[2] \in S
    OBVIOUS
  <2>1. u[1] \in N0 /\ u[2] \in Seq(N0)
    OBVIOUS
  <2> QED BY <2>1, PushFront
<1>7. base \in [N0 -> S]
  OBVIOUS
<1>8. \E f \in [N0 -> S] : Unfolds(f, N0, {NULL}, lf, lf, base, step)
  <2> HIDE DEF S, lf, base, step, r0
  <2> QED BY <1>3, <1>4, <1>5, <1>6, <1>7, RecursionExists
<1>9. PICK f \in [N0 -> S] : Unfolds(f, N0, {NULL}, lf, lf, base, step)
  BY <1>8
<1>10. ASSUME NEW x \in N0 PROVE f[x] = IF x \in {NULL} THEN <<>> ELSE <<x>> \o f[h.parent[x]]
  <2>1. f[x] = IF x \in {NULL} THEN base[x] ELSE step[<<x, f[lf[x]], f[lf[x]]>>]
    BY <1>9 DEF Unfolds
  <2>2. f[lf[x]] \in S
    BY <1>4, <1>9
  <2>3. step[<<x, f[lf[x]], f[lf[x]]>>] = <<x>> \o f[lf[x]]
    <3>1. <<x, f[lf[x]], f[lf[x]]>> \in N0 \X S \X S
      BY <2>2
    <3> QED BY <3>1
  <2>4. base[x] = <<>> /\ (x # NULL => lf[x] = h.parent[x])
    OBVIOUS
  <2> HIDE DEF step, base, lf
  <2> QED BY <2>1, <2>3, <2>4
<1>11. f = [x \in N0 |-> IF x \in {NULL, NULL} THEN <<>> ELSE <<x>> \o f[h.parent[x]]]
  BY <1>10
<1> DEFINE g == CHOOSE up : up = [x \in Nodes \cup {NULL} |->
                  IF x \in {NULL, NULL} THEN <<>> ELSE <<x>> \o up[h.parent[x]]]
<1>12. g = [x \in N0 |-> IF x \in {NULL, NULL} THEN <<>> ELSE <<x>> \o g[h.parent[x]]]
  BY <1>11, Zenon DEF N0
<1>13. \A x : Upward(h, x, NULL) = g[x]
  BY DEF Upward
<1> HIDE DEF g
<1>14. /\ g[NULL] = <<>>
       /\ \A x \in Nodes : g[x] = <<x>> \o g[h.parent[x]]
  BY <1>12, NullFacts
<1> DEFINE P == {x \in N0 : g[x] \in S}
<1>15. ASSUME NEW x \in N0, \A y \in N0 : r0[y] < r0[x] => y \in P PROVE x \in P
  <2>1. CASE x = NULL
    <3>1. <<>> \in S
      OBVIOUS
    <3> HIDE DEF S
    <3> QED BY <1>14, <2>1, <3>1
  <2>2. CASE x # NULL
    <3>1. x \in Nodes
      BY <2>2 DEF N0
    <3>2. lf[x] \in P
      <4> HIDE DEF lf, r0, P
      <4> QED BY <1>4, <1>5, <1>15, <2>2
    <3>3. g[h.parent[x]] \in Seq(N0)
      <4> HIDE DEF lf
      <4> QED BY <1>4, <3>1, <3>2
    <3>4. <<x>> \o g[h.parent[x]] \in Seq(N0)
      BY <3>3, PushFront
    <3> QED BY <1>14, <3>1, <3>4
  <2> QED BY <2>1, <2>2
<1>16. \A x \in N0 : x \in P
  <2>1. r0 \in [N0 -> Nat]
    <3> HIDE DEF r0
    <3> QED BY <1>3
  <2> HIDE DEF P, r0
  <2> QED BY <1>15, <2>1, RankInduction
<1> QED BY <1>13, <1>14, <1>16

LEMMA DepthBelow ==
  ASSUME NEW h, NEW M, Shaped(h, M), Clean(h, M), NEW x \in Nodes
  PROVE  /\ Depth(h, x) = Depth(h, h.parent[x]) + 1
         /\ Depth(h, x) \in Nat /\ Depth(h, h.parent[x]) \in Nat
<1>1. h.parent[x] \in N0 /\ x \in N0
  BY ShapedHeap, HeapTypes, NullFacts
<1> DEFINE t == Upward(h, h.parent[x], NULL)
<1>2. t \in Seq(N0) /\ Upward(h, x, NULL) = <<x>> \o t
  BY <1>1, UpwardUnfolds
<1> HIDE DEF t
<1>3. Len(<<x>> \o t) = Len(t) + 1 /\ Len(t) \in Nat
  BY <1>1, <1>2, PushFront, LenProperties
<1>4. Depth(h, x) = Len(t) + 1 /\ Depth(h, h.parent[x]) = Len(t)
  BY <1>2, <1>3 DEF Depth, t
<1> QED BY <1>3, <1>4

LEMMA PaintedDepth ==
  ASSUME NEW h, NEW k, Painted(h, k), NEW x
  PROVE  Depth(k, x) = Depth(h, x)
BY DEF Painted, Depth, Upward

LEMMA StepClimbs ==
  TreeRules /\ [TreeNext]_treeVars =>
    [/\ loop = "insert" /\ loop' = "insert" => Depth(heap', node') < Depth(heap, node)
     /\ loop = "erase" /\ loop' = "erase" => Depth(heap', parent') < Depth(heap, parent)]_treeVars
<1> SUFFICES ASSUME TreeRules, TreeNext
             PROVE  /\ loop = "insert" /\ loop' = "insert" => Depth(heap', node') < Depth(heap, node)
                    /\ loop = "erase" /\ loop' = "erase" => Depth(heap', parent') < Depth(heap, parent)
  OBVIOUS
<1>1. PICK M : RulesOf(M)
  BY DEF TreeRules
<1>2. Shaped(heap, M) /\ Clean(heap, M) /\ M \subseteq Nodes
  BY <1>1, RulesShaped, ShapedHeap
<1>3. ASSUME loop = "insert", loop' = "insert" PROVE Depth(heap', node') < Depth(heap, node)
  <2> DEFINE step == InsertStep(heap, node, "augment")
             p == heap.parent[node]
  <2>1. RebalanceInserted
    BY <1>3 DEF TreeNext, Rebalance, interval_tree_insert, interval_tree_remove, Replace, RebalanceErased
  <2>2. heap' = step.heap /\ node' = step.node /\ step.node # NULL
    BY <1>3, <2>1 DEF RebalanceInserted
  <2>3. Inserting(heap, M, node)
    BY <1>1, <1>3 DEF RulesOf
  <2>4. Painted(heap, step.heap) /\ p \in M /\ step.node = heap.parent[p]
    BY <2>2, <2>3, InsertStepKeeps
  <2> HIDE DEF step
  <2>5. Depth(heap', node') = Depth(heap, heap.parent[p])
    BY <2>2, <2>4, PaintedDepth
  <2>6. node \in Nodes /\ p \in Nodes
    BY <1>2, <2>3, <2>4 DEF Inserting
  <2>7. Depth(heap, node) = Depth(heap, p) + 1 /\ Depth(heap, p) \in Nat
    BY <1>2, <2>6, DepthBelow
  <2> HIDE DEF p
  <2>8. Depth(heap, p) = Depth(heap, heap.parent[p]) + 1 /\ Depth(heap, heap.parent[p]) \in Nat
    BY <1>2, <2>6, DepthBelow
  <2> QED BY <2>5, <2>7, <2>8
<1>4. ASSUME loop = "erase", loop' = "erase" PROVE Depth(heap', parent') < Depth(heap, parent)
  <2> DEFINE step == EraseStep(heap, node, parent, "augment")
  <2>1. RebalanceErased
    BY <1>4 DEF TreeNext, Rebalance, interval_tree_insert, interval_tree_remove, Replace, RebalanceInserted
  <2>2. heap' = step.heap /\ parent' = step.parent /\ step.parent # NULL
    BY <1>4, <2>1 DEF RebalanceErased
  <2>3. Erasing(heap, M, node, parent)
    BY <1>1, <1>4 DEF RulesOf
  <2>4. EraseGoesOn(heap, M, parent, step)
    BY <2>3, EraseStepKeeps
  <2> HIDE DEF step
  <2>5. Painted(heap, step.heap) /\ step.parent = heap.parent[parent]
    BY <2>2, <2>4 DEF EraseGoesOn
  <2>6. parent \in Nodes
    BY <1>2, <2>3 DEF Erasing, Deficient
  <2>7. Depth(heap', parent') = Depth(heap, heap.parent[parent])
    BY <2>2, <2>5, PaintedDepth
  <2>8. Depth(heap, parent) = Depth(heap, heap.parent[parent]) + 1 /\ Depth(heap, heap.parent[parent]) \in Nat
    BY <1>2, <2>6, DepthBelow
  <2> QED BY <2>7, <2>8
<1> QED BY <1>3, <1>4

(* The rebalancing loops end: every iteration that goes on works nearer to *)
(* the root.                                                               *)
THEOREM LoopsAlwaysClimb == TreeSpec => LoopsClimb
<1>1. TreeSpec => []TreeRules
  BY TreeRulesInit, TreeRulesInductive, PTL DEF TreeSpec
<1> QED BY <1>1, StepClimbs, PTL DEF TreeSpec, LoopsClimb
=============================================================================
