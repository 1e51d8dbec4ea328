------------------------ MODULE InstrumentPassProofs -------------------------
(***************************************************************************)
(* The pass and the functions it compiles, for any module: whatever the    *)
(* functions and their bodies, every access of an instrumented function is *)
(* recorded or covered, records are true and unique and come from parallel *)
(* code only, and the globals are defined.                                 *)
(*                                                                         *)
(* The loops of the pass are recursive functions.  What they compute is    *)
(* proved by induction in the form of a set of numbers that has no least   *)
(* element outside of it.                                                  *)
(***************************************************************************)
EXTENDS InstrumentPass, WellFoundedInduction, SequenceTheorems, FiniteSetTheorems, TLAPS

-----------------------------------------------------------------------------
(* Induction and recursion.                                                *)

LEMMA LeastNat ==
  ASSUME NEW T, T \subseteq Nat, T # {}
  PROVE  \E x \in T : \A y \in T : x <= y
<1>r. PICK R : R = {ss \in Nat \X Nat : ss[1] < ss[2]}
  OBVIOUS
<1>1. IsWellFoundedOn(R, Nat)
  BY <1>r, NatLessThanWellFounded DEF OpToRel
<1>2. \A x, y \in Nat : x < y => <<x, y>> \in R
  BY <1>r
<1>3. PICK x \in T : \A y \in T : ~ (<<y, x>> \in R)
  BY <1>1, WFMin
<1>4. \A y \in T : x \in Nat /\ y \in Nat /\ ~(y < x)
  BY <1>2, <1>3
<1> QED BY <1>3, <1>4

LEMMA Induction ==
  ASSUME NEW S, 0 \in S, \A n \in Nat : n \in S => n + 1 \in S
  PROVE  Nat \subseteq S
<1> SUFFICES ASSUME Nat \ S # {} PROVE FALSE
  OBVIOUS
<1>1. PICK x \in Nat \ S : \A y \in Nat \ S : x <= y
  BY LeastNat
<1>2. x # 0 /\ x - 1 \in Nat /\ (x - 1) + 1 = x
  BY <1>1
<1>3. x - 1 \in S
  BY <1>1, <1>2
<1> QED BY <1>1, <1>2, <1>3

(* Induction up to a bound.                                                *)
LEMMA LoopInduction ==
  ASSUME NEW N \in Nat, NEW S, 0 \in S, \A n \in 1 .. N : n - 1 \in S => n \in S
  PROVE  0 .. N \subseteq S
<1> DEFINE T == {n \in Nat : n <= N => n \in S}
<1>1. 0 \in T
  OBVIOUS
<1>2. ASSUME NEW n \in Nat, n \in T PROVE n + 1 \in T
  <2>1. CASE n + 1 <= N
    <3>1. n + 1 \in 1 .. N /\ (n + 1) - 1 = n /\ n \in S
      BY <1>2, <2>1
    <3> QED BY <3>1
  <2>2. CASE ~(n + 1 <= N)
    BY <2>2
  <2> QED BY <2>1, <2>2
<1> HIDE DEF T
<1>3. Nat \subseteq T
  BY <1>1, <1>2, Induction
<1> QED BY <1>3 DEF T

(* A function defined by recursion exists.                                 *)
Steps(A) == [Nat \X A -> A]
Unfolds(g, base, N, st) ==
  \A n \in 0 .. N : g[n] = IF n = 0 THEN base ELSE st[<<n, g[n - 1]>>]

LEMMA RecursionExists ==
  ASSUME NEW A, NEW base \in A, NEW N \in Nat, NEW st \in Steps(A)
  PROVE  \E g \in [0 .. N -> A] : Unfolds(g, base, N, st)
<1> USE DEF Steps
<1> DEFINE Good(n, g) == g = [k \in 0 .. n |-> IF k = 0 THEN base ELSE st[<<k, g[k - 1]>>]]
           S == {n \in Nat : \E g \in [0 .. n -> A] : Good(n, g)}
<1>1. 0 \in S
  <2> DEFINE h == [k \in 0 .. 0 |-> base]
  <2>1. h \in [0 .. 0 -> A] /\ Good(0, h)
    OBVIOUS
  <2> QED BY <2>1
<1>2. ASSUME NEW n \in Nat, n \in S PROVE n + 1 \in S
  <2>1. PICK g \in [0 .. n -> A] : Good(n, g)
    BY <1>2
  <2>2. PICK h : h = [k \in 0 .. n + 1 |-> IF k = n + 1 THEN st[<<n + 1, g[n]>>] ELSE g[k]]
    OBVIOUS
  <2>3. h \in [0 .. n + 1 -> A]
    BY <2>2
  <2>4. ASSUME NEW k \in 0 .. n + 1
        PROVE  h[k] = IF k = 0 THEN base ELSE st[<<k, h[k - 1]>>]
    <3>1. CASE k = n + 1
      <4>1. h[k] = st[<<n + 1, g[n]>>] /\ n \in 0 .. n + 1 /\ n # n + 1 /\ k # 0 /\ k - 1 = n
        BY <2>2, <3>1
      <4>2. h[n] = g[n]
        BY <2>2, <4>1
      <4> QED BY <3>1, <4>1, <4>2
    <3>2. CASE k # n + 1
      <4>1. k \in 0 .. n /\ h[k] = g[k] /\ (k # 0 => h[k - 1] = g[k - 1])
        BY <2>2, <3>2
      <4>2. g[k] = IF k = 0 THEN base ELSE st[<<k, g[k - 1]>>]
        BY <2>1, <4>1
      <4> QED BY <4>1, <4>2
    <3> QED BY <3>1, <3>2
  <2>5. Good(n + 1, h)
    BY <2>3, <2>4
  <2>6. n + 1 \in Nat
    OBVIOUS
  <2> QED BY <2>3, <2>5, <2>6
<1> HIDE DEF S
<1>3. Nat \subseteq S
  BY <1>1, <1>2, Induction
<1>4. N \in S
  BY <1>3
<1>5. PICK g \in [0 .. N -> A] : Good(N, g)
  BY <1>4 DEF S
<1>6. Unfolds(g, base, N, st)
  BY <1>5 DEF Unfolds
<1> HIDE DEF Good
<1> QED BY <1>5, <1>6

LEMMA Appended ==
  ASSUME NEW A, NEW s \in Seq(A), NEW x \in A
  PROVE  /\ Append(s, x) \in Seq(A) /\ ToSet(Append(s, x)) = ToSet(s) \cup {x}
         /\ IsInjective(s) /\ x \notin ToSet(s) => IsInjective(Append(s, x))
<1>t. PICK t : t = Append(s, x)
  OBVIOUS
<1>1. /\ t \in Seq(A) /\ DOMAIN s = 1 .. Len(s) /\ Len(s) \in Nat
      /\ DOMAIN t = 1 .. Len(s) + 1 /\ t[Len(s) + 1] = x
      /\ \A k \in 1 .. Len(s) : t[k] = s[k]
  BY <1>t
<1>2. ToSet(t) = ToSet(s) \cup {x}
  <2>1. \A k \in DOMAIN t : k \in DOMAIN s \/ k = Len(s) + 1
    BY <1>1
  <2>2. \A k \in DOMAIN s : k \in DOMAIN t
    BY <1>1
  <2>3. Len(s) + 1 \in DOMAIN t
    BY <1>1
  <2> QED BY <1>1, <2>1, <2>2, <2>3 DEF ToSet
<1>3. ASSUME IsInjective(s), x \notin ToSet(s) PROVE IsInjective(t)
  <2> SUFFICES ASSUME NEW i \in DOMAIN t, NEW j \in DOMAIN t, t[i] = t[j] PROVE i = j
    BY DEF IsInjective
  <2>1. \A k \in DOMAIN t : k \in DOMAIN s \/ k = Len(s) + 1
    BY <1>1
  <2>2. \A k \in DOMAIN s : s[k] # x /\ t[k] = s[k]
    BY <1>1, <1>3 DEF ToSet
  <2> QED BY <1>1, <1>3, <2>1, <2>2 DEF IsInjective
<1> QED BY <1>t, <1>1, <1>2, <1>3

-----------------------------------------------------------------------------
(* The loop that erases bookkeeping from AllLoadsAndStores.                *)

Kept(P) == [kept : Seq(P), skip : BOOLEAN]

LEMMA EraseLoop ==
  ASSUME NEW body, NEW P, NEW all \in Seq(P)
  PROVE  \E v : /\ EraseBookkeeping(body, all) = v[Len(all)].kept
                /\ v[0] = [kept |-> << >>, skip |-> FALSE]
                /\ \A n \in 1 .. Len(all) : v[n] = EraseVisit(body, all, v[n - 1], n)
<1>b. PICK base : base = [kept |-> << >>, skip |-> FALSE]
  OBVIOUS
<1> DEFINE Eq(g) == g = [n \in 0 .. Len(all) |->
                           IF n = 0 THEN [kept |-> << >>, skip |-> FALSE]
                           ELSE EraseVisit(body, all, g[n - 1], n)]
<1>v. PICK v : v = CHOOSE g : Eq(g)
  OBVIOUS
<1>1. EraseBookkeeping(body, all) = v[Len(all)].kept
  BY <1>v DEF EraseBookkeeping
<1>2. Len(all) \in Nat /\ base \in Kept(P)
  BY <1>b DEF Kept
<1>3. ASSUME NEW acc \in Kept(P), NEW n \in 1 .. Len(all)
      PROVE  EraseVisit(body, all, acc, n) \in Kept(P)
  <2>1. all[n] \in P /\ acc.kept \in Seq(P)
    BY <1>3, ElementOfSeq DEF Kept
  <2>2. Append(acc.kept, all[n]) \in Seq(P)
    BY <2>1
  <2> QED BY <1>3, <2>2 DEF EraseVisit, Kept
<1>s. PICK st : st = [x \in Nat \X Kept(P) |->
                        IF x[1] \in 1 .. Len(all) THEN EraseVisit(body, all, x[2], x[1])
                        ELSE x[2]]
  OBVIOUS
<1>4. st \in [Nat \X Kept(P) -> Kept(P)]
  BY <1>s, <1>3
<1>5. PICK g \in [0 .. Len(all) -> Kept(P)] :
        \A n \in 0 .. Len(all) : g[n] = IF n = 0 THEN base ELSE st[<<n, g[n - 1]>>]
  <2>1. PICK A, N : A = Kept(P) /\ N = Len(all)
    OBVIOUS
  <2>2. base \in A /\ N \in Nat /\ st \in Steps(A)
    BY <1>2, <1>4, <2>1 DEF Steps
  <2>3. \E g \in [0 .. N -> A] : Unfolds(g, base, N, st)
    BY <2>2, RecursionExists
  <2> QED BY <2>1, <2>3 DEF Unfolds
<1>6. ASSUME NEW n \in 1 .. Len(all) PROVE st[<<n, g[n - 1]>>] = EraseVisit(body, all, g[n - 1], n)
  <2>1. n \in Nat /\ n - 1 \in 0 .. Len(all)
    BY <1>2
  <2>2. g[n - 1] \in Kept(P)
    BY <1>5, <2>1
  <2> QED BY <1>s, <2>1, <2>2
<1>7. Eq(g)
  <2>1. ASSUME NEW n \in 0 .. Len(all)
        PROVE  g[n] = IF n = 0 THEN base ELSE EraseVisit(body, all, g[n - 1], n)
    <3>1. g[n] = IF n = 0 THEN base ELSE st[<<n, g[n - 1]>>]
      BY <1>5
    <3>2. n = 0 \/ n \in 1 .. Len(all)
      BY <1>2
    <3> QED BY <1>6, <3>1, <3>2
  <2> QED BY <1>b, <1>5, <2>1
<1> HIDE DEF Eq
<1>8. Eq(v)
  BY <1>v, <1>7
<1>9. \A n \in 0 .. Len(all) :
        v[n] = IF n = 0 THEN [kept |-> << >>, skip |-> FALSE]
               ELSE EraseVisit(body, all, v[n - 1], n)
  BY <1>8 DEF Eq
<1>10. 0 \in 0 .. Len(all) /\ \A n \in 1 .. Len(all) : n \in 0 .. Len(all) /\ n # 0
  BY <1>2
<1> QED BY <1>1, <1>9, <1>10

LEMMA Erases ==
  ASSUME NEW body, NEW P, NEW all \in Seq(P)
  PROVE  /\ EraseBookkeeping(body, all) \in Seq(P)
         /\ ToSet(EraseBookkeeping(body, all)) \subseteq ToSet(all)
         /\ \A p \in ToSet(all) : ~NamesBookkeeping(body[p]) =>
              p \in ToSet(EraseBookkeeping(body, all))
         /\ IsInjective(all) => IsInjective(EraseBookkeeping(body, all))
<1>v. PICK v : /\ EraseBookkeeping(body, all) = v[Len(all)].kept
               /\ v[0] = [kept |-> << >>, skip |-> FALSE]
               /\ \A n \in 1 .. Len(all) : v[n] = EraseVisit(body, all, v[n - 1], n)
  BY EraseLoop
<1>1. Len(all) \in Nat /\ DOMAIN all = 1 .. Len(all)
  OBVIOUS
<1> DEFINE Inv(n) ==
             /\ v[n] \in Kept(P)
             /\ \A x \in ToSet(v[n].kept) : \E k \in 1 .. n : x = all[k]
             /\ \A k \in 1 .. n : ~NamesBookkeeping(body[all[k]]) =>
                  all[k] \in ToSet(v[n].kept)
             /\ IsInjective(all) => IsInjective(v[n].kept)
           S == {n \in 0 .. Len(all) : Inv(n)}
<1>2. 0 \in S
  <2>1. v[0].kept = << >> /\ v[0] \in Kept(P) /\ ToSet(<< >>) = {} /\ IsInjective(<< >>)
    BY <1>v DEF Kept, ToSet, IsInjective
  <2>2. Inv(0)
    BY <2>1
  <2> QED BY <1>1, <2>2
<1>3. ASSUME NEW n \in 1 .. Len(all), n - 1 \in S PROVE n \in S
  <2>a. PICK acc : acc = v[n - 1]
    OBVIOUS
  <2>x. PICK x : x = all[n]
    OBVIOUS
  <2>1. /\ v[n] = EraseVisit(body, all, acc, n)
        /\ acc \in Kept(P)
        /\ \A y \in ToSet(acc.kept) : \E k \in 1 .. n - 1 : y = all[k]
        /\ \A k \in 1 .. n - 1 : ~NamesBookkeeping(body[all[k]]) => all[k] \in ToSet(acc.kept)
        /\ IsInjective(all) => IsInjective(acc.kept)
    BY <1>v, <1>3, <2>a
  <2>2. x \in P /\ acc.kept \in Seq(P)
    BY <2>x, <2>1, ElementOfSeq DEF Kept
  <2>3. \A k \in 1 .. n : k \in 1 .. n - 1 \/ k = n
    BY <1>1
  <2>4. \A k \in 1 .. n - 1 : k \in 1 .. n /\ k \in DOMAIN all /\ k # n
    BY <1>1
  <2>5. n \in 1 .. n /\ n \in DOMAIN all /\ n \in 0 .. Len(all)
    BY <1>1
  <2>6. CASE ~acc.skip /\ NamesBookkeeping(body[x])
    <3>1. v[n] = [acc EXCEPT !.skip = TRUE]
      BY <2>x, <2>1, <2>6 DEF EraseVisit
    <3>2. v[n] \in Kept(P) /\ v[n].kept = acc.kept
      BY <2>1, <3>1 DEF Kept
    <3>3. Inv(n)
      BY <2>x, <2>1, <2>3, <2>4, <2>6, <3>2
    <3> QED BY <2>5, <3>3
  <2>7. CASE ~(~acc.skip /\ NamesBookkeeping(body[x]))
    <3>1. v[n] = [kept |-> Append(acc.kept, x), skip |-> FALSE]
      BY <2>x, <2>1, <2>7 DEF EraseVisit
    <3>2. /\ Append(acc.kept, x) \in Seq(P) /\ ToSet(Append(acc.kept, x)) = ToSet(acc.kept) \cup {x}
          /\ IsInjective(acc.kept) /\ x \notin ToSet(acc.kept) => IsInjective(Append(acc.kept, x))
      BY <2>2, Appended
    <3>3. v[n] \in Kept(P) /\ v[n].kept = Append(acc.kept, x)
      BY <3>1, <3>2 DEF Kept
    <3>4. IsInjective(all) => x \notin ToSet(acc.kept)
      BY <2>x, <2>1, <2>4, <2>5 DEF IsInjective
    <3>5. \A y \in ToSet(v[n].kept) : \E k \in 1 .. n : y = all[k]
      BY <2>x, <2>1, <2>4, <2>5, <3>2, <3>3
    <3>6. \A k \in 1 .. n : ~NamesBookkeeping(body[all[k]]) => all[k] \in ToSet(v[n].kept)
      BY <2>x, <2>1, <2>3, <3>2, <3>3
    <3>7. Inv(n)
      BY <2>1, <3>2, <3>3, <3>4, <3>5, <3>6
    <3> QED BY <2>5, <3>7
  <2> QED BY <2>6, <2>7
<1> HIDE DEF S
<1>4. \A n \in 1 .. Len(all) : n - 1 \in S => n \in S
  BY <1>3
<1>5. 0 .. Len(all) \subseteq S
  BY <1>1, <1>2, <1>4, LoopInduction
<1>i. Len(all) \in S
  BY <1>1, <1>5
<1>6. Inv(Len(all))
  BY <1>i DEF S
<1>7. v[Len(all)].kept \in Seq(P)
  BY <1>6 DEF Kept
<1>8. \A x \in ToSet(v[Len(all)].kept) : x \in ToSet(all)
  BY <1>1, <1>6 DEF ToSet
<1>9. \A p \in ToSet(all) : ~NamesBookkeeping(body[p]) => p \in ToSet(v[Len(all)].kept)
  BY <1>1, <1>6 DEF ToSet
<1> HIDE DEF Inv
<1>10. IsInjective(all) => IsInjective(v[Len(all)].kept)
  BY <1>6 DEF Inv
<1> QED BY <1>v, <1>7, <1>8, <1>9, <1>10

-----------------------------------------------------------------------------
(* The loop that adds the selected accesses of a run to AllLoadsAndStores. *)

LEMMA ChooseLoop ==
  ASSUME NEW body, NEW P, NEW local \in Seq(P), NEW all \in Seq(P)
  PROVE  \E v : /\ chooseInstructionsToInstrument(body, local, all) =
                     EraseBookkeeping(body, v[Len(local)])
                /\ v[0] = all
                /\ \A n \in 1 .. Len(local) : v[n] = ChooseVisit(body, local, v[n - 1], n)
<1> DEFINE Eq(g) == g = [n \in 0 .. Len(local) |->
                           IF n = 0 THEN all ELSE ChooseVisit(body, local, g[n - 1], n)]
<1>v. PICK v : v = CHOOSE g : Eq(g)
  OBVIOUS
<1>1. chooseInstructionsToInstrument(body, local, all) = EraseBookkeeping(body, v[Len(local)])
  BY <1>v DEF chooseInstructionsToInstrument
<1>2. Len(local) \in Nat
  OBVIOUS
<1>3. ASSUME NEW acc \in Seq(P), NEW n \in 1 .. Len(local)
      PROVE  ChooseVisit(body, local, acc, n) \in Seq(P)
  <2>1. Len(local) + 1 - n \in 1 .. Len(local)
    BY <1>2
  <2>2. local[Len(local) + 1 - n] \in P
    BY <2>1, ElementOfSeq
  <2>3. Append(acc, local[Len(local) + 1 - n]) \in Seq(P)
    BY <2>2
  <2> QED BY <2>3 DEF ChooseVisit
<1>s. PICK st : st = [x \in Nat \X Seq(P) |->
                        IF x[1] \in 1 .. Len(local) THEN ChooseVisit(body, local, x[2], x[1])
                        ELSE x[2]]
  OBVIOUS
<1>4. st \in [Nat \X Seq(P) -> Seq(P)]
  BY <1>s, <1>3
<1>5. PICK g \in [0 .. Len(local) -> Seq(P)] :
        \A n \in 0 .. Len(local) : g[n] = IF n = 0 THEN all ELSE st[<<n, g[n - 1]>>]
  <2>1. PICK A, N : A = Seq(P) /\ N = Len(local)
    OBVIOUS
  <2>2. all \in A /\ N \in Nat /\ st \in Steps(A)
    BY <1>2, <1>4, <2>1 DEF Steps
  <2>3. \E g \in [0 .. N -> A] : Unfolds(g, all, N, st)
    BY <2>2, RecursionExists
  <2> QED BY <2>1, <2>3 DEF Unfolds
<1>6. ASSUME NEW n \in 1 .. Len(local)
      PROVE  st[<<n, g[n - 1]>>] = ChooseVisit(body, local, g[n - 1], n)
  <2>1. n \in Nat /\ n - 1 \in 0 .. Len(local)
    BY <1>2
  <2>2. g[n - 1] \in Seq(P)
    BY <1>5, <2>1
  <2> QED BY <1>s, <2>1, <2>2
<1>7. Eq(g)
  <2>1. ASSUME NEW n \in 0 .. Len(local)
        PROVE  g[n] = IF n = 0 THEN all ELSE ChooseVisit(body, local, g[n - 1], n)
    <3>1. g[n] = IF n = 0 THEN all ELSE st[<<n, g[n - 1]>>]
      BY <1>5
    <3>2. n = 0 \/ n \in 1 .. Len(local)
      BY <1>2
    <3> QED BY <1>6, <3>1, <3>2
  <2> QED BY <1>5, <2>1
<1> HIDE DEF Eq
<1>8. Eq(v)
  BY <1>v, <1>7
<1>9. \A n \in 0 .. Len(local) :
        v[n] = IF n = 0 THEN all ELSE ChooseVisit(body, local, v[n - 1], n)
  BY <1>8 DEF Eq
<1>10. 0 \in 0 .. Len(local) /\ \A n \in 1 .. Len(local) : n \in 0 .. Len(local) /\ n # 0
  BY <1>2
<1> QED BY <1>1, <1>9, <1>10

\* c is what AllLoadsAndStores becomes.
Chose(body, local, all, c) ==
  /\ c = chooseInstructionsToInstrument(body, local, all)
  /\ ToSet(c) \subseteq ToSet(all) \cup ToSet(local)
  /\ \A p \in ToSet(all) : ~NamesBookkeeping(body[p]) => p \in ToSet(c)
  /\ \A j \in 1 .. Len(local) :
       Selected(body, local, j) /\ ~NamesBookkeeping(body[local[j]]) =>
         local[j] \in ToSet(c)
  /\ IsInjective(all) /\ IsInjective(local) /\ ToSet(all) \cap ToSet(local) = {} =>
       IsInjective(c)

LEMMA Chooses ==
  ASSUME NEW body, NEW P, NEW local \in Seq(P), NEW all \in Seq(P)
  PROVE  \E c \in Seq(P) : Chose(body, local, all, c)
<1>v. PICK v : /\ chooseInstructionsToInstrument(body, local, all) =
                    EraseBookkeeping(body, v[Len(local)])
               /\ v[0] = all
               /\ \A n \in 1 .. Len(local) : v[n] = ChooseVisit(body, local, v[n - 1], n)
  BY ChooseLoop
<1>1. Len(local) \in Nat /\ DOMAIN local = 1 .. Len(local)
  OBVIOUS
<1>d. PICK Disjoint \in BOOLEAN :
        Disjoint <=> IsInjective(all) /\ IsInjective(local) /\ ToSet(all) \cap ToSet(local) = {}
  OBVIOUS
<1> DEFINE Inv(n) ==
             /\ v[n] \in Seq(P)
             /\ \A x \in ToSet(v[n]) :
                  x \in ToSet(all) \/ \E k \in 1 .. Len(local) : k > Len(local) - n /\ x = local[k]
             /\ \A x \in ToSet(all) : x \in ToSet(v[n])
             /\ \A k \in 1 .. Len(local) : k > Len(local) - n /\ Selected(body, local, k) =>
                  local[k] \in ToSet(v[n])
             /\ Disjoint => IsInjective(v[n])
           S == {n \in 0 .. Len(local) : Inv(n)}
<1>2. 0 \in S
  <2>1. \A k \in 1 .. Len(local) : ~(k > Len(local) - 0)
    BY <1>1
  <2>2. Inv(0)
    BY <1>v, <1>d, <2>1
  <2> QED BY <1>1, <2>2
<1>3. ASSUME NEW n \in 1 .. Len(local), n - 1 \in S PROVE n \in S
  <2>a. PICK acc : acc = v[n - 1]
    OBVIOUS
  <2>j. PICK j : j = Len(local) + 1 - n
    OBVIOUS
  <2>x. PICK x : x = local[j]
    OBVIOUS
  <2>1. /\ v[n] = IF Selected(body, local, j) THEN Append(acc, x) ELSE acc
        /\ acc \in Seq(P)
        /\ \A y \in ToSet(acc) :
             y \in ToSet(all) \/ \E k \in 1 .. Len(local) : k > Len(local) - (n - 1) /\ y = local[k]
        /\ \A y \in ToSet(all) : y \in ToSet(acc)
        /\ \A k \in 1 .. Len(local) : k > Len(local) - (n - 1) /\ Selected(body, local, k) =>
             local[k] \in ToSet(acc)
        /\ Disjoint => IsInjective(acc)
    BY <1>v, <1>3, <2>a, <2>j, <2>x DEF ChooseVisit
  <2>2. j \in 1 .. Len(local) /\ j > Len(local) - n /\ ~(j > Len(local) - (n - 1)) /\ n \in 0 .. Len(local)
    BY <1>1, <2>j
  <2>3. \A k \in 1 .. Len(local) : k > Len(local) - n => k = j \/ k > Len(local) - (n - 1)
    BY <1>1, <2>j
  <2>4. \A k \in 1 .. Len(local) : k > Len(local) - (n - 1) => k > Len(local) - n
    BY <1>1
  <2>5. x \in P
    BY <2>x, <2>2, ElementOfSeq
  <2>6. CASE ~Selected(body, local, j)
    <3>1. v[n] = acc
      BY <2>1, <2>6
    <3>2. Inv(n)
      BY <2>1, <2>3, <2>4, <2>6, <3>1
    <3> QED BY <2>2, <3>2
  <2>7. CASE Selected(body, local, j)
    <3>1. v[n] = Append(acc, x)
      BY <2>1, <2>7
    <3>2. /\ Append(acc, x) \in Seq(P) /\ ToSet(Append(acc, x)) = ToSet(acc) \cup {x}
          /\ IsInjective(acc) /\ x \notin ToSet(acc) => IsInjective(Append(acc, x))
      BY <2>1, <2>5, Appended
    <3>3. ASSUME Disjoint PROVE x \notin ToSet(acc)
      <4>1. x \in ToSet(local) /\ IsInjective(local) /\ ToSet(all) \cap ToSet(local) = {}
        BY <1>1, <1>d, <2>x, <2>2, <3>3 DEF ToSet
      <4>2. \A k \in 1 .. Len(local) : x = local[k] => k = j
        BY <1>1, <2>x, <2>2, <4>1 DEF IsInjective
      <4> QED BY <2>1, <2>2, <4>1, <4>2
    <3>4. \A y \in ToSet(v[n]) :
             y \in ToSet(all) \/ \E k \in 1 .. Len(local) : k > Len(local) - n /\ y = local[k]
      BY <2>x, <2>1, <2>2, <2>4, <3>1, <3>2
    <3>5. \A k \in 1 .. Len(local) : k > Len(local) - n /\ Selected(body, local, k) =>
             local[k] \in ToSet(v[n])
      BY <2>x, <2>1, <2>3, <3>1, <3>2
    <3>6. Inv(n)
      BY <2>1, <3>1, <3>2, <3>3, <3>4, <3>5
    <3> QED BY <2>2, <3>6
  <2> QED BY <2>6, <2>7
<1> HIDE DEF S
<1>4. \A n \in 1 .. Len(local) : n - 1 \in S => n \in S
  BY <1>3
<1>5. 0 .. Len(local) \subseteq S
  BY <1>1, <1>2, <1>4, LoopInduction
<1>i. Len(local) \in S
  BY <1>1, <1>5
<1>6. Inv(Len(local))
  BY <1>i DEF S
<1>e. PICK e : e = v[Len(local)]
  OBVIOUS
<1>c. PICK c : c = EraseBookkeeping(body, e)
  OBVIOUS
<1>7. /\ e \in Seq(P)
      /\ \A x \in ToSet(e) : x \in ToSet(all) \/ x \in ToSet(local)
      /\ \A x \in ToSet(all) : x \in ToSet(e)
      /\ Disjoint => IsInjective(e)
  BY <1>1, <1>6, <1>e DEF ToSet
<1>8. \A k \in 1 .. Len(local) : Selected(body, local, k) => local[k] \in ToSet(e)
  <2>1. \A k \in 1 .. Len(local) : k > Len(local) - Len(local)
    BY <1>1
  <2> QED BY <1>6, <1>e, <2>1
<1> HIDE DEF Inv
<1>9. /\ c \in Seq(P)
      /\ ToSet(c) \subseteq ToSet(e)
      /\ \A p \in ToSet(e) : ~NamesBookkeeping(body[p]) => p \in ToSet(c)
      /\ IsInjective(e) => IsInjective(c)
  BY <1>c, <1>7, Erases
<1>10. c = chooseInstructionsToInstrument(body, local, all)
  BY <1>v, <1>e, <1>c
<1>11. ToSet(c) \subseteq ToSet(all) \cup ToSet(local)
  BY <1>7, <1>9
<1>12. \A p \in ToSet(all) : ~NamesBookkeeping(body[p]) => p \in ToSet(c)
  BY <1>7, <1>9
<1>13. \A j \in 1 .. Len(local) :
         Selected(body, local, j) /\ ~NamesBookkeeping(body[local[j]]) => local[j] \in ToSet(c)
  BY <1>8, <1>9
<1>14. IsInjective(all) /\ IsInjective(local) /\ ToSet(all) \cap ToSet(local) = {} => IsInjective(c)
  BY <1>d, <1>7, <1>9
<1> QED BY <1>9, <1>10, <1>11, <1>12, <1>13, <1>14 DEF Chose

-----------------------------------------------------------------------------
(* The traversal of runOnFunction.                                         *)

Positions(body) == 1 .. Len(body)
Accs(body) == [local : Seq(Positions(body)), all : Seq(Positions(body)),
               atomics : Seq(Positions(body))]
LoadOrStore(body, p) == body[p].op \in {"load", "store"}

\* No call and no end of a block from i to j: nothing is flushed.
OneRun(body, i, j) == \A k \in i .. j : body[k].op \notin Calls \cup {"br"}

\* A load whose address is written later in the same run.
WrittenLater(body, p) ==
  \E q \in Positions(body) :
    /\ p < q /\ body[q].op = "store" /\ body[q].addr = body[p].addr
    /\ OneRun(body, p, q)

LeftOut == Profile \cup Uncaptured \cup Bookkeeping

\* What became of a load or store that was flushed.
Handled(body, all, p) ==
  \/ p \in ToSet(all)
  \/ body[p].addr \in LeftOut \/ body[p].value \in Bookkeeping
  \/ body[p].op = "load" /\ (body[p].addr \in Constant \/ WrittenLater(body, p))

AllInv(body, n, all) ==
  /\ \A p \in ToSet(all) : p <= n /\ LoadOrStore(body, p)
  /\ IsInjective(all)

LocalInv(body, n, local) ==
  /\ \A p \in ToSet(local) : p <= n /\ LoadOrStore(body, p) /\ OneRun(body, p, n)
  /\ \A i, j \in 1 .. Len(local) : i < j => local[i] < local[j]

CollectInv(body, n, acc) ==
  /\ acc \in Accs(body)
  /\ LocalInv(body, n, acc.local)
  /\ AllInv(body, n, acc.all)
  /\ ToSet(acc.all) \cap ToSet(acc.local) = {}
  /\ \A p \in Positions(body) : p \in ToSet(acc.atomics) <=> p <= n /\ isAtomic(body[p])
  /\ \A p \in Positions(body) : p <= n /\ LoadOrStore(body, p) =>
       p \in ToSet(acc.local) \/ Handled(body, acc.all, p)

LEMMA Increasing ==
  ASSUME NEW m, NEW s \in Seq(1 .. m), m \in Nat,
         \A i, j \in 1 .. Len(s) : i < j => s[i] < s[j]
  PROVE  IsInjective(s)
<1> SUFFICES ASSUME NEW i \in DOMAIN s, NEW j \in DOMAIN s, s[i] = s[j] PROVE i = j
  BY DEF IsInjective
<1>1. i \in 1 .. Len(s) /\ j \in 1 .. Len(s) /\ Len(s) \in Nat
  OBVIOUS
<1>2. s[i] \in 1 .. m /\ s[j] \in 1 .. m
  BY <1>1, ElementOfSeq
<1>3. ~(i < j) /\ ~(j < i)
  BY <1>1, <1>2
<1> QED BY <1>1, <1>3

LEMMA Flushes ==
  ASSUME NEW body \in Seq(Instrs), NEW n \in 0 .. Len(body), NEW acc, CollectInv(body, n, acc)
  PROVE  /\ Flush(body, acc) \in Accs(body)
         /\ Flush(body, acc).local = << >>
         /\ Flush(body, acc).atomics = acc.atomics
         /\ AllInv(body, n, Flush(body, acc).all)
         /\ \A p \in Positions(body) : p <= n /\ LoadOrStore(body, p) =>
              Handled(body, Flush(body, acc).all, p)
<1>p. PICK P : P = Positions(body)
  OBVIOUS
<1>s. PICK local, all : local = acc.local /\ all = acc.all
  OBVIOUS
<1>1. /\ local \in Seq(P) /\ all \in Seq(P) /\ acc.atomics \in Seq(P) /\ acc \in Accs(body)
      /\ Len(local) \in Nat /\ DOMAIN local = 1 .. Len(local) /\ Len(body) \in Nat
  BY <1>p, <1>s DEF CollectInv, Accs
<1>2. IsInjective(all) /\ ToSet(all) \cap ToSet(local) = {}
  BY <1>s DEF CollectInv, AllInv
<1>3. \A i, j \in 1 .. Len(local) : i < j => local[i] < local[j]
  BY <1>s DEF CollectInv, LocalInv
<1>4. IsInjective(local)
  <2>1. PICK m : m = Len(body)
    OBVIOUS
  <2>2. local \in Seq(1 .. m) /\ m \in Nat
    BY <1>p, <1>1, <2>1 DEF Positions
  <2> QED BY <1>3, <2>2, Increasing
<1>c. PICK c \in Seq(P) : Chose(body, local, all, c)
  BY <1>1, Chooses
<1>5. /\ c = chooseInstructionsToInstrument(body, local, all)
      /\ ToSet(c) \subseteq ToSet(all) \cup ToSet(local)
      /\ \A p \in ToSet(all) : ~NamesBookkeeping(body[p]) => p \in ToSet(c)
      /\ \A j \in 1 .. Len(local) :
           Selected(body, local, j) /\ ~NamesBookkeeping(body[local[j]]) =>
             local[j] \in ToSet(c)
      /\ IsInjective(all) /\ IsInjective(local) /\ ToSet(all) \cap ToSet(local) = {} =>
           IsInjective(c)
  BY <1>c DEF Chose
<1>6. Flush(body, acc) = [acc EXCEPT !.all = c, !.local = << >>]
  BY <1>s, <1>5 DEF Flush
<1>7. /\ Flush(body, acc).all = c /\ Flush(body, acc).local = << >>
      /\ Flush(body, acc).atomics = acc.atomics /\ Flush(body, acc) \in Accs(body)
  <2>1. << >> \in Seq(P)
    OBVIOUS
  <2> QED BY <1>p, <1>1, <1>6, <2>1 DEF Accs
<1>8. AllInv(body, n, c)
  <2>1. \A p \in ToSet(c) : p <= n /\ LoadOrStore(body, p)
    BY <1>s, <1>5 DEF CollectInv, AllInv, LocalInv
  <2> QED BY <1>2, <1>4, <1>5, <2>1 DEF AllInv
<1>9. ASSUME NEW p \in Positions(body), p <= n, LoadOrStore(body, p)
      PROVE  Handled(body, c, p)
  <2>1. p \in ToSet(local) \/ Handled(body, all, p)
    BY <1>s, <1>9 DEF CollectInv
  <2>2. CASE Handled(body, all, p)
    BY <1>5, <2>2 DEF Handled, LeftOut, NamesBookkeeping
  <2>3. CASE p \in ToSet(local)
    <3>1. PICK j \in 1 .. Len(local) : p = local[j]
      BY <1>1, <2>3 DEF ToSet
    <3>2. CASE Selected(body, local, j)
      BY <1>5, <3>1, <3>2 DEF Handled, LeftOut, NamesBookkeeping
    <3>3. CASE ~Selected(body, local, j)
      <4>1. CASE body[p].op = "load" /\ body[p].addr \in WriteTargets(body, local, j)
        <5>1. PICK k \in j + 1 .. Len(local) :
                body[local[k]].op = "store" /\ body[local[k]].addr = body[p].addr
          BY <4>1 DEF WriteTargets
        <5>2. PICK q : q = local[k]
          OBVIOUS
        <5>3. k \in 1 .. Len(local) /\ j < k
          BY <1>1, <5>1
        <5>4. q \in P /\ p < q /\ q \in ToSet(local)
          BY <1>1, <1>3, <3>1, <5>2, <5>3, ElementOfSeq DEF ToSet
        <5>5. q <= n /\ OneRun(body, p, n)
          BY <1>s, <2>3, <5>4 DEF CollectInv, LocalInv
        <5>6. \A i \in p .. q : i \in p .. n
          BY <1>p, <1>1, <5>4, <5>5 DEF Positions
        <5>7. OneRun(body, p, q)
          BY <5>5, <5>6 DEF OneRun
        <5>8. WrittenLater(body, p)
          BY <1>p, <5>1, <5>2, <5>4, <5>7 DEF WrittenLater
        <5> QED BY <4>1, <5>8 DEF Handled
      <4>2. CASE ~(body[p].op = "load" /\ body[p].addr \in WriteTargets(body, local, j))
        <5>1. \/ body[p].addr \in Profile \/ body[p].addr \in Uncaptured
              \/ body[p].op = "load" /\ body[p].addr \in Constant
          BY <3>1, <3>3, <4>2 DEF Selected, shouldInstrumentReadWriteFromAddress,
                                  addrPointsToConstantData
        <5> QED BY <5>1 DEF Handled, LeftOut
      <4> QED BY <4>1, <4>2
    <3> QED BY <3>2, <3>3
  <2> QED BY <2>1, <2>2, <2>3
<1> QED BY <1>7, <1>8, <1>9

LEMMA InstrOps ==
  ASSUME NEW body \in Seq(Instrs), NEW p \in Positions(body)
  PROVE  /\ body[p] \in Instrs
         /\ \/ isAtomic(body[p]) /\ ~LoadOrStore(body, p) /\ body[p].op \notin Calls \cup {"br"}
            \/ ~isAtomic(body[p]) /\ LoadOrStore(body, p) /\ body[p].op \notin Calls \cup {"br"}
            \/ ~isAtomic(body[p]) /\ ~LoadOrStore(body, p) /\ body[p].op \in Calls \cup {"br"}
<1>1. body[p] \in Instrs
  BY ElementOfSeq DEF Positions
<1>2. body[p].op \in {"load", "store", "br"} \cup Atomics \cup Calls
  BY <1>1 DEF Instrs
<1> QED BY <1>1, <1>2 DEF isAtomic, LoadOrStore, Atomics, Calls

LEMMA Visits ==
  ASSUME NEW body \in Seq(Instrs), NEW p \in Positions(body), NEW acc
  PROVE  /\ isAtomic(body[p]) => Visit(body, acc, p) = [acc EXCEPT !.atomics = Append(@, p)]
         /\ LoadOrStore(body, p) => Visit(body, acc, p) = [acc EXCEPT !.local = Append(@, p)]
         /\ body[p].op \in Calls \cup {"br"} => Visit(body, acc, p) = Flush(body, acc)
<1>1. \/ isAtomic(body[p]) /\ ~LoadOrStore(body, p) /\ body[p].op \notin Calls \cup {"br"}
      \/ ~isAtomic(body[p]) /\ LoadOrStore(body, p) /\ body[p].op \notin Calls \cup {"br"}
      \/ ~isAtomic(body[p]) /\ ~LoadOrStore(body, p) /\ body[p].op \in Calls \cup {"br"}
  BY InstrOps
<1> QED BY <1>1 DEF Visit, LoadOrStore

LEMMA VisitTyped ==
  ASSUME NEW body \in Seq(Instrs), NEW p \in Positions(body), NEW acc \in Accs(body)
  PROVE  Visit(body, acc, p) \in Accs(body)
<1>p. PICK P : P = Positions(body)
  OBVIOUS
<1>1. acc.local \in Seq(P) /\ acc.all \in Seq(P) /\ acc.atomics \in Seq(P) /\ << >> \in Seq(P)
  BY <1>p DEF Accs
<1>2. Append(acc.local, p) \in Seq(P) /\ Append(acc.atomics, p) \in Seq(P)
  BY <1>p, <1>1
<1>3. PICK local, all : local = acc.local /\ all = acc.all
  OBVIOUS
<1>4. PICK c \in Seq(P) : Chose(body, local, all, c)
  BY <1>1, <1>3, Chooses
<1>5. Flush(body, acc) = [acc EXCEPT !.all = c, !.local = << >>]
  BY <1>3, <1>4 DEF Chose, Flush
<1>6. Flush(body, acc) \in Accs(body)
  BY <1>p, <1>1, <1>5 DEF Accs
<1>7. [acc EXCEPT !.atomics = Append(@, p)] \in Accs(body)
  BY <1>p, <1>1, <1>2 DEF Accs
<1>8. [acc EXCEPT !.local = Append(@, p)] \in Accs(body)
  BY <1>p, <1>1, <1>2 DEF Accs
<1>9. isAtomic(body[p]) \/ LoadOrStore(body, p) \/ body[p].op \in Calls \cup {"br"}
  BY InstrOps
<1>10. /\ isAtomic(body[p]) => Visit(body, acc, p) = [acc EXCEPT !.atomics = Append(@, p)]
       /\ LoadOrStore(body, p) => Visit(body, acc, p) = [acc EXCEPT !.local = Append(@, p)]
       /\ body[p].op \in Calls \cup {"br"} => Visit(body, acc, p) = Flush(body, acc)
  BY Visits
<1> QED BY <1>6, <1>7, <1>8, <1>9, <1>10

LEMMA CollectLoop ==
  ASSUME NEW body \in Seq(Instrs)
  PROVE  \E v : /\ Collect(body) = Flush(body, v[Len(body)])
                /\ v[0] = [local |-> << >>, all |-> << >>, atomics |-> << >>]
                /\ \A n \in 1 .. Len(body) : v[n] = Visit(body, v[n - 1], n)
<1>b. PICK base : base = [local |-> << >>, all |-> << >>, atomics |-> << >>]
  OBVIOUS
<1> DEFINE Eq(g) == g = [n \in 0 .. Len(body) |->
                           IF n = 0 THEN [local |-> << >>, all |-> << >>, atomics |-> << >>]
                           ELSE Visit(body, g[n - 1], n)]
<1>v. PICK v : v = CHOOSE g : Eq(g)
  OBVIOUS
<1>1. Collect(body) = Flush(body, v[Len(body)])
  BY <1>v DEF Collect
<1>a. PICK A : A = Accs(body)
  OBVIOUS
<1>2. Len(body) \in Nat /\ base \in A
  BY <1>a, <1>b DEF Accs
<1>3. ASSUME NEW acc \in A, NEW n \in 1 .. Len(body) PROVE Visit(body, acc, n) \in A
  BY <1>a, <1>3, VisitTyped DEF Positions
<1>s. PICK st : st = [x \in Nat \X A |->
                        IF x[1] \in 1 .. Len(body) THEN Visit(body, x[2], x[1]) ELSE x[2]]
  OBVIOUS
<1>4. st \in [Nat \X A -> A]
  BY <1>s, <1>3
<1>5. PICK g \in [0 .. Len(body) -> A] :
        \A n \in 0 .. Len(body) : g[n] = IF n = 0 THEN base ELSE st[<<n, g[n - 1]>>]
  <2>1. PICK N : N = Len(body)
    OBVIOUS
  <2>2. base \in A /\ N \in Nat /\ st \in Steps(A)
    BY <1>2, <1>4, <2>1 DEF Steps
  <2>3. \E g \in [0 .. N -> A] : Unfolds(g, base, N, st)
    BY <2>2, RecursionExists
  <2> QED BY <2>1, <2>3 DEF Unfolds
<1>6. ASSUME NEW n \in 1 .. Len(body) PROVE st[<<n, g[n - 1]>>] = Visit(body, g[n - 1], n)
  <2>1. n \in Nat /\ n - 1 \in 0 .. Len(body)
    BY <1>2
  <2>2. g[n - 1] \in A
    BY <1>5, <2>1
  <2> QED BY <1>s, <2>1, <2>2
<1>7. Eq(g)
  <2>1. ASSUME NEW n \in 0 .. Len(body)
        PROVE  g[n] = IF n = 0 THEN base ELSE Visit(body, g[n - 1], n)
    <3>1. g[n] = IF n = 0 THEN base ELSE st[<<n, g[n - 1]>>]
      BY <1>5
    <3>2. n = 0 \/ n \in 1 .. Len(body)
      BY <1>2
    <3> QED BY <1>6, <3>1, <3>2
  <2> QED BY <1>b, <1>5, <2>1
<1> HIDE DEF Eq
<1>8. Eq(v)
  BY <1>v, <1>7
<1>9. \A n \in 0 .. Len(body) :
        v[n] = IF n = 0 THEN [local |-> << >>, all |-> << >>, atomics |-> << >>]
               ELSE Visit(body, v[n - 1], n)
  BY <1>8 DEF Eq
<1>10. 0 \in 0 .. Len(body) /\ \A n \in 1 .. Len(body) : n \in 0 .. Len(body) /\ n # 0
  BY <1>2
<1> QED BY <1>1, <1>9, <1>10

(* One instruction more.                                                   *)
LEMMA VisitKeeps ==
  ASSUME NEW body \in Seq(Instrs), NEW n \in Positions(body), NEW acc,
         CollectInv(body, n - 1, acc)
  PROVE  CollectInv(body, n, Visit(body, acc, n))
<1>p. PICK P : P = Positions(body)
  OBVIOUS
<1>m. PICK m : m = n - 1
  OBVIOUS
<1>w. PICK w : w = Visit(body, acc, n)
  OBVIOUS
<1>1. CollectInv(body, m, acc) /\ m \in 0 .. Len(body) /\ Len(body) \in Nat /\ n = m + 1 /\ n \in P
  BY <1>m, <1>p DEF Positions
<1>2. acc \in Accs(body) /\ w \in Accs(body)
  BY <1>1, <1>w, VisitTyped DEF CollectInv
<1>3. /\ acc.local \in Seq(P) /\ acc.all \in Seq(P) /\ acc.atomics \in Seq(P)
      /\ \A p \in P : p \in Int
  BY <1>p, <1>2 DEF Accs, Positions
<1>4. \A p \in P : p <= n <=> p <= m \/ p = n
  BY <1>1, <1>3
<1>5. /\ ToSet(acc.local) \subseteq P /\ ToSet(acc.all) \subseteq P
  BY <1>3, ElementOfSeq DEF ToSet
<1>6. n \notin ToSet(acc.local) /\ n \notin ToSet(acc.all)
  <2>1. \A p \in ToSet(acc.local) \cup ToSet(acc.all) : p <= m
    BY <1>1 DEF CollectInv, LocalInv, AllInv
  <2> QED BY <1>1, <2>1
<1>7. CASE isAtomic(body[n])
  <2>0. isAtomic(body[n]) => Visit(body, acc, n) = [acc EXCEPT !.atomics = Append(@, n)]
    BY Visits
  <2>1. w = [acc EXCEPT !.atomics = Append(@, n)] /\ ~LoadOrStore(body, n)
        /\ body[n].op \notin Calls \cup {"br"}
    BY <1>7, <1>w, <2>0, InstrOps
  <2>2. w.local = acc.local /\ w.all = acc.all /\ w.atomics = Append(acc.atomics, n)
    BY <1>2, <2>1 DEF Accs
  <2>3. ToSet(w.atomics) = ToSet(acc.atomics) \cup {n}
    BY <1>1, <1>3, <2>2, Appended
  <2>4. LocalInv(body, n, w.local)
    <3>1. ASSUME NEW p \in ToSet(acc.local) PROVE p <= n /\ LoadOrStore(body, p) /\ OneRun(body, p, n)
      <4>1. p \in P /\ p <= m /\ LoadOrStore(body, p) /\ OneRun(body, p, m)
        BY <1>1, <1>5 DEF CollectInv, LocalInv
      <4>2. \A k \in p .. n : k \in p .. m \/ k = n
        BY <1>1, <1>3, <4>1
      <4> QED BY <1>4, <2>1, <4>1, <4>2 DEF OneRun
    <3> QED BY <1>1, <2>2, <3>1 DEF CollectInv, LocalInv
  <2>5. AllInv(body, n, w.all)
    BY <1>1, <1>4, <1>5, <2>2 DEF CollectInv, AllInv
  <2>6. ToSet(w.all) \cap ToSet(w.local) = {}
    BY <1>1, <2>2 DEF CollectInv
  <2>7. \A p \in P : p \in ToSet(w.atomics) <=> p <= n /\ isAtomic(body[p])
    BY <1>1, <1>p, <1>4, <1>7, <2>3 DEF CollectInv
  <2>8. \A p \in P : p <= n /\ LoadOrStore(body, p) =>
          p \in ToSet(w.local) \/ Handled(body, w.all, p)
    BY <1>1, <1>p, <1>4, <2>1, <2>2 DEF CollectInv
  <2> QED BY <1>p, <1>w, <1>2, <2>4, <2>5, <2>6, <2>7, <2>8 DEF CollectInv
<1>8. CASE LoadOrStore(body, n)
  <2>1. w = [acc EXCEPT !.local = Append(@, n)] /\ ~isAtomic(body[n])
        /\ body[n].op \notin Calls \cup {"br"}
    <3>1. w = [acc EXCEPT !.local = Append(@, n)]
      BY <1>8, <1>w, Visits
    <3>2. ~isAtomic(body[n]) /\ body[n].op \notin Calls \cup {"br"}
      BY <1>8, InstrOps
    <3> QED BY <3>1, <3>2
  <2>2. w.local = Append(acc.local, n) /\ w.all = acc.all /\ w.atomics = acc.atomics
    BY <1>2, <2>1 DEF Accs
  <2>3. ToSet(w.local) = ToSet(acc.local) \cup {n}
    BY <1>1, <1>3, <2>2, Appended
  <2>4. LocalInv(body, n, w.local)
    <3>1. ASSUME NEW p \in ToSet(acc.local) PROVE p <= n /\ LoadOrStore(body, p) /\ OneRun(body, p, n)
      <4>1. p \in P /\ p <= m /\ LoadOrStore(body, p) /\ OneRun(body, p, m)
        BY <1>1, <1>5 DEF CollectInv, LocalInv
      <4>2. \A k \in p .. n : k \in p .. m \/ k = n
        BY <1>1, <1>3, <4>1
      <4> QED BY <1>4, <2>1, <4>1, <4>2 DEF OneRun
    <3>2. n <= n /\ OneRun(body, n, n)
      <4>1. \A k \in n .. n : k = n
        BY <1>1, <1>3
      <4> QED BY <1>1, <1>3, <2>1, <4>1 DEF OneRun
    <3>3. ASSUME NEW i \in 1 .. Len(w.local), NEW j \in 1 .. Len(w.local), i < j
          PROVE  w.local[i] < w.local[j]
      <4>l. PICK l : l = acc.local
        OBVIOUS
      <4>1. l \in Seq(P) /\ Len(l) \in Nat /\ w.local = Append(l, n) /\ Len(w.local) = Len(l) + 1
        BY <1>1, <1>3, <2>2, <4>l
      <4>2. i \in 1 .. Len(l) /\ w.local[i] = l[i] /\ l[i] \in ToSet(l)
        BY <3>3, <4>1, <1>1 DEF ToSet
      <4>3. l[i] <= m /\ l[i] \in P
        BY <1>1, <1>5, <4>l, <4>2 DEF CollectInv, LocalInv
      <4>4. CASE j = Len(l) + 1
        <5>1. w.local[j] = n
          BY <1>1, <4>1, <4>4
        <5>2. l[i] < n
          <6>1. PICK a : a = l[i]
            OBVIOUS
          <6>2. a \in P /\ a <= m
            BY <4>3, <6>1
          <6>i. a \in Int
            BY <1>3, <6>2
          <6>m. m \in Int /\ n = m + 1
            BY <1>1
          <6>3. a < n
            BY <6>2, <6>i, <6>m
          <6> QED BY <6>1, <6>3
        <5> QED BY <4>2, <5>1, <5>2
      <4>5. CASE j # Len(l) + 1
        <5>1. j \in 1 .. Len(l)
          BY <4>1, <4>5
        <5>2. w.local[j] = l[j]
          BY <1>1, <4>1, <5>1
        <5>3. l[i] < l[j]
          BY <1>1, <3>3, <4>l, <4>2, <5>1 DEF CollectInv, LocalInv
        <5> QED BY <4>2, <5>2, <5>3
      <4> QED BY <4>4, <4>5
    <3> QED BY <1>8, <2>3, <3>1, <3>2, <3>3 DEF LocalInv
  <2>5. AllInv(body, n, w.all)
    BY <1>1, <1>4, <1>5, <2>2 DEF CollectInv, AllInv
  <2>6. ToSet(w.all) \cap ToSet(w.local) = {}
    BY <1>1, <1>6, <2>2, <2>3 DEF CollectInv
  <2>7. \A p \in P : p \in ToSet(w.atomics) <=> p <= n /\ isAtomic(body[p])
    BY <1>1, <1>p, <1>4, <2>1, <2>2 DEF CollectInv
  <2>8. \A p \in P : p <= n /\ LoadOrStore(body, p) =>
          p \in ToSet(w.local) \/ Handled(body, w.all, p)
    BY <1>1, <1>p, <1>4, <2>2, <2>3 DEF CollectInv
  <2> QED BY <1>p, <1>w, <1>2, <2>4, <2>5, <2>6, <2>7, <2>8 DEF CollectInv
<1>9. CASE body[n].op \in Calls \cup {"br"}
  <2>1. w = Flush(body, acc) /\ ~isAtomic(body[n]) /\ ~LoadOrStore(body, n)
    BY <1>1, <1>9, <1>w, Visits, InstrOps
  <2>2. /\ w.local = << >> /\ w.atomics = acc.atomics /\ AllInv(body, m, w.all)
        /\ \A p \in P : p <= m /\ LoadOrStore(body, p) => Handled(body, w.all, p)
    BY <1>1, <1>p, <2>1, Flushes
  <2>3. ToSet(w.local) = {} /\ Len(w.local) = 0
    BY <2>2 DEF ToSet
  <2>4. LocalInv(body, n, w.local)
    BY <2>3 DEF LocalInv
  <2>a. w.all \in Seq(P)
    BY <1>p, <1>2 DEF Accs
  <2>b. ToSet(w.all) \subseteq P
    BY <2>a, ElementOfSeq DEF ToSet
  <2>5. AllInv(body, n, w.all)
    BY <1>4, <2>b, <2>2 DEF AllInv
  <2>7. \A p \in P : p \in ToSet(w.atomics) <=> p <= n /\ isAtomic(body[p])
    BY <1>1, <1>p, <1>4, <2>1, <2>2 DEF CollectInv
  <2>8. \A p \in P : p <= n /\ LoadOrStore(body, p) =>
          p \in ToSet(w.local) \/ Handled(body, w.all, p)
    BY <1>4, <2>1, <2>2
  <2> QED BY <1>p, <1>w, <1>2, <2>3, <2>4, <2>5, <2>7, <2>8 DEF CollectInv
<1>10. isAtomic(body[n]) \/ LoadOrStore(body, n) \/ body[n].op \in Calls \cup {"br"}
  BY InstrOps
<1> QED BY <1>7, <1>8, <1>9, <1>10

(* What the traversal has collected at the end.                            *)
Collected(body, c) ==
  /\ c \in Accs(body)
  /\ IsInjective(c.all)
  /\ \A p \in ToSet(c.all) : LoadOrStore(body, p)
  /\ \A p \in Positions(body) : p \in ToSet(c.atomics) <=> isAtomic(body[p])
  /\ \A p \in Positions(body) : LoadOrStore(body, p) => Handled(body, c.all, p)

LEMMA Collects ==
  ASSUME NEW body \in Seq(Instrs)
  PROVE  Collected(body, Collect(body))
<1>v. PICK v : /\ Collect(body) = Flush(body, v[Len(body)])
               /\ v[0] = [local |-> << >>, all |-> << >>, atomics |-> << >>]
               /\ \A n \in 1 .. Len(body) : v[n] = Visit(body, v[n - 1], n)
  BY CollectLoop
<1>N. PICK N : N = Len(body) /\ N \in Nat
  OBVIOUS
<1>s. PICK S : S = {n \in 0 .. N : CollectInv(body, n, v[n])}
  OBVIOUS
<1>1. 0 \in S
  <2>1. /\ v[0] \in Accs(body) /\ v[0].local = << >> /\ v[0].all = << >> /\ v[0].atomics = << >>
        /\ ToSet(<< >>) = {} /\ Len(<< >>) = 0 /\ IsInjective(<< >>)
    BY <1>v DEF Accs, ToSet, IsInjective
  <2>2. \A p \in Positions(body) : ~(p <= 0)
    BY DEF Positions
  <2>3. LocalInv(body, 0, v[0].local) /\ AllInv(body, 0, v[0].all)
    BY <2>1 DEF LocalInv, AllInv
  <2>4. CollectInv(body, 0, v[0])
    BY <2>1, <2>2, <2>3 DEF CollectInv
  <2> QED BY <1>N, <1>s, <2>4
<1>2. ASSUME NEW n \in 1 .. N, n - 1 \in S PROVE n \in S
  <2>1. n \in Positions(body) /\ n \in 0 .. N /\ CollectInv(body, n - 1, v[n - 1])
    BY <1>N, <1>s, <1>2 DEF Positions
  <2>2. CollectInv(body, n, Visit(body, v[n - 1], n))
    BY <2>1, VisitKeeps
  <2> QED BY <1>v, <1>N, <1>s, <2>1, <2>2
<1>3. \A n \in 1 .. N : n - 1 \in S => n \in S
  BY <1>2
<1>4. 0 .. N \subseteq S
  BY <1>N, <1>1, <1>3, LoopInduction
<1>5. N \in S /\ N \in 0 .. Len(body)
  BY <1>N, <1>4
<1>6. CollectInv(body, N, v[N])
  BY <1>s, <1>5
<1>a. PICK acc : acc = v[N]
  OBVIOUS
<1>7. Collect(body) = Flush(body, acc)
  BY <1>v, <1>N, <1>a
<1>8. /\ Flush(body, acc) \in Accs(body)
      /\ Flush(body, acc).atomics = acc.atomics
      /\ AllInv(body, N, Flush(body, acc).all)
      /\ \A p \in Positions(body) : p <= N /\ LoadOrStore(body, p) =>
           Handled(body, Flush(body, acc).all, p)
  BY <1>5, <1>6, <1>a, Flushes
<1>9. \A p \in Positions(body) : p <= N
  BY <1>N DEF Positions
<1>10. \A p \in Positions(body) : p \in ToSet(acc.atomics) <=> p <= N /\ isAtomic(body[p])
  BY <1>6, <1>a DEF CollectInv
<1> QED BY <1>7, <1>8, <1>9, <1>10 DEF Collected, AllInv

-----------------------------------------------------------------------------
(* The callbacks of an instruction.                                        *)

CallFns == {"read", "write", "unaligned_read", "unaligned_write", "load", "store",
            "compare_exchange_val", "thread_fence"} \cup RmwOps
AccessTypes == {"unsafe read", "unsafe write", "atomic read", "atomic write"}
CallTypes == AccessTypes \cup {"none"}
CallRecs == [fn : CallFns, type : CallTypes]
StepRecs == [calls : Seq(CallRecs), stays : BOOLEAN]

\* At most one callback, of type t.
Callback(calls, t) == Len(calls) <= 1 /\ (Len(calls) = 1 => calls[1].type = t)

MinMax == {"max", "min", "umax", "umin"}
NoCallback(a) == a \in LeftOut \cup SwiftError \/ getMemoryAccessFuncIndex(a) < 0

PlanStep(body, p, step) ==
  /\ step \in StepRecs
  /\ Callback(step.calls, Type(body[p]))
  /\ LoadOrStore(body, p) /\ ~NoCallback(body[p].addr) /\ body[p].value \notin Bookkeeping
     /\ ~(body[p].op = "load" /\ (body[p].addr \in Constant \/ WrittenLater(body, p))) =>
       Len(step.calls) = 1
  /\ isAtomic(body[p]) /\ body[p].op # "fence" /\ body[p].fn \notin MinMax
     /\ ~NoCallback(body[p].addr) => Len(step.calls) = 1

PlanOk(body, plan) ==
  /\ plan \in Seq(StepRecs) /\ Len(plan) = Len(body)
  /\ \A p \in Positions(body) : PlanStep(body, p, plan[p])

LEMMA LoadOrStoreCalls ==
  ASSUME NEW i, i.op \in {"load", "store"}
  PROVE  /\ \/ instrumentLoadOrStore(i) = << >>
            \/ \E x \in CallRecs : instrumentLoadOrStore(i) = << x >> /\ x.type = Type(i)
         /\ i.addr \notin SwiftError /\ ~(getMemoryAccessFuncIndex(i.addr) < 0) =>
              instrumentLoadOrStore(i) # << >>
<1>1. CASE i.addr \in SwiftError \/ getMemoryAccessFuncIndex(i.addr) < 0
  BY <1>1 DEF instrumentLoadOrStore
<1>2. CASE ~(i.addr \in SwiftError \/ getMemoryAccessFuncIndex(i.addr) < 0)
  <2>1. PICK aligned \in BOOLEAN :
          aligned <=> (\/ Alignment[i.addr] = 0 \/ Alignment[i.addr] >= 8
                       \/ Alignment[i.addr] % (Bits[i.addr] \div 8) = 0)
    OBVIOUS
  <2>2. PICK x : x = IF i.op = "store"
             THEN [fn |-> IF aligned THEN "write" ELSE "unaligned_write", type |-> "unsafe write"]
             ELSE [fn |-> IF aligned THEN "read" ELSE "unaligned_read", type |-> "unsafe read"]
    OBVIOUS
  <2>3. instrumentLoadOrStore(i) = << x >>
    BY <1>2, <2>1, <2>2 DEF instrumentLoadOrStore
  <2>4. x \in CallRecs /\ x.type = Type(i)
    <3>1. CASE i.op = "store"
      <4>1. x.type = "unsafe write" /\ x \in CallRecs
        BY <2>2, <3>1 DEF CallRecs, CallFns, CallTypes, AccessTypes
      <4> QED BY <3>1, <4>1 DEF Type
    <3>2. CASE i.op = "load"
      <4>1. x.type = "unsafe read" /\ x \in CallRecs
        BY <2>2, <3>2 DEF CallRecs, CallFns, CallTypes, AccessTypes
      <4> QED BY <3>2, <4>1 DEF Type
    <3> QED BY <3>1, <3>2
  <2> QED BY <2>3, <2>4
<1> QED BY <1>1, <1>2

LEMMA AtomicCalls ==
  ASSUME NEW i \in Instrs, isAtomic(i)
  PROVE  /\ instrumentAtomic(i) \in StepRecs
         /\ Callback(instrumentAtomic(i).calls, Type(i))
         /\ i.op # "fence" /\ i.fn \notin MinMax /\ ~(getMemoryAccessFuncIndex(i.addr) < 0) =>
              Len(instrumentAtomic(i).calls) = 1
<1> DEFINE Replaced(f, t) == [calls |-> << [fn |-> f, type |-> t] >>, stays |-> FALSE]
           Step(f, t, b) == [calls |-> << [fn |-> f, type |-> t] >>, stays |-> b]
<1>1. ASSUME NEW f \in CallFns, NEW t \in CallTypes, NEW b \in BOOLEAN
      PROVE  Step(f, t, b) \in StepRecs /\ Len(Step(f, t, b).calls) = 1 /\ Callback(Step(f, t, b).calls, t)
  <2>1. PICK c : c = [fn |-> f, type |-> t]
    OBVIOUS
  <2>2. c \in CallRecs /\ c.type = t
    BY <2>1 DEF CallRecs
  <2>3. << c >> \in Seq(CallRecs) /\ Len(<< c >>) = 1 /\ << c >>[1] = c
    BY <2>2
  <2>4. Step(f, t, b) = [calls |-> << c >>, stays |-> b]
    BY <2>1
  <2>5. Step(f, t, b) \in StepRecs /\ Step(f, t, b).calls = << c >>
    BY <2>3, <2>4 DEF StepRecs
  <2> QED BY <2>2, <2>3, <2>5 DEF Callback
<1>2. ASSUME NEW s, NEW t, s = Untouched
      PROVE  s \in StepRecs /\ Callback(s.calls, t)
  BY <1>2 DEF Untouched, StepRecs, Callback
<1>3. i.op \in Atomics /\ (i.op = "rmw" => i.fn \in RmwOps) /\ (i.op # "rmw" => i.fn = "none")
  BY DEF isAtomic, Instrs, RmwOps
<1>4. CASE i.op = "fence"
  <2>1. instrumentAtomic(i) = Replaced("thread_fence", "none") /\ Type(i) = "none"
    BY <1>4 DEF instrumentAtomic, Type
  <2>2. "thread_fence" \in CallFns /\ "none" \in CallTypes
    BY DEF CallFns, CallTypes
  <2>3. PICK f, t, b : f = "thread_fence" /\ t = "none" /\ b = FALSE
    OBVIOUS
  <2>4. instrumentAtomic(i) = Step(f, t, b) /\ f \in CallFns /\ t \in CallTypes /\ b \in BOOLEAN
    BY <2>1, <2>2, <2>3
  <2> HIDE DEF Step
  <2>5. Step(f, t, b) \in StepRecs /\ Len(Step(f, t, b).calls) = 1 /\ Callback(Step(f, t, b).calls, t)
    BY <1>1, <2>4
  <2> QED BY <2>1, <2>3, <2>4, <2>5
<1>5. CASE i.op # "fence" /\ getMemoryAccessFuncIndex(i.addr) < 0
  <2>1. instrumentAtomic(i) = Untouched
    BY <1>5 DEF instrumentAtomic
  <2> QED BY <1>2, <1>5, <2>1
<1>6. CASE i.op # "fence" /\ ~(getMemoryAccessFuncIndex(i.addr) < 0)
  <2>1. CASE i.op = "atomic load"
    <3>1. instrumentAtomic(i) = [Replaced("load", "atomic read") EXCEPT !.stays = TRUE]
      BY <1>6, <2>1 DEF instrumentAtomic
    <3>2. /\ instrumentAtomic(i) = [calls |-> << [fn |-> "load", type |-> "atomic read"] >>, stays |-> TRUE]
          /\ Type(i) = "atomic read"
      BY <2>1, <3>1 DEF Type
    <3>3. PICK f, t, b : f = "load" /\ t = "atomic read" /\ b = TRUE
      OBVIOUS
    <3>4. f \in CallFns /\ t \in CallTypes /\ b \in BOOLEAN
      BY <3>3 DEF CallFns, CallTypes, AccessTypes
    <3>5. instrumentAtomic(i) = Step(f, t, b) /\ Type(i) = t
      BY <3>2, <3>3
    <3> HIDE DEF Step
    <3>6. Step(f, t, b) \in StepRecs /\ Len(Step(f, t, b).calls) = 1 /\ Callback(Step(f, t, b).calls, t)
      BY <1>1, <3>4
    <3> QED BY <3>5, <3>6
  <2>2. CASE i.op = "atomic store"
    <3>1. instrumentAtomic(i) = Replaced("store", "atomic write") /\ Type(i) = "atomic write"
      BY <1>6, <2>2 DEF instrumentAtomic, Type
    <3>3. PICK f, t, b : f = "store" /\ t = "atomic write" /\ b = FALSE
      OBVIOUS
    <3>4. f \in CallFns /\ t \in CallTypes /\ b \in BOOLEAN
      BY <3>3 DEF CallFns, CallTypes, AccessTypes
    <3>5. instrumentAtomic(i) = Step(f, t, b) /\ Type(i) = t
      BY <3>1, <3>3
    <3> HIDE DEF Step
    <3>6. Step(f, t, b) \in StepRecs /\ Len(Step(f, t, b).calls) = 1 /\ Callback(Step(f, t, b).calls, t)
      BY <1>1, <3>4
    <3> QED BY <3>5, <3>6
  <2>3. CASE i.op = "cas"
    <3>1. instrumentAtomic(i) = Replaced("compare_exchange_val", "atomic write") /\ Type(i) = "atomic write"
      BY <1>6, <2>3 DEF instrumentAtomic, Type
    <3>3. PICK f, t, b : f = "compare_exchange_val" /\ t = "atomic write" /\ b = FALSE
      OBVIOUS
    <3>4. f \in CallFns /\ t \in CallTypes /\ b \in BOOLEAN
      BY <3>3 DEF CallFns, CallTypes, AccessTypes
    <3>5. instrumentAtomic(i) = Step(f, t, b) /\ Type(i) = t
      BY <3>1, <3>3
    <3> HIDE DEF Step
    <3>6. Step(f, t, b) \in StepRecs /\ Len(Step(f, t, b).calls) = 1 /\ Callback(Step(f, t, b).calls, t)
      BY <1>1, <3>4
    <3> QED BY <3>5, <3>6
  <2>4. CASE i.op = "rmw" /\ i.fn \in RmwCallbacks
    <3>1. instrumentAtomic(i) = Replaced(i.fn, "atomic write") /\ Type(i) = "atomic write"
      BY <1>6, <2>4 DEF instrumentAtomic, Type
    <3>2. i.fn \in RmwOps
      BY <1>3, <2>4
    <3>3. PICK f, t, b : f = i.fn /\ t = "atomic write" /\ b = FALSE
      OBVIOUS
    <3>4. f \in CallFns /\ t \in CallTypes /\ b \in BOOLEAN
      BY <3>3, <3>2 DEF CallFns, CallTypes, AccessTypes
    <3>5. instrumentAtomic(i) = Step(f, t, b) /\ Type(i) = t
      BY <3>1, <3>3
    <3> HIDE DEF Step
    <3>6. Step(f, t, b) \in StepRecs /\ Len(Step(f, t, b).calls) = 1 /\ Callback(Step(f, t, b).calls, t)
      BY <1>1, <3>4
    <3> QED BY <3>5, <3>6
  <2>5. CASE i.op = "rmw" /\ i.fn \notin RmwCallbacks
    <3>1. instrumentAtomic(i) = Untouched
      BY <1>6, <2>5 DEF instrumentAtomic
    <3>2. i.fn \in MinMax
      BY <1>3, <2>5 DEF RmwOps, RmwCallbacks, MinMax
    <3> QED BY <1>2, <3>1, <3>2
  <2>6. i.op \in {"atomic load", "atomic store", "cas", "rmw"}
    BY <1>3, <1>6 DEF Atomics
  <2> QED BY <2>1, <2>2, <2>3, <2>4, <2>5, <2>6
<1> QED BY <1>4, <1>5, <1>6

LEMMA AtMostOnce ==
  ASSUME NEW A, NEW s \in Seq(A), IsInjective(s), NEW x
  PROVE  /\ x \notin ToSet(s) => Cardinality({k \in DOMAIN s : s[k] = x}) = 0
         /\ x \in ToSet(s) => Cardinality({k \in DOMAIN s : s[k] = x}) = 1
<1>1. ASSUME x \notin ToSet(s) PROVE Cardinality({k \in DOMAIN s : s[k] = x}) = 0
  <2>1. {k \in DOMAIN s : s[k] = x} = {}
    BY <1>1 DEF ToSet
  <2> QED BY <2>1, FS_EmptySet
<1>2. ASSUME x \in ToSet(s) PROVE Cardinality({k \in DOMAIN s : s[k] = x}) = 1
  <2>1. PICK j \in DOMAIN s : s[j] = x
    BY <1>2 DEF ToSet
  <2>2. {k \in DOMAIN s : s[k] = x} = {j}
    BY <2>1 DEF IsInjective
  <2> QED BY <2>2, FS_Singleton
<1> QED BY <1>1, <1>2

LEMMA Plans ==
  ASSUME NEW body \in Seq(Instrs)
  PROVE  PlanOk(body, Plan(body))
<1>c. PICK c : c = Collect(body)
  OBVIOUS
<1>1. Collected(body, c)
  BY <1>c, Collects
<1> DEFINE Occ(p) == {k \in DOMAIN c.all : c.all[k] = p}
           Once(p) == instrumentLoadOrStore(body[p])
           Inserted(p) == [k \in 1 .. Cardinality(Occ(p)) * Len(Once(p)) |-> Once(p)[1]]
<1>2. Plan(body) = [p \in 1 .. Len(body) |->
         IF p \in ToSet(c.atomics) THEN instrumentAtomic(body[p])
                                   ELSE [calls |-> Inserted(p), stays |-> TRUE]]
  BY <1>c DEF Plan
<1>3. ASSUME NEW p \in Positions(body) PROVE PlanStep(body, p, Plan(body)[p])
  <2>s. PICK step : step = Plan(body)[p]
    OBVIOUS
  <2>i. PICK i : i = body[p]
    OBVIOUS
  <2>1. i \in Instrs
    BY <2>i, InstrOps
  <2>2. p \in 1 .. Len(body)
    BY DEF Positions
  <2>3. CASE isAtomic(i)
    <3>1. p \in ToSet(c.atomics) /\ ~LoadOrStore(body, p)
      BY <1>1, <2>i, <2>3, InstrOps DEF Collected
    <3>2. step = instrumentAtomic(i)
      BY <1>2, <2>s, <2>i, <2>2, <3>1
    <3>3. /\ instrumentAtomic(i) \in StepRecs
          /\ Callback(instrumentAtomic(i).calls, Type(i))
          /\ i.op # "fence" /\ i.fn \notin MinMax /\ ~(getMemoryAccessFuncIndex(i.addr) < 0) =>
               Len(instrumentAtomic(i).calls) = 1
      BY <2>1, <2>3, AtomicCalls
    <3> QED BY <2>s, <2>i, <3>1, <3>2, <3>3 DEF PlanStep, NoCallback
  <2>4. CASE ~isAtomic(i)
    <3>1. p \notin ToSet(c.atomics)
      BY <1>1, <2>i, <2>4 DEF Collected
    <3>2. step = [calls |-> Inserted(p), stays |-> TRUE]
      BY <1>2, <2>s, <2>2, <3>1
    <3>3. step.calls = Inserted(p)
      BY <3>2
    <3>4. c.all \in Seq(Positions(body)) /\ IsInjective(c.all)
      BY <1>1 DEF Collected, Accs
    <3>5. /\ p \notin ToSet(c.all) => Cardinality(Occ(p)) = 0
          /\ p \in ToSet(c.all) => Cardinality(Occ(p)) = 1
      BY <3>4, AtMostOnce
    <3> HIDE DEF Occ
    <3>6. CASE p \in ToSet(c.all) /\ Once(p) # << >>
      <4>1. LoadOrStore(body, p)
        BY <1>1, <3>6 DEF Collected
      <4>2. i.op \in {"load", "store"}
        BY <2>i, <4>1 DEF LoadOrStore
      <4>3. PICK x \in CallRecs : instrumentLoadOrStore(i) = << x >> /\ x.type = Type(i)
        BY <2>i, <3>6, <4>2, LoadOrStoreCalls
      <4>4. Len(<< x >>) = 1 /\ << x >>[1] = x
        OBVIOUS
      <4>5. Len(Once(p)) = 1 /\ Once(p)[1] = x
        BY <2>i, <4>3, <4>4
      <4> HIDE DEF Once
      <4>6. Cardinality(Occ(p)) * Len(Once(p)) = 1
        BY <3>5, <3>6, <4>5
      <4>7. step.calls = [k \in 1 .. 1 |-> x]
        BY <3>3, <4>5, <4>6
      <4>8. step.calls \in Seq(CallRecs) /\ Len(step.calls) = 1 /\ step.calls[1] = x
        BY <4>7
      <4>9. step \in StepRecs
        BY <3>2, <3>3, <4>8 DEF StepRecs
      <4> QED BY <2>s, <2>i, <4>3, <4>8, <4>9 DEF PlanStep, Callback
    <3>7. CASE ~(p \in ToSet(c.all) /\ Once(p) # << >>)
      <4>1. Cardinality(Occ(p)) * Len(Once(p)) = 0
        <5>1. CASE p \notin ToSet(c.all)
          <6>1. CASE LoadOrStore(body, p)
            <7>1. i.op \in {"load", "store"}
              BY <2>i, <6>1 DEF LoadOrStore
            <7>2. \/ Once(p) = << >>
                  \/ \E x \in CallRecs : Once(p) = << x >>
              BY <2>i, <7>1, LoadOrStoreCalls
            <7>3. Len(Once(p)) \in Nat
              BY <7>2
            <7> HIDE DEF Once
            <7> QED BY <3>5, <5>1, <7>3
          <6>2. CASE ~LoadOrStore(body, p)
            <7>1. Cardinality(Occ(p)) = 0
              BY <3>5, <5>1
            <7>2. Len(Once(p)) \in Nat
              BY DEF instrumentLoadOrStore
            <7> HIDE DEF Once
            <7> QED BY <7>1, <7>2
          <6> QED BY <6>1, <6>2
        <5>2. CASE p \in ToSet(c.all)
          <6>1. Len(Once(p)) = 0
            BY <3>7, <5>2
          <6> HIDE DEF Once
          <6> QED BY <3>5, <5>2, <6>1
        <5> QED BY <5>1, <5>2
      <4>2. PICK x : x = Once(p)[1]
        OBVIOUS
      <4>3. step.calls = [k \in 1 .. 0 |-> x]
        BY <3>3, <4>1, <4>2
      <4>4. step.calls = << >>
        BY <4>3
      <4>5. step \in StepRecs /\ Len(step.calls) = 0
        <5>1. << >> \in Seq(CallRecs) /\ Len(<< >>) = 0
          OBVIOUS
        <5>2. PICK e : e = << >>
          OBVIOUS
        <5>3. step = [calls |-> e, stays |-> TRUE]
          BY <3>2, <3>3, <4>4, <5>2
        <5>4. step \in StepRecs
          BY <5>1, <5>2, <5>3 DEF StepRecs
        <5> QED BY <4>4, <5>1, <5>4
      <4>6. ASSUME LoadOrStore(body, p), ~NoCallback(body[p].addr), body[p].value \notin Bookkeeping,
                   ~(body[p].op = "load" /\ (body[p].addr \in Constant \/ WrittenLater(body, p)))
            PROVE  FALSE
        <5>1. Handled(body, c.all, p) /\ body[p].addr \notin LeftOut
          BY <1>1, <4>6 DEF Collected, NoCallback
        <5>2. p \in ToSet(c.all)
          BY <4>6, <5>1 DEF Handled
        <5>3. i.op \in {"load", "store"} /\ i.addr \notin SwiftError
              /\ ~(getMemoryAccessFuncIndex(i.addr) < 0)
          BY <2>i, <4>6 DEF LoadOrStore, NoCallback
        <5>4. instrumentLoadOrStore(i) # << >>
          BY <5>3, LoadOrStoreCalls
        <5> QED BY <2>i, <3>7, <5>2, <5>4
      <4>7. ~isAtomic(body[p]) /\ Callback(step.calls, Type(body[p]))
        BY <2>i, <2>4, <4>5 DEF Callback
      <4> QED BY <2>s, <4>5, <4>6, <4>7 DEF PlanStep
    <3> QED BY <3>6, <3>7
  <2> QED BY <2>3, <2>4
<1>4. \A p \in 1 .. Len(body) : Plan(body)[p] \in StepRecs
  BY <1>3 DEF PlanStep, Positions
<1>5. PICK plan : plan = Plan(body)
  OBVIOUS
<1>6. plan = [p \in 1 .. Len(body) |-> plan[p]] /\ \A p \in 1 .. Len(body) : plan[p] \in StepRecs
  BY <1>2, <1>4, <1>5
<1>7. plan \in Seq(StepRecs) /\ Len(plan) = Len(body)
  BY <1>6
<1> QED BY <1>3, <1>5, <1>7 DEF PlanOk

-----------------------------------------------------------------------------
(* The functions of the module while the pass goes over them.              *)

Kinds == {"main", "outlined", "other", "skipped", "clone"}
FuncRecs == [kind : Kinds, body : Seq(Instrs), clone : Nat, plan : Seq(StepRecs)]

\* Nothing is called.
Bare(body, plan) ==
  /\ plan \in Seq(StepRecs) /\ Len(plan) = Len(body)
  /\ \A p \in Positions(body) : plan[p].calls = << >>

\* Clones, and the outlined functions the pass has been at.
Compiled(f, k, a) == f.kind = "clone" \/ (f.kind = "outlined" /\ k < a)

FuncInv(fs, a, t, k) ==
  /\ Compiled(fs[k], k, a) => PlanOk(fs[k].body, fs[k].plan)
  /\ ~Compiled(fs[k], k, a) => Bare(fs[k].body, fs[k].plan)
  /\ fs[k].clone # 0 =>
       /\ fs[k].kind = "other" /\ k < a /\ fs[k].clone \in 1 .. Len(fs)
       /\ fs[fs[k].clone].kind = "clone"
  /\ fs[k].kind = "main" /\ k < a => t = "defined"

PassInv ==
  /\ funcs \in Seq(FuncRecs) /\ at \in Nat \ {0} /\ linked \in BOOLEAN
  /\ tls \in {"absent", "weak", "defined"}
  /\ linked => at > Len(funcs)
  /\ \A k \in 1 .. Len(funcs) : FuncInv(funcs, at, tls, k)

-----------------------------------------------------------------------------
(* The function that runs, and its records.                                *)

Entries == [pos : Nat, addr : Addrs, type : CallTypes, interval : Nat]

Performed(body, n, e) ==
  /\ e.pos \in Positions(body) /\ e.pos < n
  /\ e.addr = body[e.pos].addr /\ e.type = Type(body[e.pos])

RunInv ==
  /\ cur \in Nat /\ pc \in Nat /\ interval \in Nat
  /\ log \in Seq(Entries) /\ done \in Seq(Entries)
  /\ cur = 0 => log = << >> /\ done = << >>
  /\ cur # 0 => /\ linked /\ cur \in 1 .. Len(funcs)
                /\ pc \in 1 .. Len(funcs[cur].body) + 1
                /\ \/ funcs[cur].kind \in {"outlined", "other"}
                   \/ funcs[cur].kind = "clone" /\ status = 1
  /\ \A e \in ToSet(done) : Performed(funcs[cur].body, pc, e)
  /\ \A r \in ToSet(log) : r.pos < pc /\ (r.type = "none" \/ r \in ToSet(done))
  /\ IsInjective(log)
  /\ log # << >> => funcs[cur].kind \in {"outlined", "clone"}

\* The exceptions of AccessesCovered, for a given body.
ExemptIn(body, e) ==
  \/ body[e.pos].value \in Bookkeeping
  \/ /\ e.type = "unsafe read" /\ WritesBehind(body, e.pos) # {}
     /\ \A q \in WritesBehind(body, e.pos) : body[q].value \in Bookkeeping
  \/ body[e.pos].op = "memset" \/ body[e.pos].fn \in MinMax
  \/ NoCallback(e.addr)
  \/ e.addr \in Constant /\ e.type = "unsafe read"

CoveredBy(lg, e) ==
  \E r \in ToSet(lg) :
    /\ r.addr = e.addr /\ r.interval = e.interval
    /\ r.type = e.type \/ (e.type = "unsafe read" /\ r.type = "unsafe write")

\* The read is before a recorded write of its address in the run that is
\* going on.
Pending(body, n, iv, e) ==
  /\ e.type = "unsafe read" /\ e.interval = iv
  /\ \E q \in Positions(body) :
       /\ n <= q /\ body[q].op = "store" /\ body[q].addr = e.addr
       /\ body[q].value \notin Bookkeeping
       /\ OneRun(body, n, q)

CoverInv ==
  cur # 0 /\ funcs[cur].kind \in {"outlined", "clone"} =>
    \A e \in ToSet(done) :
      \/ ExemptIn(funcs[cur].body, e)
      \/ CoveredBy(log, e)
      \/ Pending(funcs[cur].body, pc, interval, e)

-----------------------------------------------------------------------------
LEMMA PassInit ==
  Init => PassInv
<1> SUFFICES ASSUME Init PROVE PassInv
  OBVIOUS
<1>1. PICK m \in Modules : funcs = [k \in 1 .. Len(m) |-> Original(m[k])]
  BY DEF Init
<1>2. m \in Seq([kind : {"main", "outlined", "other", "skipped"}, body : Seq(Instrs)])
  BY <1>1, InstrumentAssumption
<1>3. ASSUME NEW k \in 1 .. Len(m)
      PROVE  /\ funcs[k] \in FuncRecs /\ funcs[k].clone = 0 /\ funcs[k].kind # "clone"
             /\ Bare(funcs[k].body, funcs[k].plan)
  <2>f. PICK f : f = m[k]
    OBVIOUS
  <2>1. f \in [kind : {"main", "outlined", "other", "skipped"}, body : Seq(Instrs)]
    BY <1>2, <1>3, <2>f, ElementOfSeq
  <2>p. PICK plan : plan = [p \in 1 .. Len(f.body) |-> Untouched]
    OBVIOUS
  <2>2. funcs[k] = [kind |-> f.kind, body |-> f.body, clone |-> 0, plan |-> plan]
    BY <1>1, <1>3, <2>f, <2>p DEF Original
  <2>3. f.kind \in Kinds /\ f.kind # "clone" /\ f.body \in Seq(Instrs) /\ Len(f.body) \in Nat
    BY <2>1 DEF Kinds
  <2>4. Untouched \in StepRecs /\ Untouched.calls = << >>
    BY DEF Untouched, StepRecs
  <2>5. plan \in Seq(StepRecs) /\ Len(plan) = Len(f.body)
    BY <2>p, <2>3, <2>4
  <2>6. Bare(f.body, plan)
    BY <2>p, <2>4, <2>5 DEF Bare, Positions
  <2>7. funcs[k] \in FuncRecs
    BY <2>2, <2>3, <2>5 DEF FuncRecs
  <2> QED BY <2>2, <2>3, <2>6, <2>7
<1>4. funcs \in Seq(FuncRecs) /\ Len(funcs) = Len(m)
  BY <1>1, <1>2, <1>3
<1>5. at = 1 /\ tls = "absent" /\ linked = FALSE
  BY DEF Init
<1>6. ASSUME NEW k \in 1 .. Len(funcs) PROVE FuncInv(funcs, at, tls, k)
  <2>1. ~(k < at) /\ k \in 1 .. Len(m)
    BY <1>4, <1>5
  <2> QED BY <1>3, <2>1 DEF FuncInv, Compiled
<1>7. at \in Nat \ {0} /\ tls \in {"absent", "weak", "defined"}
  BY <1>5
<1>8. linked \in BOOLEAN /\ ~linked
  BY <1>5, Zenon
<1> QED BY <1>4, <1>6, <1>7, <1>8 DEF PassInv

(* The pass moves on and leaves the function as it is.                     *)
LEMMA PassMoves ==
  ASSUME PassInv, Advance, UNCHANGED funcs,
         funcs[at].kind \in {"skipped", "clone", "main"},
         tls' \in {tls, "defined"}, funcs[at].kind = "main" => tls' = "defined"
  PROVE  PassInv'
<1>1. /\ at' = at + 1 /\ linked' = linked /\ funcs' = funcs /\ at \in Nat \ {0}
      /\ at <= Len(funcs) /\ funcs \in Seq(FuncRecs) /\ Len(funcs) \in Nat
  BY DEF Advance, PassInv
<1>2. ~linked
  BY <1>1 DEF PassInv
<1>a. PICK n : n = at + 1
  OBVIOUS
<1>t. PICK t : t = tls'
  OBVIOUS
<1>3. ASSUME NEW k \in 1 .. Len(funcs) PROVE FuncInv(funcs, n, t, k)
  <2>1. FuncInv(funcs, at, tls, k)
    BY DEF PassInv
  <2>2. k < n <=> k < at \/ k = at
    BY <1>1, <1>a
  <2>3. Compiled(funcs[k], k, n) <=> Compiled(funcs[k], k, at)
    BY <1>1, <2>2 DEF Compiled
  <2>4. funcs[k].kind = "main" /\ k < n => t = "defined"
    BY <1>t, <2>1, <2>2 DEF FuncInv
  <2> QED BY <2>1, <2>2, <2>3, <2>4 DEF FuncInv
<1>4. (\A k \in 1 .. Len(funcs) : FuncInv(funcs, at, tls, k))'
  BY <1>1, <1>3, <1>a, <1>t
<1>5. (tls \in {"absent", "weak", "defined"})' /\ (at \in Nat \ {0})'
  BY <1>1 DEF PassInv
<1> QED BY <1>1, <1>2, <1>4, <1>5 DEF PassInv

(* The pass at an outlined function.                                       *)
LEMMA PassOutlined ==
  ASSUME PassInv, InstrumentOutlined
  PROVE  PassInv'
<1>1. /\ at' = at + 1 /\ linked' = linked /\ at \in Nat \ {0}
      /\ at <= Len(funcs) /\ funcs \in Seq(FuncRecs) /\ Len(funcs) \in Nat
      /\ funcs[at].kind = "outlined" /\ tls \in {"absent", "weak", "defined"}
  BY DEF InstrumentOutlined, Advance, PassInv
<1>2. ~linked
  BY <1>1 DEF PassInv
<1>a. PICK n, a : n = at + 1 /\ a = at
  OBVIOUS
<1>t. PICK t : t = tls'
  OBVIOUS
<1>3. t \in {"absent", "weak", "defined"} /\ (tls = "defined" => t = "defined")
  BY <1>1, <1>t DEF InstrumentOutlined, TLS_DECLARE_EXTERN
<1>f. PICK f : f = funcs[at]
  OBVIOUS
<1>4. f \in FuncRecs /\ a \in 1 .. Len(funcs)
  BY <1>1, <1>a, <1>f, ElementOfSeq
<1>b. PICK body : body = f.body
  OBVIOUS
<1>p. PICK plan : plan = Plan(body)
  OBVIOUS
<1>5. body \in Seq(Instrs) /\ f.clone \in Nat /\ f.kind \in Kinds
  BY <1>b, <1>4 DEF FuncRecs
<1>6. PlanOk(body, plan)
  BY <1>p, <1>5, Plans
<1>g. PICK g : g = [f EXCEPT !.plan = plan]
  OBVIOUS
<1>7. g.kind = "outlined" /\ g.body = body /\ g.plan = plan /\ g.clone = f.clone /\ g \in FuncRecs
  BY <1>1, <1>b, <1>f, <1>4, <1>6, <1>g DEF FuncRecs, PlanOk
<1>h. PICK fs : fs = [funcs EXCEPT ![a] = g]
  OBVIOUS
<1>8. funcs' = fs
  BY <1>1, <1>a, <1>b, <1>f, <1>g, <1>h, <1>p, <1>4 DEF InstrumentOutlined
<1>9. /\ fs \in Seq(FuncRecs) /\ Len(fs) = Len(funcs) /\ fs[a] = g
      /\ \A k \in 1 .. Len(funcs) : k # a => fs[k] = funcs[k]
  BY <1>1, <1>4, <1>7, <1>h
<1>10. \A k \in 1 .. Len(funcs) : fs[k].kind = funcs[k].kind /\ fs[k].clone = funcs[k].clone
  BY <1>1, <1>a, <1>f, <1>7, <1>9
<1>11. ASSUME NEW k \in 1 .. Len(funcs) PROVE FuncInv(fs, n, t, k)
  <2>1. FuncInv(funcs, at, tls, k)
    BY DEF PassInv
  <2>2. k < n <=> k < at \/ k = at
    BY <1>1, <1>a
  <2>3. fs[k].kind = "main" /\ k < n => t = "defined"
    BY <1>1, <1>3, <1>10, <2>1, <2>2 DEF FuncInv
  <2>4. fs[k].clone # 0 =>
          /\ fs[k].kind = "other" /\ k < n /\ fs[k].clone \in 1 .. Len(fs)
          /\ fs[fs[k].clone].kind = "clone"
    BY <1>9, <1>10, <2>1, <2>2 DEF FuncInv
  <2>5. CASE k = a
    <3>1. Compiled(fs[k], k, n) /\ PlanOk(fs[k].body, fs[k].plan)
      BY <1>a, <1>6, <1>7, <1>9, <2>2, <2>5 DEF Compiled
    <3> QED BY <2>3, <2>4, <3>1 DEF FuncInv
  <2>6. CASE k # a
    <3>1. Compiled(fs[k], k, n) <=> Compiled(funcs[k], k, at)
      BY <1>a, <1>9, <2>2, <2>6 DEF Compiled
    <3>2. fs[k] = funcs[k]
      BY <1>9, <2>6
    <3>3. Compiled(fs[k], k, n) => PlanOk(fs[k].body, fs[k].plan)
      BY <2>1, <3>1, <3>2 DEF FuncInv
    <3>4. ~Compiled(fs[k], k, n) => Bare(fs[k].body, fs[k].plan)
      BY <2>1, <3>1, <3>2 DEF FuncInv
    <3> QED BY <2>3, <2>4, <3>3, <3>4 DEF FuncInv
  <2> QED BY <2>5, <2>6
<1>12. (\A k \in 1 .. Len(funcs) : FuncInv(funcs, at, tls, k))'
  BY <1>1, <1>8, <1>9, <1>11, <1>a, <1>t
<1>13. (tls \in {"absent", "weak", "defined"})' /\ (at \in Nat \ {0})' /\ (funcs \in Seq(FuncRecs))'
  BY <1>1, <1>3, <1>8, <1>9, <1>t
<1> QED BY <1>1, <1>2, <1>12, <1>13 DEF PassInv

(* The pass at a function that it clones.                                  *)
LEMMA PassClones ==
  ASSUME PassInv, CloneFunction
  PROVE  PassInv'
<1>1. /\ at' = at + 1 /\ linked' = linked /\ at \in Nat \ {0}
      /\ at <= Len(funcs) /\ funcs \in Seq(FuncRecs) /\ Len(funcs) \in Nat
      /\ funcs[at].kind = "other" /\ tls \in {"absent", "weak", "defined"}
  BY DEF CloneFunction, Advance, PassInv
<1>2. ~linked
  BY <1>1 DEF PassInv
<1>a. PICK n, a, m : n = at + 1 /\ a = at /\ m = Len(funcs) + 1
  OBVIOUS
<1>t. PICK t : t = tls'
  OBVIOUS
<1>3. t \in {"absent", "weak", "defined"} /\ (tls = "defined" => t = "defined")
  BY <1>1, <1>t DEF CloneFunction, TLS_DECLARE_EXTERN
<1>f. PICK f : f = funcs[at]
  OBVIOUS
<1>4. f \in FuncRecs /\ a \in 1 .. Len(funcs) /\ m \in Nat /\ m # 0 /\ m # a
  BY <1>1, <1>a, <1>f, ElementOfSeq
<1>b. PICK body : body = f.body
  OBVIOUS
<1>p. PICK plan : plan = Plan(body)
  OBVIOUS
<1>5. body \in Seq(Instrs) /\ f.clone \in Nat /\ f.kind \in Kinds /\ "clone" \in Kinds
  BY <1>b, <1>4 DEF FuncRecs, Kinds
<1>6. PlanOk(body, plan)
  BY <1>p, <1>5, Plans
<1>g. PICK g : g = [f EXCEPT !.clone = m]
  OBVIOUS
<1>c. PICK c : c = [f EXCEPT !.kind = "clone", !.plan = plan]
  OBVIOUS
<1>i. FuncInv(funcs, at, tls, a)
  BY <1>4 DEF PassInv
<1>7. g.kind = "other" /\ g.body = body /\ g.plan = f.plan /\ g.clone = m /\ g \in FuncRecs
  BY <1>1, <1>b, <1>f, <1>4, <1>g DEF FuncRecs
<1>8. c.kind = "clone" /\ c.body = body /\ c.plan = plan /\ c.clone = f.clone /\ c \in FuncRecs
  BY <1>b, <1>4, <1>5, <1>6, <1>c DEF FuncRecs, PlanOk
<1>h. PICK hs : hs = [funcs EXCEPT ![a] = g]
  OBVIOUS
<1>s. PICK fs : fs = Append(hs, c)
  OBVIOUS
<1>9. funcs' = fs
  BY <1>1, <1>a, <1>b, <1>c, <1>f, <1>g, <1>h, <1>p, <1>s, <1>4 DEF CloneFunction
<1>10. /\ hs \in Seq(FuncRecs) /\ Len(hs) = Len(funcs) /\ hs[a] = g
       /\ \A k \in 1 .. Len(funcs) : k # a => hs[k] = funcs[k]
  BY <1>1, <1>4, <1>7, <1>h
<1>11. /\ fs \in Seq(FuncRecs) /\ Len(fs) = m /\ fs[m] = c
       /\ \A k \in 1 .. Len(funcs) : fs[k] = hs[k]
  BY <1>1, <1>8, <1>10, <1>a, <1>s
<1>12. fs[a] = g /\ \A k \in 1 .. Len(funcs) : k # a => fs[k] = funcs[k]
  BY <1>4, <1>10, <1>11
<1>13. \A k \in 1 .. Len(funcs) : fs[k].kind = funcs[k].kind
  BY <1>1, <1>a, <1>7, <1>12
<1>14. c.clone = 0
  BY <1>1, <1>a, <1>f, <1>i, <1>8 DEF FuncInv
<1>15. \A k \in 1 .. m : k \in 1 .. Len(funcs) \/ k = m
  BY <1>1, <1>a
<1>16. ASSUME NEW k \in 1 .. m PROVE FuncInv(fs, n, t, k)
  <2>1. CASE k = m
    <3>1. Compiled(fs[k], k, n) /\ PlanOk(fs[k].body, fs[k].plan)
      BY <1>6, <1>8, <1>11, <2>1 DEF Compiled
    <3>2. fs[k].clone = 0 /\ fs[k].kind # "main"
      BY <1>8, <1>11, <1>14, <2>1
    <3> QED BY <3>1, <3>2 DEF FuncInv
  <2>2. CASE k \in 1 .. Len(funcs)
    <3>1. FuncInv(funcs, at, tls, k)
      BY <2>2 DEF PassInv
    <3>2. k < n <=> k < at \/ k = at
      BY <1>1, <1>a
    <3>3. fs[k].kind = "main" /\ k < n => t = "defined"
      BY <1>1, <1>3, <1>13, <2>2, <3>1, <3>2 DEF FuncInv
    <3>4. CASE k = a
      <4>1. fs[k].clone = m /\ fs[k].kind = "other" /\ k < n /\ m \in 1 .. Len(fs) /\ fs[m].kind = "clone"
        BY <1>a, <1>1, <1>4, <1>7, <1>8, <1>11, <1>12, <3>4
      <4>2. ~Compiled(fs[k], k, n) /\ ~Compiled(funcs[k], k, at)
        BY <1>1, <1>a, <3>4, <4>1 DEF Compiled
      <4>3. Bare(fs[k].body, fs[k].plan)
        <5>1. Bare(funcs[k].body, funcs[k].plan)
          BY <3>1, <4>2 DEF FuncInv
        <5>2. fs[k].body = funcs[k].body /\ fs[k].plan = funcs[k].plan
          BY <1>a, <1>b, <1>f, <1>7, <1>12, <3>4
        <5> QED BY <5>1, <5>2
      <4> QED BY <3>3, <4>1, <4>2, <4>3 DEF FuncInv
    <3>5. CASE k # a
      <4>1. fs[k] = funcs[k]
        BY <1>12, <2>2, <3>5
      <4>2. Compiled(fs[k], k, n) <=> Compiled(funcs[k], k, at)
        BY <1>a, <3>2, <3>5, <4>1 DEF Compiled
      <4>3. Compiled(fs[k], k, n) => PlanOk(fs[k].body, fs[k].plan)
        BY <3>1, <4>1, <4>2 DEF FuncInv
      <4>4. ~Compiled(fs[k], k, n) => Bare(fs[k].body, fs[k].plan)
        BY <3>1, <4>1, <4>2 DEF FuncInv
      <4>5. fs[k].clone # 0 =>
              /\ fs[k].kind = "other" /\ k < n /\ fs[k].clone \in 1 .. Len(fs)
              /\ fs[fs[k].clone].kind = "clone"
        <5>1. SUFFICES ASSUME fs[k].clone # 0
                       PROVE  /\ fs[k].kind = "other" /\ k < n /\ fs[k].clone \in 1 .. Len(fs)
                              /\ fs[fs[k].clone].kind = "clone"
          OBVIOUS
        <5>2. /\ funcs[k].kind = "other" /\ k < at /\ funcs[k].clone \in 1 .. Len(funcs)
              /\ funcs[funcs[k].clone].kind = "clone"
          BY <3>1, <4>1, <5>1 DEF FuncInv
        <5>3. fs[k].clone \in 1 .. Len(fs) /\ k < n
          BY <1>1, <1>a, <1>11, <3>2, <4>1, <5>2
        <5> QED BY <1>13, <4>1, <5>2, <5>3
      <4> QED BY <3>3, <4>3, <4>4, <4>5 DEF FuncInv
    <3> QED BY <3>4, <3>5
  <2> QED BY <1>15, <2>1, <2>2
<1>17. (\A k \in 1 .. Len(funcs) : FuncInv(funcs, at, tls, k))'
  BY <1>1, <1>9, <1>11, <1>16, <1>a, <1>t
<1>18. (tls \in {"absent", "weak", "defined"})' /\ (at \in Nat \ {0})' /\ (funcs \in Seq(FuncRecs))'
  BY <1>1, <1>3, <1>9, <1>11, <1>t
<1> QED BY <1>1, <1>2, <1>17, <1>18 DEF PassInv

LEMMA PassStep ==
  PassInv /\ [Next]_vars => PassInv'
<1> SUFFICES ASSUME PassInv, [Next]_vars PROVE PassInv'
  OBVIOUS
<1>1. CASE SkipFunction
  <2>1. Advance /\ UNCHANGED funcs /\ tls' = tls /\ funcs[at].kind \in {"skipped", "clone"}
    BY <1>1 DEF SkipFunction
  <2> QED BY <2>1, PassMoves
<1>2. CASE DeclareInMain
  <2>1. Advance /\ UNCHANGED funcs /\ tls' = "defined" /\ funcs[at].kind = "main"
    BY <1>2 DEF DeclareInMain, TLS_DECLARE
  <2> QED BY <2>1, PassMoves
<1>3. CASE InstrumentOutlined
  BY <1>3, PassOutlined
<1>4. CASE CloneFunction
  BY <1>4, PassClones
<1>5. CASE Link
  <2>1. UNCHANGED <<funcs, at, tls>> /\ linked' = TRUE /\ at > Len(funcs)
    BY <1>5 DEF Link
  <2> QED BY <2>1 DEF PassInv
<1>6. CASE UNCHANGED passVars
  BY <1>6 DEF PassInv, passVars
<1>7. CASE (\E f \in DOMAIN funcs, s \in 0 .. MaxStatus : Enter(f, s)) \/ Access \/ Call \/ Jump
  BY <1>6, <1>7 DEF Enter, Access, Call, Jump
<1>8. CASE UNCHANGED vars
  BY <1>6, <1>8 DEF vars, passVars
<1> QED BY <1>1, <1>2, <1>3, <1>4, <1>5, <1>7, <1>8 DEF Next

(* The functions and their plans are in order throughout.                  *)
THEOREM PassInvariance ==
  Spec => []PassInv
<1>1. Init => PassInv
  BY PassInit
<1>2. PassInv /\ [Next]_vars => PassInv'
  BY PassStep
<1> QED BY <1>1, <1>2, PTL DEF Spec

(* Wherever main is in its module, once the program is linked the globals  *)
(* the runtime declares are defined (TLS_DECLARE after TLS_DECLARE_EXTERN).*)
THEOREM GlobalsAreDefined ==
  Spec => []GlobalsDefined
<1>1. ASSUME PassInv PROVE GlobalsDefined
  <2> SUFFICES ASSUME linked, NEW f \in ToSet(funcs), f.kind = "main" PROVE tls = "defined"
    BY DEF GlobalsDefined
  <2>1. at > Len(funcs) /\ Len(funcs) \in Nat /\ at \in Nat
    BY <1>1 DEF PassInv
  <2>2. PICK k \in 1 .. Len(funcs) : f = funcs[k]
    BY <1>1 DEF PassInv, ToSet
  <2>3. FuncInv(funcs, at, tls, k) /\ k < at
    BY <1>1, <2>1 DEF PassInv
  <2> QED BY <2>2, <2>3 DEF FuncInv
<1> QED BY <1>1, PassInvariance, PTL

-----------------------------------------------------------------------------
LEMMA AtMostOneRecord ==
  ASSUME NEW A, NEW s \in Seq(A), NEW x \in A, NEW n \in {0, 1}
  PROVE  s \o [k \in 1 .. n |-> x] = IF n = 1 THEN Append(s, x) ELSE s
<1>1. CASE n = 0
  <2>1. [k \in 1 .. n |-> x] = << >>
    BY <1>1
  <2> QED BY <1>1, <2>1
<1>2. CASE n = 1
  <2>1. PICK t : t = [k \in 1 .. n |-> x]
    OBVIOUS
  <2>2. t \in Seq(A) /\ Len(t) = 1 /\ t[1] = x
    BY <1>2, <2>1
  <2>3. s \o t = Append(s, x)
    <3>1. t = << x >>
      <4>1. << x >> \in Seq(A) /\ Len(<< x >>) = 1 /\ << x >>[1] = x
        OBVIOUS
      <4>2. \A k \in 1 .. Len(t) : t[k] = << x >>[k]
        BY <2>2, <4>1
      <4> QED BY <2>2, <4>1, <4>2, SeqEqual
    <3> QED BY <3>1, AppendIsConcat
  <2> QED BY <1>2, <2>1, <2>3
<1> QED BY <1>1, <1>2

LEMMA Elements ==
  ASSUME NEW A, NEW s \in Seq(A)
  PROVE  ToSet(s) \subseteq A
BY ElementOfSeq DEF ToSet

LEMMA Types ==
  ASSUME NEW i \in Instrs
  PROVE  Type(i) \in CallTypes
<1>1. i.op \in {"load", "store", "br"} \cup Atomics \cup Calls
  BY DEF Instrs
<1> QED BY <1>1 DEF Type, CallTypes, AccessTypes, Atomics, Calls

\* What one access does to the records.
AccessEffect(e) ==
  /\ e = [pos |-> pc, addr |-> funcs[cur].body[pc].addr, type |-> Type(funcs[cur].body[pc]),
          interval |-> interval]
  /\ Len(funcs[cur].plan[pc].calls) \in {0, 1}
  /\ log' = IF Len(funcs[cur].plan[pc].calls) = 1 THEN Append(log, e) ELSE log
  /\ done' = IF e.type = "none" THEN done ELSE Append(done, e)
  /\ pc' = pc + 1 /\ UNCHANGED <<passVars, status, cur, interval>>

\* The function that runs, whether or not it is instrumented.
LEMMA RunningFunction ==
  ASSUME PassInv, RunInv, Running
  PROVE  /\ cur \in 1 .. Len(funcs) /\ linked
         /\ funcs[cur].body \in Seq(Instrs) /\ pc \in Positions(funcs[cur].body)
         /\ funcs[cur].body[pc] \in Instrs
         /\ funcs[cur].kind \in {"outlined", "clone"} => PlanOk(funcs[cur].body, funcs[cur].plan)
         /\ funcs[cur].kind = "other" => Bare(funcs[cur].body, funcs[cur].plan)
         /\ funcs[cur].kind \in {"outlined", "clone", "other"}
<1>1. cur # 0 /\ pc \in 1 .. Len(funcs[cur].body)
  BY DEF Running, Body
<1>2. cur \in 1 .. Len(funcs) /\ linked /\ funcs[cur].kind \in {"outlined", "clone", "other"}
  BY <1>1 DEF RunInv
<1>3. funcs[cur] \in FuncRecs /\ at > Len(funcs) /\ at \in Nat /\ Len(funcs) \in Nat
  BY <1>2, ElementOfSeq DEF PassInv
<1>4. funcs[cur].body \in Seq(Instrs)
  BY <1>3 DEF FuncRecs
<1>5. pc \in Positions(funcs[cur].body)
  BY <1>1 DEF Positions
<1>6. funcs[cur].body[pc] \in Instrs
  BY <1>4, <1>5, InstrOps
<1>7. FuncInv(funcs, at, tls, cur) /\ cur < at
  BY <1>2, <1>3 DEF PassInv
<1>8. funcs[cur].kind \in {"outlined", "clone"} => Compiled(funcs[cur], cur, at)
  BY <1>7 DEF Compiled
<1>9. funcs[cur].kind = "other" => ~Compiled(funcs[cur], cur, at)
  BY DEF Compiled
<1>10. funcs[cur].kind \in {"outlined", "clone"} => PlanOk(funcs[cur].body, funcs[cur].plan)
  BY <1>7, <1>8 DEF FuncInv
<1>11. funcs[cur].kind = "other" => Bare(funcs[cur].body, funcs[cur].plan)
  BY <1>7, <1>9 DEF FuncInv
<1> QED BY <1>2, <1>4, <1>5, <1>6, <1>10, <1>11

LEMMA Accesses ==
  ASSUME PassInv, RunInv, Access
  PROVE  \E e \in Entries : AccessEffect(e)
<1>1. Running /\ Perform /\ pc' = pc + 1 /\ UNCHANGED <<passVars, status, cur, interval>>
  BY DEF Access
<1>2. /\ cur \in 1 .. Len(funcs) /\ linked
      /\ funcs[cur].body \in Seq(Instrs) /\ pc \in Positions(funcs[cur].body)
      /\ funcs[cur].body[pc] \in Instrs
      /\ funcs[cur].kind \in {"outlined", "clone"} => PlanOk(funcs[cur].body, funcs[cur].plan)
      /\ funcs[cur].kind = "other" => Bare(funcs[cur].body, funcs[cur].plan)
      /\ funcs[cur].kind \in {"outlined", "clone", "other"}
  BY <1>1, RunningFunction
<1>i. PICK i : i = funcs[cur].body[pc]
  OBVIOUS
<1>e. PICK e : e = [pos |-> pc, addr |-> i.addr, type |-> Type(i), interval |-> interval]
  OBVIOUS
<1>c. PICK calls : calls = funcs[cur].plan[pc].calls
  OBVIOUS
<1>3. Type(i) \in CallTypes /\ i.addr \in Addrs
  BY <1>2, <1>i, Types DEF Instrs
<1>4. e \in Entries
  BY <1>e, <1>3 DEF Entries, RunInv
<1>5. Len(calls) \in {0, 1} /\ (Len(calls) = 1 => calls[1].type = Type(i))
  <2>1. CASE funcs[cur].kind \in {"outlined", "clone"}
    <3>1. PlanStep(funcs[cur].body, pc, funcs[cur].plan[pc])
      BY <1>2, <2>1 DEF PlanOk
    <3>2. calls \in Seq(CallRecs) /\ Callback(calls, Type(i))
      BY <1>i, <1>c, <3>1 DEF PlanStep, StepRecs
    <3>3. Len(calls) \in Nat
      BY <3>2
    <3>4. Len(calls) <= 1
      BY <3>2 DEF Callback
    <3>5. Len(calls) \in {0, 1}
      BY <3>3, <3>4
    <3> QED BY <3>2, <3>5 DEF Callback
  <2>2. CASE funcs[cur].kind = "other"
    <3>1. calls = << >>
      BY <1>2, <1>c, <2>2 DEF Bare
    <3> QED BY <3>1
  <2> QED BY <1>2, <2>1, <2>2
<1>n. PICK n : n = Len(calls)
  OBVIOUS
<1>6. log' = log \o [k \in 1 .. n |-> [pos |-> pc, addr |-> i.addr, type |-> calls[k].type, interval |-> interval]]
  BY <1>1, <1>i, <1>c, <1>n DEF Perform, Entry, Here, Body
<1>7. [k \in 1 .. n |-> [pos |-> pc, addr |-> i.addr, type |-> calls[k].type, interval |-> interval]]
        = [k \in 1 .. n |-> e]
  <2>1. ASSUME NEW k \in 1 .. n PROVE calls[k].type = Type(i)
    <3>1. n = 1 /\ k = 1
      BY <1>5, <1>n
    <3> QED BY <1>5, <1>n, <3>1
  <2> QED BY <1>e, <2>1
<1>8. log \in Seq(Entries) /\ n \in {0, 1}
  BY <1>5, <1>n DEF RunInv
<1>9. log' = IF n = 1 THEN Append(log, e) ELSE log
  BY <1>4, <1>6, <1>7, <1>8, AtMostOneRecord
<1>10. done' = IF e.type = "none" THEN done ELSE Append(done, e)
  BY <1>1, <1>i, <1>e DEF Perform, Entry, Here, Body
<1>11. AccessEffect(e)
  BY <1>1, <1>i, <1>e, <1>c, <1>n, <1>8, <1>9, <1>10 DEF AccessEffect
<1> QED BY <1>4, <1>11

-----------------------------------------------------------------------------
PassAction == SkipFunction \/ DeclareInMain \/ InstrumentOutlined \/ CloneFunction \/ Link

(* Nothing runs while the pass is at work.                                 *)
LEMMA PassFirst ==
  ASSUME PassInv, RunInv, PassAction
  PROVE  cur = 0 /\ UNCHANGED <<pc, runVars>>
<1>1. ~linked
  <2>1. CASE Link
    BY <2>1 DEF Link
  <2>2. CASE Advance
    BY <2>2 DEF Advance, PassInv
  <2> QED BY <2>1, <2>2 DEF PassAction, SkipFunction, DeclareInMain, InstrumentOutlined, CloneFunction
<1>2. UNCHANGED <<pc, runVars>>
  BY DEF PassAction, SkipFunction, DeclareInMain, InstrumentOutlined, CloneFunction, Advance, Link
<1> QED BY <1>1, <1>2 DEF RunInv

(* The entry of a function.                                                *)
LEMMA Enters ==
  ASSUME PassInv, RunInv, NEW f \in DOMAIN funcs, NEW s \in 0 .. MaxStatus, Enter(f, s)
  PROVE  /\ cur' \in 1 .. Len(funcs) /\ linked /\ pc' = 1 /\ status' = s /\ cur = 0
         /\ UNCHANGED <<passVars, interval, log, done>>
         /\ \/ funcs[cur'].kind \in {"outlined", "other"}
            \/ funcs[cur'].kind = "clone" /\ s = 1
<1>1. /\ cur' = Branch(f, s) /\ linked /\ pc' = 1 /\ status' = s /\ cur = 0
      /\ UNCHANGED <<passVars, interval, log, done>> /\ funcs[f].kind \in {"outlined", "other"}
  BY DEF Enter
<1>2. f \in 1 .. Len(funcs) /\ FuncInv(funcs, at, tls, f)
  BY DEF PassInv
<1>3. CASE funcs[f].clone # 0 /\ s = 1
  BY <1>1, <1>2, <1>3 DEF Branch, FuncInv
<1>4. CASE ~(funcs[f].clone # 0 /\ s = 1)
  BY <1>1, <1>2, <1>4 DEF Branch
<1> QED BY <1>1, <1>3, <1>4

LEMMA RunInit ==
  Init => RunInv /\ CoverInv
<1> SUFFICES ASSUME Init PROVE RunInv /\ CoverInv
  OBVIOUS
<1>1. pc = 0 /\ cur = 0 /\ interval = 0 /\ log = << >> /\ done = << >>
  BY DEF Init
<1>2. ToSet(<< >>) = {} /\ IsInjective(<< >>)
  BY DEF ToSet, IsInjective
<1> QED BY <1>1, <1>2 DEF RunInv, CoverInv

(* The function goes on without a record.                                  *)
LEMMA RunMoves ==
  ASSUME PassInv, RunInv, Running, UNCHANGED <<passVars, status, cur, log, done>>,
         interval' \in Nat, pc' \in pc + 1 .. Len(Body) + 1
  PROVE  RunInv'
<1>1. /\ funcs' = funcs /\ cur' = cur /\ status' = status /\ log' = log /\ done' = done
      /\ linked' = linked
  BY DEF passVars
<1>2. /\ cur \in 1 .. Len(funcs) /\ cur # 0 /\ funcs[cur].body \in Seq(Instrs)
      /\ Len(funcs[cur].body) \in Nat /\ pc \in Nat
  BY RunningFunction DEF Running, RunInv
<1>3. pc' \in Nat /\ pc' \in 1 .. Len(funcs[cur].body) + 1 /\ pc < pc'
  BY <1>2 DEF Body
<1>4. \A e \in ToSet(done) : e.pos \in Nat /\ Performed(funcs[cur].body, pc, e)
  BY <1>2 DEF RunInv, Performed, Positions
<1>5. \A e \in ToSet(done) : Performed(funcs[cur].body, pc', e)
  BY <1>2, <1>3, <1>4 DEF Performed
<1>s. ToSet(log) \subseteq Entries
  BY Elements DEF RunInv
<1>6. \A r \in ToSet(log) : r \in Entries /\ r.pos \in Nat
  BY <1>s DEF Entries
<1>7. \A r \in ToSet(log) : r.pos < pc' /\ (r.type = "none" \/ r \in ToSet(done))
  BY <1>2, <1>3, <1>6 DEF RunInv
<1> QED BY <1>1, <1>2, <1>3, <1>5, <1>7 DEF RunInv

LEMMA RunAccess ==
  ASSUME PassInv, RunInv, Access
  PROVE  RunInv'
<1>1. PICK e \in Entries : AccessEffect(e)
  BY Accesses
<1>2. Running
  BY DEF Access
<1>3. /\ cur \in 1 .. Len(funcs) /\ cur # 0 /\ funcs[cur].body \in Seq(Instrs) /\ linked
      /\ pc \in Positions(funcs[cur].body)
      /\ funcs[cur].kind = "other" => Bare(funcs[cur].body, funcs[cur].plan)
      /\ funcs[cur].kind \in {"outlined", "clone", "other"}
  BY <1>2, RunningFunction DEF Running
<1>b. PICK body : body = funcs[cur].body
  OBVIOUS
<1>4. /\ funcs' = funcs /\ cur' = cur /\ status' = status /\ interval' = interval
      /\ linked' = linked /\ pc' = pc + 1
      /\ e.pos = pc /\ e.addr = body[pc].addr /\ e.type = Type(body[pc])
  BY <1>1, <1>b DEF AccessEffect, passVars
<1>5. /\ body \in Seq(Instrs) /\ Len(body) \in Nat /\ pc \in 1 .. Len(body) /\ pc \in Positions(body)
  BY <1>3, <1>b DEF Positions
<1>6. pc' \in Nat /\ pc' \in 1 .. Len(body) + 1 /\ pc < pc'
  BY <1>4, <1>5
<1>7. log \in Seq(Entries) /\ done \in Seq(Entries) /\ IsInjective(log)
  BY DEF RunInv
<1>8. /\ Append(log, e) \in Seq(Entries) /\ ToSet(Append(log, e)) = ToSet(log) \cup {e}
      /\ IsInjective(log) /\ e \notin ToSet(log) => IsInjective(Append(log, e))
  BY <1>7, Appended
<1>9. Append(done, e) \in Seq(Entries) /\ ToSet(Append(done, e)) = ToSet(done) \cup {e}
  BY <1>7, Appended
<1>10. log' \in {log, Append(log, e)} /\ done' \in {done, Append(done, e)}
       /\ (e.type # "none" => done' = Append(done, e))
  BY <1>1 DEF AccessEffect
<1>11. \A r \in ToSet(log) : r \in Entries /\ r.pos \in Nat /\ r.pos < pc
  <2>1. ToSet(log) \subseteq Entries
    BY <1>7, Elements
  <2>2. \A r \in ToSet(log) : r.pos < pc
    BY DEF RunInv
  <2> QED BY <2>1, <2>2 DEF Entries
<1>12. e \notin ToSet(log)
  BY <1>4, <1>5, <1>11
<1>13. log' \in Seq(Entries) /\ IsInjective(log')
  BY <1>7, <1>8, <1>10, <1>12
<1>14. done' \in Seq(Entries) /\ ToSet(done) \subseteq ToSet(done') /\ ToSet(done') \subseteq ToSet(done) \cup {e}
  BY <1>7, <1>9, <1>10
<1>15. \A d \in ToSet(done) : Performed(body, pc, d) /\ d.pos \in Nat
  BY <1>b, <1>5 DEF RunInv, Performed, Positions
<1>16. \A d \in ToSet(done') : Performed(body, pc', d)
  <2>1. Performed(body, pc', e)
    BY <1>4, <1>5, <1>6 DEF Performed
  <2>2. \A d \in ToSet(done) : Performed(body, pc', d)
    BY <1>5, <1>6, <1>15 DEF Performed
  <2> QED BY <1>14, <2>1, <2>2
<1>17. \A r \in ToSet(log') : r.pos < pc' /\ (r.type = "none" \/ r \in ToSet(done'))
  <2>1. \A r \in ToSet(log) : r.pos < pc' /\ (r.type = "none" \/ r \in ToSet(done'))
    BY <1>5, <1>6, <1>11, <1>14 DEF RunInv
  <2>2. e.pos < pc' /\ (e.type = "none" \/ e \in ToSet(done'))
    BY <1>4, <1>6, <1>9, <1>10
  <2> QED BY <1>8, <1>10, <2>1, <2>2
<1>18. log' # << >> => funcs[cur].kind \in {"outlined", "clone"}
  <2>1. CASE funcs[cur].kind = "other"
    <3>1. funcs[cur].plan[pc].calls = << >>
      BY <1>3, <2>1 DEF Bare
    <3>2. Len(funcs[cur].plan[pc].calls) = 0
      BY <3>1
    <3>3. log' = log
      BY <1>1, <3>2 DEF AccessEffect
    <3> QED BY <2>1, <3>3 DEF RunInv
  <2> QED BY <1>3, <2>1
<1>19. /\ funcs[cur].kind \in {"outlined", "other"} \/ (funcs[cur].kind = "clone" /\ status = 1)
  BY <1>3 DEF RunInv
<1> QED BY <1>3, <1>4, <1>6, <1>13, <1>14, <1>16, <1>17, <1>18, <1>19, <1>b DEF RunInv

LEMMA RunStep ==
  PassInv /\ RunInv /\ [Next]_vars => RunInv'
<1> SUFFICES ASSUME PassInv, RunInv, [Next]_vars PROVE RunInv'
  OBVIOUS
<1>e. ToSet(<< >>) = {} /\ IsInjective(<< >>)
  BY DEF ToSet, IsInjective
<1>1. CASE PassAction
  <2>1. cur = 0 /\ UNCHANGED <<pc, runVars>>
    BY <1>1, PassFirst
  <2>2. /\ cur' = 0 /\ pc' = pc /\ interval' = interval /\ log' = << >> /\ done' = << >>
        /\ pc \in Nat /\ interval \in Nat
    BY <2>1 DEF runVars, RunInv
  <2> QED BY <1>e, <2>2 DEF RunInv
<1>2. ASSUME NEW f \in DOMAIN funcs, NEW s \in 0 .. MaxStatus, Enter(f, s) PROVE RunInv'
  <2>1. /\ cur' \in 1 .. Len(funcs) /\ linked /\ pc' = 1 /\ status' = s /\ cur = 0
        /\ UNCHANGED <<passVars, interval, log, done>>
        /\ \/ funcs[cur'].kind \in {"outlined", "other"}
           \/ funcs[cur'].kind = "clone" /\ s = 1
    BY <1>2, Enters
  <2>2. /\ log' = << >> /\ done' = << >> /\ funcs' = funcs /\ linked' /\ interval' \in Nat
    BY <2>1 DEF RunInv, passVars
  <2>3. funcs[cur'] \in FuncRecs
    BY <2>1, ElementOfSeq DEF PassInv
  <2>4. Len(funcs[cur'].body) \in Nat
    BY <2>3 DEF FuncRecs
  <2>5. cur' \in Nat /\ cur' # 0 /\ pc' \in Nat /\ pc' \in 1 .. Len(funcs[cur'].body) + 1
    BY <2>1, <2>4
  <2> QED BY <1>e, <2>1, <2>2, <2>5 DEF RunInv
<1>3. CASE Access
  BY <1>3, RunAccess
<1>4. CASE Call
  <2>1. Running /\ UNCHANGED <<passVars, status, cur, log, done>> /\ interval' = interval + 1 /\ pc' = pc + 1
    BY <1>4 DEF Call
  <2>2. pc \in 1 .. Len(Body) /\ interval \in Nat
    BY <2>1 DEF Running, RunInv
  <2>b. PICK n : n = Len(Body)
    OBVIOUS
  <2>3. n \in Nat
    BY <2>1, <2>b, RunningFunction DEF Body
  <2>4. interval' \in Nat /\ pc' \in pc + 1 .. Len(Body) + 1
    BY <2>1, <2>2, <2>3, <2>b
  <2> QED BY <2>1, <2>4, RunMoves
<1>5. CASE Jump
  <2>1. Running /\ UNCHANGED <<passVars, status, cur, log, done>> /\ interval' = interval
        /\ pc' \in pc + 1 .. Len(Body) + 1
    BY <1>5 DEF Jump, runVars
  <2>2. interval' \in Nat
    BY <2>1 DEF RunInv
  <2> QED BY <2>1, <2>2, RunMoves
<1>6. CASE UNCHANGED vars
  BY <1>6 DEF vars, RunInv
<1> QED BY <1>1, <1>2, <1>3, <1>4, <1>5, <1>6 DEF Next, PassAction

-----------------------------------------------------------------------------
(* A call or the end of a block leaves no read waiting for its write.      *)
LEMMA NothingPending ==
  ASSUME NEW body \in Seq(Instrs), NEW n \in Positions(body), NEW iv, NEW e,
         body[n].op \in Calls \cup {"br"}
  PROVE  ~Pending(body, n, iv, e)
<1> SUFFICES ASSUME NEW q \in Positions(body), n <= q, OneRun(body, n, q) PROVE FALSE
  BY DEF Pending
<1>1. n \in n .. q
  BY DEF Positions
<1> QED BY <1>1 DEF OneRun

(* The next instruction does not end the run.                              *)
LEMMA StaysPending ==
  ASSUME NEW body \in Seq(Instrs), NEW n \in Positions(body), NEW q \in Positions(body),
         n < q, OneRun(body, n, q)
  PROVE  n + 1 <= q /\ OneRun(body, n + 1, q)
<1>1. n + 1 <= q /\ \A k \in n + 1 .. q : k \in n .. q
  BY DEF Positions
<1> QED BY <1>1 DEF OneRun

LEMMA CoverAccess ==
  ASSUME PassInv, RunInv, CoverInv, Access
  PROVE  CoverInv'
<1>1. PICK e \in Entries : AccessEffect(e)
  BY Accesses
<1>2. Running
  BY DEF Access
<1>3. /\ cur # 0 /\ funcs[cur].body \in Seq(Instrs) /\ pc \in Positions(funcs[cur].body)
      /\ funcs[cur].body[pc] \in Instrs
      /\ funcs[cur].kind \in {"outlined", "clone"} => PlanOk(funcs[cur].body, funcs[cur].plan)
  BY <1>2, RunningFunction DEF Running
<1>b. PICK body, n, iv, step :
        body = funcs[cur].body /\ n = pc /\ iv = interval /\ step = funcs[cur].plan[pc]
  OBVIOUS
<1>l. PICK lg : lg = log'
  OBVIOUS
<1>4. /\ funcs' = funcs /\ cur' = cur /\ interval' = iv /\ pc' = n + 1
      /\ e.addr = body[n].addr /\ e.type = Type(body[n]) /\ e.interval = iv /\ e.pos = n
  BY <1>1, <1>b DEF AccessEffect, passVars
<1> SUFFICES ASSUME funcs[cur].kind \in {"outlined", "clone"}, NEW d \in ToSet(done')
             PROVE  ExemptIn(body, d) \/ CoveredBy(lg, d) \/ Pending(body, n + 1, iv, d)
  BY <1>4, <1>b, <1>l DEF CoverInv
<1>5. body \in Seq(Instrs) /\ n \in Positions(body) /\ body[n] \in Instrs /\ PlanStep(body, n, step)
  BY <1>3, <1>b DEF PlanOk
<1>6. log \in Seq(Entries) /\ done \in Seq(Entries)
  BY DEF RunInv
<1>7. ToSet(Append(log, e)) = ToSet(log) \cup {e} /\ ToSet(Append(done, e)) = ToSet(done) \cup {e}
  BY <1>6, Appended
<1>8. ToSet(log) \subseteq ToSet(lg) /\ (Len(step.calls) = 1 => e \in ToSet(lg))
  BY <1>1, <1>7, <1>b, <1>l DEF AccessEffect
<1>9. d \in ToSet(done) \/ (d = e /\ e.type # "none")
  BY <1>1, <1>7 DEF AccessEffect
<1>10. ASSUME ~ExemptIn(body, d), d \in ToSet(done)
       PROVE  CoveredBy(lg, d) \/ Pending(body, n + 1, iv, d)
  <2>1. CoveredBy(log, d) \/ Pending(body, n, iv, d)
    BY <1>3, <1>10, <1>b DEF CoverInv
  <2>2. CASE CoveredBy(log, d)
    BY <1>8, <2>2 DEF CoveredBy
  <2>3. CASE Pending(body, n, iv, d)
    <3>1. PICK q \in Positions(body) : /\ n <= q /\ body[q].op = "store" /\ body[q].addr = d.addr
                                       /\ body[q].value \notin Bookkeeping
                                       /\ OneRun(body, n, q)
      BY <2>3 DEF Pending
    <3>2. d.type = "unsafe read" /\ d.interval = iv
      BY <2>3 DEF Pending
    <3>3. CASE q = n
      <4>1. LoadOrStore(body, n) /\ ~NoCallback(body[n].addr) /\ body[n].op # "load"
        BY <1>10, <3>1, <3>3 DEF LoadOrStore, ExemptIn
      <4>2. Len(step.calls) = 1
        BY <1>5, <3>1, <3>3, <4>1 DEF PlanStep
      <4>3. e.type = "unsafe write"
        BY <1>4, <3>1, <3>3 DEF Type
      <4> QED BY <1>4, <1>8, <3>1, <3>2, <3>3, <4>2, <4>3 DEF CoveredBy
    <3>4. CASE q # n
      <4>1. n < q
        BY <1>5, <3>1, <3>4 DEF Positions
      <4>2. n + 1 <= q /\ OneRun(body, n + 1, q)
        BY <1>5, <3>1, <4>1, StaysPending
      <4> QED BY <3>1, <3>2, <4>2 DEF Pending
    <3> QED BY <3>3, <3>4
  <2> QED BY <2>1, <2>2, <2>3
<1>11. ASSUME ~ExemptIn(body, d), d = e, e.type # "none"
       PROVE  CoveredBy(lg, d) \/ Pending(body, n + 1, iv, d)
  <2>1. /\ body[n].op # "memset" /\ body[n].fn \notin MinMax /\ ~NoCallback(body[n].addr)
        /\ body[n].value \notin Bookkeeping
        /\ ~(body[n].addr \in Constant /\ e.type = "unsafe read")
    BY <1>4, <1>11 DEF ExemptIn
  <2>2. ASSUME Len(step.calls) = 1 PROVE CoveredBy(lg, d)
    BY <1>8, <1>11, <2>2 DEF CoveredBy
  <2>3. CASE isAtomic(body[n])
    <3>1. body[n].op # "fence"
      BY <1>4, <1>11 DEF Type
    <3> QED BY <1>5, <2>1, <2>2, <2>3, <3>1 DEF PlanStep
  <2>4. CASE LoadOrStore(body, n)
    <3>1. CASE body[n].op = "load" /\ WrittenLater(body, n)
      <4>w. PICK r \in Positions(body) : /\ n < r /\ body[r].op = "store" /\ body[r].addr = body[n].addr
                                         /\ OneRun(body, n, r)
        BY <3>1 DEF WrittenLater
      <4>r. r \in WritesBehind(body, n) /\ e.type = "unsafe read"
        <5>1. r \in n + 1 .. Len(body)
          BY <1>5, <4>w DEF Positions
        <5>2. r \in WritesBehind(body, n)
          BY <4>w, <5>1 DEF WritesBehind, OneRun
        <5>3. e.type = "unsafe read"
          BY <1>4, <3>1 DEF Type
        <5> QED BY <5>2, <5>3
      <4>p. PICK q \in WritesBehind(body, n) : body[q].value \notin Bookkeeping
        BY <1>4, <1>11, <4>r DEF ExemptIn
      <4>1. /\ q \in Positions(body) /\ n < q /\ body[q].op = "store" /\ body[q].addr = body[n].addr
            /\ OneRun(body, n, q)
        BY <1>5, <4>p DEF WritesBehind, OneRun, Positions
      <4>2. n + 1 <= q /\ OneRun(body, n + 1, q)
        BY <1>5, <4>1, StaysPending
      <4>3. d.type = "unsafe read" /\ d.interval = iv /\ d.addr = body[n].addr
        BY <1>4, <1>11, <3>1 DEF Type
      <4> QED BY <4>1, <4>2, <4>3, <4>p DEF Pending
    <3>2. CASE ~(body[n].op = "load" /\ WrittenLater(body, n))
      <4>1. ~(body[n].op = "load" /\ body[n].addr \in Constant)
        BY <1>4, <2>1 DEF Type
      <4>2. Len(step.calls) = 1
        BY <1>5, <2>1, <2>4, <3>2, <4>1 DEF PlanStep
      <4> QED BY <2>2, <4>2
    <3> QED BY <3>1, <3>2
  <2>5. CASE body[n].op \in Calls \cup {"br"}
    BY <1>4, <1>11, <2>1, <2>5 DEF Type, Calls
  <2>6. isAtomic(body[n]) \/ LoadOrStore(body, n) \/ body[n].op \in Calls \cup {"br"}
    BY <1>5, InstrOps
  <2> QED BY <2>3, <2>4, <2>5, <2>6
<1> QED BY <1>9, <1>10, <1>11

LEMMA CoverStep ==
  PassInv /\ RunInv /\ CoverInv /\ [Next]_vars => CoverInv'
<1> SUFFICES ASSUME PassInv, RunInv, CoverInv, [Next]_vars PROVE CoverInv'
  OBVIOUS
<1>1. CASE PassAction
  <2>1. cur = 0 /\ UNCHANGED <<pc, runVars>>
    BY <1>1, PassFirst
  <2> QED BY <2>1 DEF runVars, CoverInv
<1>2. ASSUME NEW f \in DOMAIN funcs, NEW s \in 0 .. MaxStatus, Enter(f, s) PROVE CoverInv'
  <2>1. cur = 0 /\ done' = done
    BY <1>2 DEF Enter
  <2>2. done' = << >> /\ ToSet(<< >>) = {}
    BY <2>1 DEF RunInv, ToSet
  <2> QED BY <2>2 DEF CoverInv
<1>3. CASE Access
  BY <1>3, CoverAccess
<1>4. ASSUME Running, Body[pc].op \in Calls \cup {"br"}, UNCHANGED <<passVars, cur, log, done>>
      PROVE  CoverInv'
  <2>1. /\ cur # 0 /\ funcs[cur].body \in Seq(Instrs) /\ pc \in Positions(funcs[cur].body)
    BY <1>4, RunningFunction DEF Running
  <2>2. \A e : ~Pending(funcs[cur].body, pc, interval, e)
    BY <1>4, <2>1, NothingPending DEF Body
  <2>3. funcs' = funcs /\ cur' = cur /\ log' = log /\ done' = done
    BY <1>4 DEF passVars
  <2> QED BY <2>2, <2>3 DEF CoverInv
<1>5. CASE Call
  BY <1>4, <1>5 DEF Call, Here, Calls
<1>6. CASE Jump
  BY <1>4, <1>6 DEF Jump, Here, runVars
<1>7. CASE UNCHANGED vars
  BY <1>7 DEF vars, CoverInv
<1> QED BY <1>1, <1>2, <1>3, <1>5, <1>6, <1>7 DEF Next, PassAction

-----------------------------------------------------------------------------
(* The records of a running function are in order throughout, and every    *)
(* access it has performed is exempt, covered or about to be.              *)
THEOREM RunInvariance ==
  Spec => [](PassInv /\ RunInv /\ CoverInv)
<1>1. Init => PassInv /\ RunInv /\ CoverInv
  BY PassInit, RunInit
<1>2. PassInv /\ RunInv /\ CoverInv /\ [Next]_vars => (PassInv /\ RunInv /\ CoverInv)'
  BY PassStep, RunStep, CoverStep
<1> QED BY <1>1, <1>2, PTL DEF Spec

(* No callback of the pass records an access that does not take place, or  *)
(* one twice, and none records outside of a parallel region, for every     *)
(* module and every path through its functions.                            *)
THEOREM RecordsAreExact ==
  Spec => []RecordsExact
<1>1. ASSUME PassInv, RunInv PROVE RecordsExact
  <2>1. \A r \in ToSet(log) : r.type = "none" \/ r \in ToSet(done)
    BY <1>1 DEF RunInv
  <2>2. IsInjective(log)
    BY <1>1 DEF RunInv
  <2>3. log # << >> => funcs[cur].kind = "outlined" \/ status = 1
    BY <1>1 DEF RunInv
  <2> QED BY <2>1, <2>2, <2>3 DEF RecordsExact
<1> QED BY <1>1, RunInvariance, PTL

(* What chooseInstructionsToInstrument leaves out as redundant is covered, *)
(* for every body, every path through it and every set of addresses.       *)
THEOREM AccessesAreCovered ==
  Spec => []AccessesCovered
<1>1. ASSUME PassInv, RunInv, CoverInv PROVE AccessesCovered
  <2> SUFFICES ASSUME Returned, Instrumented, NEW e \in ToSet(done), ~Exempt(e)
               PROVE  CoveredBy(log, e)
    BY DEF AccessesCovered, CoveredBy
  <2>1. cur # 0 /\ funcs[cur].kind \in {"outlined", "clone"} /\ pc = Len(funcs[cur].body) + 1
    BY DEF Returned, Instrumented, Body
  <2>2. ~ExemptIn(funcs[cur].body, e)
    BY DEF Exempt, ExemptIn, Body, NoCallback, LeftOut, MinMax
  <2>3. CoveredBy(log, e) \/ Pending(funcs[cur].body, pc, interval, e)
    BY <1>1, <2>1, <2>2 DEF CoverInv
  <2>4. funcs[cur] \in FuncRecs
    BY <1>1, <2>1, ElementOfSeq DEF PassInv, RunInv
  <2>5. Len(funcs[cur].body) \in Nat
    BY <2>4 DEF FuncRecs
  <2>6. ~Pending(funcs[cur].body, pc, interval, e)
    <3>1. PICK m : m = Len(funcs[cur].body)
      OBVIOUS
    <3>2. \A q \in 1 .. m : ~(pc <= q)
      BY <2>1, <2>5, <3>1
    <3> QED BY <3>1, <3>2 DEF Pending, Positions
  <2> QED BY <2>3, <2>6
<1> QED BY <1>1, RunInvariance, PTL
=============================================================================
