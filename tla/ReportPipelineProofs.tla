------------------------ MODULE ReportPipelineProofs -------------------------
(***************************************************************************)
(* The races that the analyzers find reach the printed list, for any trace *)
(* and any number of analyzers side by side: every interval is analyzed,   *)
(* what is read from the report files is printed without repetition, and a *)
(* region with races shows unless its last save was not completed.         *)
(***************************************************************************)
EXTENDS ReportPipeline, SequenceTheorems, FiniteSetTheorems, TLAPS

Analyzers ==
  [call : Intervals, interval : Nat \X Nat, races : Seq(Races), saving : BOOLEAN,
   todo : Seq(Races)]

Types ==
  /\ mode \in Modes /\ pc \in {"analyze", "read", "print", "end"}
  /\ rep_races \in [Intervals -> Seq(Races)]
  /\ calls \subseteq Intervals /\ running \subseteq Analyzers
  /\ reports \in [Regions -> Seq(Nat \X Nat)] /\ spoiled \subseteq Regions
  /\ unread \subseteq Regions
  /\ races \in Seq(Nat \X Nat) /\ printed \in Seq(Nat \X Nat)

(* The interval that the call for record i analyzes.                       *)
IntervalOf(i) == <<i[1], IF mode = "cluster" THEN 0 ELSE i[2]>>

(* No call gets lost: it is still to be made, under way, or its interval   *)
(* is done or failed.                                                      *)
CallsInv ==
  /\ \A a \in running : a.interval = IntervalOf(a.call)
  /\ \A i \in Intervals : \/ i \in calls \/ i \in failed \/ IntervalOf(i) \in done
                          \/ \E a \in running : a.call = i
  /\ pc # "analyze" => calls = {} /\ running = {}

(* An analyzer keeps the pair of every race it was given, and opens the    *)
(* file only when it has races to save.                                    *)
FoundInv ==
  \A a \in running :
    /\ IF a.interval \in Intervals
       THEN Pairs(a.races) \cup Pairs(a.todo) = Pairs(rep_races[a.interval])
       ELSE a.races = << >> /\ a.todo = << >>
    /\ a.saving => ToSave(a)

(* The pairs of the races in the intervals of a region.                    *)
FoundIn(r) == UNION {Pairs(rep_races[j]) : j \in {k \in Intervals : k[1] = r}}

(* A region with an interval that had races has one of them on file,       *)
(* unless its last save was not completed or one is under way.             *)
FilesInv ==
  \A i \in done \cap Intervals :
    rep_races[i] # << >> =>
      \/ FoundIn(i[1]) \cap Pairs(reports[i[1]]) # {}
      \/ i[1] \in spoiled
      \/ \E a \in running : a.saving /\ File(a) = i[1]

(* What the files of some regions hold.                                    *)
PairsOf(S) == UNION {Pairs(reports[r]) : r \in S}

(* The printer's list holds what the files read so far held, and printing  *)
(* moves each pair to what is printed, once.                               *)
PrinterInv ==
  /\ pc \in {"analyze", "read"} => printed = << >>
  /\ pc = "analyze" => races = << >>
  /\ pc = "read" => Pairs(races) = PairsOf(Regions \ unread)
  /\ pc \in {"print", "end"} => Pairs(races) \cup Pairs(printed) = PairsOf(Regions)
  /\ pc = "end" => races = << >>
  /\ IsFiniteSet(Pairs(printed)) /\ Cardinality(Pairs(printed)) = Len(printed)

IInv == Types /\ CallsInv /\ FoundInv /\ FilesInv /\ PrinterInv

-----------------------------------------------------------------------------
(* The pairs of a list.                                                    *)
LEMMA PairsEmpty == Pairs(<< >>) = {}
  BY DEF Pairs

LEMMA PairsNonEmpty ==
  ASSUME NEW S, NEW s \in Seq(S), s # << >>
  PROVE  Pairs(s) # {}
<1>1. 1 \in DOMAIN s
  OBVIOUS
<1> QED BY <1>1 DEF Pairs

LEMMA PairsAppend ==
  ASSUME NEW S, NEW s \in Seq(S), NEW x \in S
  PROVE  Pairs(Append(s, x)) = Pairs(s) \cup {Pair(x)}
<1> DEFINE t == Append(s, x)
<1>1. /\ DOMAIN s = 1 .. Len(s) /\ Len(s) \in Nat
      /\ DOMAIN t = 1 .. Len(s) + 1 /\ t[Len(s) + 1] = x
      /\ \A k \in 1 .. Len(s) : t[k] = s[k]
  OBVIOUS
<1> HIDE DEF t
<1>2. Pairs(t) \subseteq Pairs(s) \cup {Pair(x)}
  <2> SUFFICES ASSUME NEW k \in DOMAIN t PROVE Pair(t[k]) \in Pairs(s) \cup {Pair(x)}
    BY DEF Pairs
  <2>1. k = Len(s) + 1 \/ k \in DOMAIN s
    BY <1>1
  <2> QED BY <1>1, <2>1 DEF Pairs
<1>3. Pairs(s) \subseteq Pairs(t)
  <2> SUFFICES ASSUME NEW k \in DOMAIN s PROVE Pair(s[k]) \in Pairs(t)
    BY DEF Pairs
  <2>1. k \in DOMAIN t /\ t[k] = s[k]
    BY <1>1
  <2> QED BY <2>1 DEF Pairs
<1>4. Pair(x) \in Pairs(t)
  <2>1. Len(s) + 1 \in DOMAIN t
    BY <1>1
  <2> QED BY <1>1, <2>1 DEF Pairs
<1> QED BY <1>2, <1>3, <1>4 DEF t

LEMMA PairsConcat ==
  ASSUME NEW S, NEW s \in Seq(S), NEW t \in Seq(S)
  PROVE  Pairs(s \o t) = Pairs(s) \cup Pairs(t)
<1> DEFINE u == s \o t
<1>1. /\ DOMAIN s = 1 .. Len(s) /\ DOMAIN t = 1 .. Len(t)
      /\ Len(s) \in Nat /\ Len(t) \in Nat
      /\ DOMAIN u = 1 .. Len(s) + Len(t)
      /\ \A k \in 1 .. Len(s) + Len(t) : u[k] = IF k <= Len(s) THEN s[k] ELSE t[k - Len(s)]
  OBVIOUS
<1> HIDE DEF u
<1>2. Pairs(u) \subseteq Pairs(s) \cup Pairs(t)
  <2> SUFFICES ASSUME NEW k \in DOMAIN u PROVE Pair(u[k]) \in Pairs(s) \cup Pairs(t)
    BY DEF Pairs
  <2>1. CASE k <= Len(s)
    <3>1. k \in DOMAIN s /\ u[k] = s[k]
      BY <1>1, <2>1
    <3> QED BY <3>1 DEF Pairs
  <2>2. CASE k > Len(s)
    <3>1. k - Len(s) \in DOMAIN t /\ u[k] = t[k - Len(s)]
      BY <1>1, <2>2
    <3> QED BY <3>1 DEF Pairs
  <2> QED BY <1>1, <2>1, <2>2
<1>3. Pairs(s) \subseteq Pairs(u)
  <2> SUFFICES ASSUME NEW k \in DOMAIN s PROVE Pair(s[k]) \in Pairs(u)
    BY DEF Pairs
  <2>1. k \in DOMAIN u /\ u[k] = s[k]
    BY <1>1
  <2> QED BY <2>1 DEF Pairs
<1>4. Pairs(t) \subseteq Pairs(u)
  <2> SUFFICES ASSUME NEW k \in DOMAIN t PROVE Pair(t[k]) \in Pairs(u)
    BY DEF Pairs
  <2>1. k + Len(s) \in DOMAIN u /\ u[k + Len(s)] = t[k]
    BY <1>1
  <2> QED BY <2>1 DEF Pairs
<1> QED BY <1>2, <1>3, <1>4 DEF u

LEMMA PairsTail ==
  ASSUME NEW S, NEW s \in Seq(S), s # << >>
  PROVE  /\ Head(s) \in S /\ Tail(s) \in Seq(S)
         /\ Pairs(s) = {Pair(Head(s))} \cup Pairs(Tail(s))
<1> DEFINE t == Tail(s)
<1>1. /\ DOMAIN s = 1 .. Len(s) /\ Len(s) \in Nat \ {0}
      /\ DOMAIN t = 1 .. Len(s) - 1 /\ Head(s) = s[1]
      /\ \A k \in 1 .. Len(s) - 1 : t[k] = s[k + 1]
      /\ t \in Seq(S) /\ Head(s) \in S
  OBVIOUS
<1> HIDE DEF t
<1>2. Pairs(s) \subseteq {Pair(Head(s))} \cup Pairs(t)
  <2> SUFFICES ASSUME NEW k \in DOMAIN s
               PROVE  Pair(s[k]) \in {Pair(Head(s))} \cup Pairs(t)
    BY DEF Pairs
  <2>1. CASE k = 1
    BY <1>1, <2>1
  <2>2. CASE k # 1
    <3>1. k - 1 \in DOMAIN t /\ t[k - 1] = s[k]
      BY <1>1, <2>2
    <3> QED BY <3>1 DEF Pairs
  <2> QED BY <2>1, <2>2
<1>3. Pairs(t) \subseteq Pairs(s)
  <2> SUFFICES ASSUME NEW k \in DOMAIN t PROVE Pair(t[k]) \in Pairs(s)
    BY DEF Pairs
  <2>1. k + 1 \in DOMAIN s /\ t[k] = s[k + 1]
    BY <1>1
  <2> QED BY <2>1 DEF Pairs
<1>4. Pair(Head(s)) \in Pairs(s)
  <2>1. 1 \in DOMAIN s
    BY <1>1
  <2> QED BY <1>1, <2>1 DEF Pairs
<1> QED BY <1>1, <1>2, <1>3, <1>4 DEF t

(* The search of ReportRace and the sorted hash of the printer both        *)
(* compare the two program counters in either order.                       *)
LEMMA ReportedIsPair ==
  ASSUME NEW s, NEW x
  PROVE  Reported(s, x) <=> Pair(x) \in Pairs(s)
  BY DEF Reported, Pairs, Pair

LEMMA SamePairIsPair ==
  ASSUME NEW x \in Nat \X Nat, NEW y \in Nat \X Nat
  PROVE  SamePair(x, y) <=> Pair(x) = Pair(y)
<1>1. x = <<x[1], x[2]>> /\ x[1] \in Nat /\ x[2] \in Nat
      /\ y = <<y[1], y[2]>> /\ y[1] \in Nat /\ y[2] \in Nat
  OBVIOUS
<1>2. x = y <=> x[1] = y[1] /\ x[2] = y[2]
  BY <1>1
<1>3. x = <<y[2], y[1]>> <=> x[1] = y[2] /\ x[2] = y[1]
  BY <1>1
<1>4. <<x[2], x[1]>> = y <=> x[1] = y[2] /\ x[2] = y[1]
  BY <1>1
<1>5. Pair(x) = Pair(y) <=> \/ x[1] = y[1] /\ x[2] = y[2]
                            \/ x[1] = y[2] /\ x[2] = y[1]
  BY DEF Pair
<1> QED BY <1>1, <1>2, <1>3, <1>4, <1>5 DEF SamePair

(* Races are pairs of numbers, and so is what is read from a file that was *)
(* written only in part.                                                   *)
LEMMA RacesAreNumbers == Races \subseteq Nat \X Nat /\ Seq(Races) \subseteq Seq(Nat \X Nat)
<1>1. Races \subseteq Nat \X Nat
  BY ConstantsAssumption
<1>2. ASSUME NEW s \in Seq(Races) PROVE s \in Seq(Nat \X Nat)
  BY <1>1
<1> QED BY <1>1, <1>2

LEMMA OverwriteType ==
  ASSUME NEW file \in Seq(Nat \X Nat), NEW list \in Seq(Nat \X Nat), NEW n \in Int
  PROVE  Overwrite(file, list, n) \in Seq(Nat \X Nat)
<1> DEFINE old(k) == IF k \in DOMAIN file THEN file[k] ELSE <<0, 0>>
           new(k) == <<IF 2 * k - 1 <= n THEN list[k][1] ELSE old(k)[1],
                       IF 2 * k <= n THEN list[k][2] ELSE old(k)[2]>>
<1>1. Len(list) \in Nat /\ DOMAIN list = 1 .. Len(list)
  OBVIOUS
<1>2. ASSUME NEW k \in 1 .. Len(list) PROVE new(k) \in Nat \X Nat
  <2>1. list[k] \in Nat \X Nat
    BY <1>1
  <2>2. file \in [1 .. Len(file) -> Nat \X Nat]
    OBVIOUS
  <2>3. old(k) \in Nat \X Nat
    BY <2>2
  <2> HIDE DEF old
  <2>4. list[k][1] \in Nat /\ list[k][2] \in Nat /\ old(k)[1] \in Nat /\ old(k)[2] \in Nat
    BY <2>1, <2>3
  <2>5. /\ (IF 2 * k - 1 <= n THEN list[k][1] ELSE old(k)[1]) \in Nat
        /\ (IF 2 * k <= n THEN list[k][2] ELSE old(k)[2]) \in Nat
    BY <2>4
  <2> QED BY <2>5
<1>3. Overwrite(file, list, n) = [k \in 1 .. Len(list) |-> new(k)]
  BY DEF Overwrite
<1> HIDE DEF new
<1>4. [k \in 1 .. Len(list) |-> new(k)] \in [1 .. Len(list) -> Nat \X Nat]
  BY <1>2
<1> QED BY <1>1, <1>3, <1>4

-----------------------------------------------------------------------------
(* What a record of a meta file gives.                                     *)
LEMMA IntervalType ==
  ASSUME NEW i \in Intervals
  PROVE  /\ i = <<i[1], i[2]>> /\ i[1] \in Nat \ {0} /\ i[2] \in Nat
         /\ i[1] \in Regions
         /\ IntervalOf(i) \in Nat \X Nat /\ IntervalOf(i)[1] = i[1]
         /\ mode = "local" \/ i[2] = 0 => IntervalOf(i) = i
<1>1. i \in (Nat \ {0}) \X Nat
  BY ConstantsAssumption
<1>2. i = <<i[1], i[2]>> /\ i[1] \in Nat \ {0} /\ i[2] \in Nat
  BY <1>1
<1> QED BY <1>2 DEF IntervalOf, Regions

LEMMA NoRegionZero == 0 \notin Regions
  BY IntervalType DEF Regions

LEMMA InitInv == Init => IInv
<1> SUFFICES ASSUME Init PROVE IInv
  OBVIOUS
<1>1. ASSUME NEW i \in Intervals PROVE SeqOfAtMost(Races, MaxRaces[i]) \subseteq Seq(Races)
  <2> SUFFICES ASSUME NEW k \in 0 .. MaxRaces[i], NEW f \in [1 .. k -> Races]
               PROVE  f \in Seq(Races)
    BY DEF SeqOfAtMost
  <2>1. k \in Nat
    BY ConstantsAssumption
  <2> QED BY <2>1
<1>2. << >> \in Seq(Nat \X Nat)
  OBVIOUS
<1>3. rep_races \in [Intervals -> Seq(Races)]
  BY <1>1 DEF Init
<1>4. reports \in [Regions -> Seq(Nat \X Nat)] /\ \A r \in Regions : reports[r] = << >>
  BY <1>2 DEF Init
<1>5. Types
  BY <1>2, <1>3, <1>4 DEF Init, Types
<1>6. CallsInv /\ FoundInv
  BY DEF Init, CallsInv, FoundInv
<1>7. FilesInv
  BY DEF Init, FilesInv
<1>8. PrinterInv
  <2>1. Pairs(printed) = {} /\ Len(printed) = 0
    BY PairsEmpty DEF Init
  <2> QED BY <2>1, FS_EmptySet DEF Init, PrinterInv
<1> QED BY <1>5, <1>6, <1>7, <1>8 DEF IInv

(* The driver starts an analyzer.                                          *)
LEMMA CallStep ==
  ASSUME IInv, NEW i \in Intervals, Call(i)
  PROVE  IInv'
<1> DEFINE todo == IF IntervalOf(i) \in Intervals THEN rep_races[IntervalOf(i)] ELSE << >>
           a == [call |-> i, interval |-> IntervalOf(i), races |-> << >>, saving |-> FALSE,
                 todo |-> todo]
<1>1. /\ pc = "analyze" /\ calls' = calls \ {i} /\ running' = running \cup {a}
      /\ UNCHANGED <<mode, pc, rep_races, done, failed, reports, spoiled, unread, races, printed>>
  BY DEF Call, IntervalOf
<1>2. << >> \in Seq(Races) /\ todo \in Seq(Races)
  BY DEF IInv, Types
<1>3. a \in Analyzers
  BY <1>2, IntervalType DEF Analyzers
<1>4. a.call = i /\ a.interval = IntervalOf(i) /\ a.races = << >> /\ a.todo = todo
      /\ a.saving = FALSE
  OBVIOUS
<1> HIDE DEF a
<1>5. Types'
  BY <1>1, <1>3 DEF IInv, Types
<1>6. \A j : IntervalOf(j)' = IntervalOf(j)
  BY <1>1 DEF IntervalOf
<1>7. CallsInv'
  BY <1>1, <1>4, <1>6 DEF IInv, CallsInv
<1>8. FoundInv'
  BY <1>1, <1>4, PairsEmpty DEF IInv, FoundInv
<1>9. FilesInv'
  BY <1>1 DEF IInv, FilesInv, FoundIn
<1>10. PrinterInv'
  BY <1>1 DEF IInv, PrinterInv
<1> QED BY <1>5, <1>7, <1>8, <1>9, <1>10 DEF IInv

(* The analyzer meets a race.                                              *)
LEMMA ReportRaceStep ==
  ASSUME IInv, NEW a \in running, ReportRace(a)
  PROVE  IInv'
<1> DEFINE list == IF Reported(a.races, Head(a.todo)) THEN a.races
                   ELSE Append(a.races, Head(a.todo))
           b == [a EXCEPT !.todo = Tail(a.todo), !.races = list]
<1>1. /\ a.todo # << >> /\ running' = (running \ {a}) \cup {b}
      /\ UNCHANGED <<mode, pc, rep_races, calls, done, failed, reports, spoiled, unread, races, printed>>
  BY DEF ReportRace
<1>2. a \in Analyzers
  BY DEF IInv, Types
<1>3. a.todo \in Seq(Races) /\ a.races \in Seq(Races)
  BY <1>2 DEF Analyzers
<1>4. /\ Head(a.todo) \in Races /\ Tail(a.todo) \in Seq(Races)
      /\ Pairs(a.todo) = {Pair(Head(a.todo))} \cup Pairs(Tail(a.todo))
  BY <1>1, <1>3, PairsTail
<1>5. list \in Seq(Races) /\ Pairs(list) = Pairs(a.races) \cup {Pair(Head(a.todo))}
  <2>1. CASE Reported(a.races, Head(a.todo))
    BY <1>3, <2>1, ReportedIsPair
  <2>2. CASE ~Reported(a.races, Head(a.todo))
    BY <1>3, <1>4, <2>2, PairsAppend
  <2> QED BY <2>1, <2>2
<1> HIDE DEF list
<1>6. /\ b \in Analyzers /\ b.call = a.call /\ b.interval = a.interval
      /\ b.races = list /\ b.todo = Tail(a.todo) /\ b.saving = a.saving
  BY <1>2, <1>4, <1>5 DEF Analyzers
<1> HIDE DEF b
<1>7. Types'
  BY <1>1, <1>6 DEF IInv, Types
<1>8. \A j : IntervalOf(j)' = IntervalOf(j)
  BY <1>1 DEF IntervalOf
<1>9. CallsInv'
  <2>1. \A c \in running : \E d \in running' : d.call = c.call
    BY <1>1, <1>6
  <2>2. \A d \in running' : d.interval = IntervalOf(d.call)
    BY <1>1, <1>6 DEF IInv, CallsInv
  <2>3. pc = "analyze"
    BY DEF IInv, CallsInv
  <2> QED BY <1>1, <1>8, <2>1, <2>2, <2>3 DEF IInv, CallsInv
<1>10. FoundInv'
  <2>1. a.interval \in Intervals /\ ~a.saving
        /\ Pairs(a.races) \cup Pairs(a.todo) = Pairs(rep_races[a.interval])
    BY <1>1, <1>2 DEF IInv, FoundInv, ToSave, Reporting
  <2>2. Pairs(b.races) \cup Pairs(b.todo) = Pairs(rep_races[b.interval])
    BY <1>4, <1>5, <1>6, <2>1
  <2> QED BY <1>1, <1>6, <2>1, <2>2 DEF IInv, FoundInv
<1>11. FilesInv' /\ PrinterInv'
  <2>1. FilesInv'
    <3>1. ~a.saving
      BY <1>1, <1>2 DEF IInv, FoundInv, ToSave, Reporting
    <3>2. \A c \in running : c.saving => c \in running'
      BY <1>1, <3>1
    <3> QED BY <1>1, <3>2 DEF IInv, FilesInv, FoundIn
  <2>2. PrinterInv'
    BY <1>1 DEF IInv, PrinterInv, PairsOf
  <2> QED BY <2>1, <2>2
<1> QED BY <1>7, <1>9, <1>10, <1>11 DEF IInv

-----------------------------------------------------------------------------
(* The end of an analyzer, in any of its ways: its call is accounted for   *)
(* and the others are not touched.                                         *)
LEMMA EndOfAnalyzer ==
  ASSUME IInv, NEW a \in running,
         running' = running \ {a},
         \/ done' = done \cup {a.interval} /\ failed' = failed
         \/ done' = done /\ failed' = failed \cup {a.call},
         UNCHANGED <<mode, pc, rep_races, calls, unread, races, printed>>,
         reports' \in [Regions -> Seq(Nat \X Nat)], spoiled' \subseteq Regions
  PROVE  Types' /\ CallsInv' /\ FoundInv' /\ PrinterInv'
<1>1. Types'
  BY DEF IInv, Types
<1>2. \A j : IntervalOf(j)' = IntervalOf(j)
  BY DEF IntervalOf
<1>3. pc = "analyze"
  BY DEF IInv, CallsInv
<1>4. a.interval = IntervalOf(a.call)
  BY DEF IInv, CallsInv
<1>5. CallsInv'
  <2> SUFFICES ASSUME NEW i \in Intervals
               PROVE  \/ i \in calls \/ i \in failed' \/ IntervalOf(i) \in done'
                      \/ \E c \in running' : c.call = i
    BY <1>2, <1>3 DEF IInv, CallsInv
  <2>1. CASE a.call = i
    BY <1>4, <2>1
  <2>2. CASE \E c \in running : c.call = i /\ c # a
    BY <2>2
  <2>3. CASE ~\E c \in running : c.call = i
    BY <2>3 DEF IInv, CallsInv
  <2> QED BY <2>1, <2>2, <2>3
<1>6. FoundInv'
  BY DEF IInv, FoundInv, ToSave, Reporting
<1>7. PrinterInv'
  BY <1>3 DEF IInv, PrinterInv
<1> QED BY <1>1, <1>5, <1>6, <1>7

(* The parts of an analyzer.                                               *)
LEMMA AnalyzerType ==
  ASSUME IInv, NEW a \in running
  PROVE  /\ a \in Analyzers /\ a.call \in Intervals /\ a.races \in Seq(Races)
         /\ a.races \in Seq(Nat \X Nat) /\ File(a) \in Regions
         /\ a.interval[1] = File(a)
         /\ a.saving => ToSave(a)
         /\ ToSave(a) => /\ a.interval \in Intervals
                         /\ Pairs(a.races) = Pairs(rep_races[a.interval])
                         /\ Pairs(a.races) # {}
<1>1. a \in Analyzers /\ a.call \in Intervals /\ a.races \in Seq(Races)
  BY DEF IInv, Types, Analyzers
<1>2. a.interval = IntervalOf(a.call)
  BY DEF IInv, CallsInv
<1>3. File(a) \in Regions /\ a.interval[1] = File(a)
  BY <1>1, <1>2, IntervalType DEF File
<1>4. a.saving => ToSave(a)
  BY DEF IInv, FoundInv
<1>5. ASSUME ToSave(a)
      PROVE  /\ a.interval \in Intervals
             /\ Pairs(a.races) = Pairs(rep_races[a.interval])
             /\ Pairs(a.races) # {}
  <2>1. a.races # << >> /\ a.todo = << >>
    BY <1>5 DEF ToSave, Reporting
  <2> QED BY <1>1, <2>1, PairsEmpty, PairsNonEmpty DEF IInv, FoundInv
<1> QED BY <1>1, <1>3, <1>4, <1>5, RacesAreNumbers

LEMMA EndWithoutRacesStep ==
  ASSUME IInv, NEW a \in running, EndWithoutRaces(a)
  PROVE  IInv'
<1>1. /\ a.todo = << >> /\ a.races = << >> /\ ~ToSave(a)
      /\ running' = running \ {a} /\ done' = done \cup {a.interval}
      /\ UNCHANGED <<mode, pc, rep_races, calls, failed, reports, spoiled, unread, races,
                     printed>>
  BY DEF EndWithoutRaces, ToSave, Reporting
<1>2. Types' /\ CallsInv' /\ FoundInv' /\ PrinterInv'
  <2>1. reports' \in [Regions -> Seq(Nat \X Nat)] /\ spoiled' \subseteq Regions
    BY <1>1 DEF IInv, Types
  <2> QED BY <1>1, <2>1, EndOfAnalyzer
<1>3. a.interval \in Intervals => rep_races[a.interval] = << >>
  BY <1>1, PairsEmpty, PairsNonEmpty DEF IInv, FoundInv, Types
<1>4. ~a.saving
  BY <1>1, AnalyzerType
<1>5. \A c \in running : c.saving => c \in running'
  BY <1>1, <1>4
<1>6. FilesInv'
  BY <1>1, <1>3, <1>5 DEF IInv, FilesInv, FoundIn
<1> QED BY <1>2, <1>6 DEF IInv

LEMMA OpenReportStep ==
  ASSUME IInv, NEW a \in running, OpenReport(a)
  PROVE  IInv'
<1> DEFINE b == [a EXCEPT !.saving = TRUE]
<1>1. /\ ToSave(a) /\ ~a.saving /\ running' = (running \ {a}) \cup {b}
      /\ reports' = [reports EXCEPT ![File(a)] = << >>]
      /\ UNCHANGED <<mode, pc, rep_races, calls, done, failed, spoiled, unread, races,
                     printed>>
  BY DEF OpenReport
<1>2. a \in Analyzers /\ File(a) \in Regions
  BY AnalyzerType
<1>3. /\ b \in Analyzers /\ b.call = a.call /\ b.interval = a.interval
      /\ b.races = a.races /\ b.todo = a.todo /\ b.saving
  BY <1>2 DEF Analyzers
<1> HIDE DEF b
<1>4. reports \in [Regions -> Seq(Nat \X Nat)] /\ << >> \in Seq(Nat \X Nat)
  BY DEF IInv, Types
<1>5. Types'
  <2>1. reports' \in [Regions -> Seq(Nat \X Nat)]
    BY <1>1, <1>4
  <2> QED BY <1>1, <1>3, <2>1 DEF IInv, Types
<1>6. pc = "analyze"
  BY DEF IInv, CallsInv
<1>7. CallsInv'
  <2>1. \A c \in running : \E d \in running' : d.call = c.call
    BY <1>1, <1>3
  <2>2. \A d \in running' : d.interval = IntervalOf(d.call)
    BY <1>1, <1>3 DEF IInv, CallsInv
  <2>3. \A j : IntervalOf(j)' = IntervalOf(j)
    BY <1>1 DEF IntervalOf
  <2> QED BY <1>1, <1>6, <2>1, <2>2, <2>3 DEF IInv, CallsInv
<1>8. FoundInv'
  <2>1. ToSave(b)
    BY <1>1, <1>3 DEF ToSave, Reporting
  <2> QED BY <1>1, <1>3, <2>1 DEF IInv, FoundInv, ToSave, Reporting
<1>9. PrinterInv'
  BY <1>1, <1>6 DEF IInv, PrinterInv
<1>10. FilesInv'
  <2> SUFFICES ASSUME NEW i \in done \cap Intervals, rep_races[i] # << >>
               PROVE  \/ FoundIn(i[1]) \cap Pairs(reports'[i[1]]) # {}
                      \/ i[1] \in spoiled
                      \/ \E c \in running' : c.saving /\ File(c) = i[1]
    BY <1>1 DEF FilesInv, FoundIn
  <2>1. CASE i[1] = File(a)
    BY <1>1, <1>3, <2>1 DEF File
  <2>2. CASE i[1] # File(a)
    <3>1. reports'[i[1]] = reports[i[1]]
      BY <1>1, <1>4, <2>2, IntervalType
    <3>2. \A c \in running : c.saving => c \in running'
      BY <1>1
    <3> QED BY <3>1, <3>2 DEF IInv, FilesInv
  <2> QED BY <2>1, <2>2
<1> QED BY <1>5, <1>7, <1>8, <1>9, <1>10 DEF IInv

LEMMA WriteReportStep ==
  ASSUME IInv, NEW a \in running, WriteReport(a)
  PROVE  IInv'
<1>1. /\ a.saving /\ running' = running \ {a} /\ done' = done \cup {a.interval}
      /\ reports' = [reports EXCEPT ![File(a)] = a.races]
      /\ spoiled' = spoiled \ {File(a)}
      /\ UNCHANGED <<mode, pc, rep_races, calls, failed, unread, races, printed>>
  BY DEF WriteReport
<1>2. /\ a.races \in Seq(Nat \X Nat) /\ File(a) \in Regions /\ a.interval[1] = File(a)
      /\ a.interval \in Intervals
      /\ Pairs(a.races) = Pairs(rep_races[a.interval]) /\ Pairs(a.races) # {}
  BY <1>1, AnalyzerType
<1>3. reports \in [Regions -> Seq(Nat \X Nat)]
  BY DEF IInv, Types
<1>4. /\ reports'[File(a)] = a.races
      /\ \A r \in Regions : r # File(a) => reports'[r] = reports[r]
      /\ reports' \in [Regions -> Seq(Nat \X Nat)]
  BY <1>1, <1>2, <1>3
<1>5. Types' /\ CallsInv' /\ FoundInv' /\ PrinterInv'
  <2>1. spoiled' \subseteq Regions
    BY <1>1 DEF IInv, Types
  <2> QED BY <1>1, <1>4, <2>1, EndOfAnalyzer
<1>6. FilesInv'
  <2> SUFFICES ASSUME NEW i \in done' \cap Intervals, rep_races[i] # << >>
               PROVE  \/ FoundIn(i[1]) \cap Pairs(reports'[i[1]]) # {}
                      \/ i[1] \in spoiled'
                      \/ \E c \in running' : c.saving /\ File(c) = i[1]
    BY <1>1 DEF FilesInv, FoundIn
  <2>1. CASE i[1] = File(a)
    <3>1. Pairs(a.races) \subseteq FoundIn(i[1])
      BY <1>2, <2>1 DEF FoundIn
    <3> QED BY <1>2, <1>4, <2>1, <3>1
  <2>2. CASE i[1] # File(a)
    <3>1. i \in done \cap Intervals
      BY <1>1, <1>2, <2>2
    <3>2. i[1] \in Regions
      BY IntervalType
    <3>3. \A c \in running : File(c) = i[1] => c \in running'
      BY <1>1, <2>2
    <3> QED BY <1>1, <1>4, <2>2, <3>1, <3>2, <3>3 DEF IInv, FilesInv
  <2> QED BY <2>1, <2>2
<1> QED BY <1>5, <1>6 DEF IInv

(* A save that is not completed spoils the file of one region.             *)
LEMMA Spoiling ==
  ASSUME IInv, NEW a \in running, NEW f \in Seq(Nat \X Nat),
         reports' = [reports EXCEPT ![File(a)] = f],
         spoiled' = spoiled \cup {File(a)},
         running' = running \ {a},
         done' = done \/ done' = done \cup {a.interval},
         rep_races' = rep_races
  PROVE  FilesInv' /\ reports' \in [Regions -> Seq(Nat \X Nat)] /\ spoiled' \subseteq Regions
<1>1. File(a) \in Regions /\ a.interval[1] = File(a)
  BY AnalyzerType
<1>2. reports \in [Regions -> Seq(Nat \X Nat)] /\ spoiled \subseteq Regions
  BY DEF IInv, Types
<1>3. FilesInv'
  <2> SUFFICES ASSUME NEW i \in done' \cap Intervals, rep_races[i] # << >>,
                      i[1] # File(a)
               PROVE  \/ FoundIn(i[1]) \cap Pairs(reports'[i[1]]) # {}
                      \/ i[1] \in spoiled
                      \/ \E c \in running' : c.saving /\ File(c) = i[1]
    BY DEF FilesInv, FoundIn
  <2>1. i \in done \cap Intervals
    BY <1>1
  <2>2. reports'[i[1]] = reports[i[1]]
    BY <1>2, IntervalType
  <2>3. \A c \in running : File(c) = i[1] => c \in running'
    OBVIOUS
  <2> QED BY <2>1, <2>2, <2>3 DEF IInv, FilesInv
<1> QED BY <1>1, <1>2, <1>3

LEMMA CutWritesType ==
  ASSUME IInv, NEW a \in running, NEW f \in CutWrites(a) \cup {a.races}
  PROVE  f \in Seq(Nat \X Nat)
<1>1. a.races \in Seq(Nat \X Nat) /\ reports[File(a)] \in Seq(Nat \X Nat)
  BY AnalyzerType DEF IInv, Types
<1>2. \A n \in 0 .. 2 * Len(a.races) - 1 :
        Overwrite(reports[File(a)], a.races, n) \in Seq(Nat \X Nat)
  <2>1. 0 .. 2 * Len(a.races) - 1 \subseteq Int
    BY <1>1
  <2> QED BY <1>1, <2>1, OverwriteType
<1> QED BY <1>1, <1>2 DEF CutWrites

LEMMA SaveFailsStep ==
  ASSUME IInv, NEW a \in running, SaveFails(a)
  PROVE  IInv'
<1>1. /\ running' = running \ {a} /\ done' = done \cup {a.interval}
      /\ spoiled' = spoiled \cup {File(a)}
      /\ UNCHANGED <<mode, pc, rep_races, calls, failed, unread, races, printed>>
  BY DEF SaveFails
<1>2. File(a) \in Regions /\ reports \in [Regions -> Seq(Nat \X Nat)]
  BY AnalyzerType DEF IInv, Types
<1>3. \E f \in Seq(Nat \X Nat) : reports' = [reports EXCEPT ![File(a)] = f]
  <2>1. CASE UNCHANGED reports
    <3>1. reports' = [reports EXCEPT ![File(a)] = reports[File(a)]]
      BY <1>2, <2>1
    <3> QED BY <1>2, <3>1
  <2>2. CASE \E f \in CutWrites(a) : reports' = [reports EXCEPT ![File(a)] = f]
    BY <2>2, CutWritesType
  <2> QED BY <2>1, <2>2 DEF SaveFails
<1>4. FilesInv' /\ reports' \in [Regions -> Seq(Nat \X Nat)] /\ spoiled' \subseteq Regions
  BY <1>1, <1>3, Spoiling
<1> QED BY <1>1, <1>4, EndOfAnalyzer DEF IInv

LEMMA AnalyzerFailsStep ==
  ASSUME IInv, NEW a \in running, AnalyzerFails(a)
  PROVE  IInv'
<1>1. /\ running' = running \ {a} /\ failed' = failed \cup {a.call}
      /\ UNCHANGED <<mode, pc, rep_races, calls, done, unread, races, printed>>
  BY DEF AnalyzerFails
<1>2. FilesInv' /\ reports' \in [Regions -> Seq(Nat \X Nat)] /\ spoiled' \subseteq Regions
  <2>1. CASE ~a.saving /\ UNCHANGED <<reports, spoiled>>
    <3>1. \A c \in running : c.saving => c \in running'
      BY <1>1, <2>1
    <3>2. FilesInv'
      BY <1>1, <2>1, <3>1 DEF IInv, FilesInv, FoundIn
    <3> QED BY <2>1, <3>2 DEF IInv, Types
  <2>2. CASE a.saving /\ spoiled' = spoiled \cup {File(a)}
             /\ \E f \in CutWrites(a) \cup {a.races} :
                  reports' = [reports EXCEPT ![File(a)] = f]
    BY <1>1, <2>2, CutWritesType, Spoiling
  <2> QED BY <2>1, <2>2 DEF AnalyzerFails
<1> QED BY <1>1, <1>2, EndOfAnalyzer DEF IInv

-----------------------------------------------------------------------------
(* The printer: the analysis is over and its results stay.                 *)
LEMMA AnalysisOver ==
  ASSUME IInv, calls = {}, running = {},
         UNCHANGED <<mode, rep_races, calls, running, done, failed, reports, spoiled>>
  PROVE  CallsInv' /\ FoundInv' /\ FilesInv'
<1>1. \A j : IntervalOf(j)' = IntervalOf(j)
  BY DEF IntervalOf
<1>2. CallsInv'
  BY <1>1 DEF IInv, CallsInv
<1>3. FoundInv'
  BY DEF FoundInv
<1>4. FilesInv'
  BY DEF IInv, FilesInv, FoundIn
<1> QED BY <1>2, <1>3, <1>4

LEMMA StartPrintingStep == IInv /\ StartPrinting => IInv'
<1> SUFFICES ASSUME IInv, StartPrinting PROVE IInv'
  OBVIOUS
<1>1. /\ pc = "analyze" /\ pc' = "read" /\ calls = {} /\ running = {}
      /\ unread' = Folder \ {0}
      /\ UNCHANGED <<mode, rep_races, calls, running, done, failed, reports, spoiled, races, printed>>
  BY DEF StartPrinting
<1>2. unread' = {r \in Regions : reports[r] # << >>}
  BY <1>1, NoRegionZero DEF Folder
<1>3. Types'
  BY <1>1, <1>2 DEF IInv, Types
<1>4. PrinterInv'
  <2>1. races = << >> /\ printed = << >> /\ Pairs(races) = {}
    BY <1>1, PairsEmpty DEF IInv, PrinterInv
  <2>2. PairsOf(Regions \ unread)' = {}
    BY <1>1, <1>2, PairsEmpty DEF PairsOf
  <2> QED BY <1>1, <2>1, <2>2 DEF IInv, PrinterInv
<1> QED BY <1>1, <1>3, <1>4, AnalysisOver DEF IInv

LEMMA ReadReportStep ==
  ASSUME IInv, NEW r \in Regions, ReadReport(r)
  PROVE  IInv'
<1>1. /\ pc = "read" /\ r \in unread /\ unread' = unread \ {r}
      /\ races' = races \o reports[r]
      /\ UNCHANGED <<mode, pc, rep_races, calls, running, done, failed, reports, spoiled, printed>>
  BY DEF ReadReport
<1>2. calls = {} /\ running = {} /\ races \in Seq(Nat \X Nat) /\ reports[r] \in Seq(Nat \X Nat)
  BY <1>1 DEF IInv, CallsInv, Types
<1>3. Types'
  BY <1>1, <1>2 DEF IInv, Types
<1>4. PrinterInv'
  <2>1. Pairs(races') = Pairs(races) \cup Pairs(reports[r])
    BY <1>1, <1>2, PairsConcat
  <2>2. Pairs(races) = PairsOf(Regions \ unread)
    BY <1>1 DEF IInv, PrinterInv
  <2>3. PairsOf(Regions \ unread)' = PairsOf(Regions \ unread) \cup Pairs(reports[r])
    <3>1. Regions \ unread' = (Regions \ unread) \cup {r}
      BY <1>1
    <3> QED BY <1>1, <3>1 DEF PairsOf
  <2> QED BY <1>1, <2>1, <2>2, <2>3 DEF IInv, PrinterInv
<1> QED BY <1>1, <1>2, <1>3, <1>4, AnalysisOver DEF IInv

LEMMA EndReadingStep == IInv /\ EndReading => IInv'
<1> SUFFICES ASSUME IInv, EndReading PROVE IInv'
  OBVIOUS
<1>1. /\ pc = "read" /\ unread = {}
      /\ pc' = IF races = << >> THEN "end" ELSE "print"
      /\ UNCHANGED <<mode, rep_races, calls, running, done, failed, reports, spoiled, unread, races, printed>>
  BY DEF EndReading
<1>2. calls = {} /\ running = {}
  BY <1>1 DEF IInv, CallsInv
<1>3. Types'
  BY <1>1 DEF IInv, Types
<1>4. PrinterInv'
  <2>1. PairsOf(Regions)' = PairsOf(Regions) /\ Regions \ unread = Regions
    BY <1>1 DEF PairsOf
  <2>2. Pairs(races) = PairsOf(Regions) /\ printed = << >> /\ Pairs(printed) = {}
    BY <1>1, <2>1, PairsEmpty DEF IInv, PrinterInv
  <2> QED BY <1>1, <2>1, <2>2 DEF IInv, PrinterInv
<1> QED BY <1>1, <1>2, <1>3, <1>4, AnalysisOver DEF IInv

LEMMA PrintRaceStep == IInv /\ PrintRace => IInv'
<1> SUFFICES ASSUME IInv, PrintRace PROVE IInv'
  OBVIOUS
<1> DEFINE x == Head(races)
<1>1. /\ pc = "print" /\ races # << >> /\ races' = Tail(races)
      /\ printed' = IF \E k \in DOMAIN printed : SamePair(printed[k], x)
                    THEN printed ELSE Append(printed, x)
      /\ UNCHANGED <<mode, pc, rep_races, calls, running, done, failed, reports, spoiled, unread>>
  BY DEF PrintRace
<1>2. calls = {} /\ running = {} /\ races \in Seq(Nat \X Nat) /\ printed \in Seq(Nat \X Nat)
  BY <1>1 DEF IInv, CallsInv, Types
<1>3. /\ x \in Nat \X Nat /\ Tail(races) \in Seq(Nat \X Nat)
      /\ Pairs(races) = {Pair(x)} \cup Pairs(Tail(races))
  BY <1>1, <1>2, PairsTail
<1> HIDE DEF x
<1>4. (\E k \in DOMAIN printed : SamePair(printed[k], x)) <=> Pair(x) \in Pairs(printed)
  <2>1. \A k \in DOMAIN printed : printed[k] \in Nat \X Nat
    BY <1>2
  <2>2. x \in Nat \X Nat
    BY <1>3
  <2>3. \A k \in DOMAIN printed : SamePair(printed[k], x) <=> Pair(printed[k]) = Pair(x)
    BY <2>1, <2>2, SamePairIsPair
  <2> QED BY <2>3 DEF Pairs
<1>5. /\ printed' \in Seq(Nat \X Nat) /\ Pairs(printed') = Pairs(printed) \cup {Pair(x)}
      /\ Len(printed') = IF Pair(x) \in Pairs(printed) THEN Len(printed)
                         ELSE Len(printed) + 1
  <2>1. CASE Pair(x) \in Pairs(printed)
    BY <1>1, <1>2, <1>4, <2>1
  <2>2. CASE Pair(x) \notin Pairs(printed)
    <3>1. printed' = Append(printed, x)
      BY <1>1, <1>4, <2>2
    <3>2. printed' \in Seq(Nat \X Nat) /\ Len(printed') = Len(printed) + 1
      BY <1>2, <1>3, <3>1
    <3> DEFINE S == Nat \X Nat
    <3>3. printed \in Seq(S) /\ x \in S
      BY <1>2, <1>3
    <3> HIDE DEF S
    <3>4. Pairs(Append(printed, x)) = Pairs(printed) \cup {Pair(x)}
      BY <3>3, PairsAppend
    <3> QED BY <2>2, <3>1, <3>2, <3>4
  <2> QED BY <2>1, <2>2
<1>6. Types'
  BY <1>1, <1>3, <1>5 DEF IInv, Types
<1>7. PrinterInv'
  <2>1. PairsOf(Regions)' = PairsOf(Regions)
    BY <1>1 DEF PairsOf
  <2>2. Pairs(races) \cup Pairs(printed) = PairsOf(Regions)
    BY <1>1 DEF IInv, PrinterInv
  <2>3. Pairs(races') \cup Pairs(printed') = PairsOf(Regions)
    BY <1>1, <1>3, <1>5, <2>2
  <2>4. IsFiniteSet(Pairs(printed')) /\ Cardinality(Pairs(printed')) = Len(printed')
    <3>1. IsFiniteSet(Pairs(printed)) /\ Cardinality(Pairs(printed)) = Len(printed)
      BY DEF IInv, PrinterInv
    <3>2. /\ IsFiniteSet(Pairs(printed) \cup {Pair(x)})
          /\ Cardinality(Pairs(printed) \cup {Pair(x)}) =
               IF Pair(x) \in Pairs(printed) THEN Cardinality(Pairs(printed))
               ELSE Cardinality(Pairs(printed)) + 1
      BY <3>1, FS_AddElement
    <3> QED BY <1>5, <3>1, <3>2
  <2> QED BY <1>1, <2>1, <2>3, <2>4 DEF PrinterInv
<1> QED BY <1>1, <1>2, <1>6, <1>7, AnalysisOver DEF IInv

LEMMA EndPrintingStep == IInv /\ EndPrinting => IInv'
<1> SUFFICES ASSUME IInv, EndPrinting PROVE IInv'
  OBVIOUS
<1>1. /\ pc = "print" /\ races = << >> /\ pc' = "end"
      /\ UNCHANGED <<mode, rep_races, calls, running, done, failed, reports, spoiled, unread, races, printed>>
  BY DEF EndPrinting
<1>2. calls = {} /\ running = {}
  BY <1>1 DEF IInv, CallsInv
<1>3. Types'
  BY <1>1 DEF IInv, Types
<1>4. PrinterInv'
  BY <1>1 DEF IInv, PrinterInv, PairsOf
<1> QED BY <1>1, <1>2, <1>3, <1>4, AnalysisOver DEF IInv

LEMMA IInvStep == IInv /\ [Next]_vars => IInv'
<1> SUFFICES ASSUME IInv, [Next]_vars PROVE IInv'
  OBVIOUS
<1>1. CASE UNCHANGED vars
  <2>1. UNCHANGED <<mode, pc, rep_races, calls, running, done, failed, reports, spoiled, unread, races, printed>>
    BY <1>1 DEF vars
  <2>2. Types' /\ FoundInv'
    BY <2>1 DEF IInv, Types, FoundInv
  <2>3. CallsInv'
    BY <2>1 DEF IInv, CallsInv, IntervalOf
  <2>4. FilesInv'
    BY <2>1 DEF IInv, FilesInv, FoundIn
  <2>5. PrinterInv'
    BY <2>1 DEF IInv, PrinterInv, PairsOf
  <2> QED BY <2>2, <2>3, <2>4, <2>5 DEF IInv
<1>2. CASE Analyzer
  BY <1>2, ReportRaceStep, EndWithoutRacesStep, OpenReportStep, WriteReportStep,
     SaveFailsStep, AnalyzerFailsStep DEF Analyzer
<1>3. CASE Driver
  BY <1>3, CallStep, StartPrintingStep DEF Driver
<1>4. CASE Printer
  BY <1>4, ReadReportStep, EndReadingStep, PrintRaceStep, EndPrintingStep DEF Printer
<1> QED BY <1>1, <1>2, <1>3, <1>4 DEF Next, Ended

THEOREM Invariance == Spec => []IInv
BY InitInv, IInvStep, PTL DEF Spec

(* The type invariant.                                                     *)
THEOREM TypeCorrect == Spec => []TypeOK
<1>1. IInv => TypeOK
  BY DEF IInv, Types, TypeOK, Analyzers
<1> QED BY <1>1, Invariance, PTL

(* No call of the driver gets lost: when the printer ends every interval   *)
(* was analyzed or its analyzer failed, except those that a cluster run    *)
(* does not name.                                                          *)
THEOREM NoIntervalIsLost == Spec => []IntervalsAnalyzed
<1>1. IInv => IntervalsAnalyzed
  <2> SUFFICES ASSUME IInv, pc = "end", NEW i \in Intervals,
                      mode = "local" \/ i[2] = 0
               PROVE  i \in done \cup failed
    BY DEF IntervalsAnalyzed
  <2>1. calls = {} /\ running = {}
    BY DEF IInv, CallsInv
  <2>2. IntervalOf(i) = i
    BY IntervalType
  <2> QED BY <2>1, <2>2 DEF IInv, CallsInv
<1> QED BY <1>1, Invariance, PTL

(* The printer prints what it reads from the report files, each two        *)
(* program counters once, in whatever order the files have them and        *)
(* however they were cut.                                                  *)
THEOREM PrinterIsExact == Spec => []PrintedExactly
<1>1. IInv => PrintedExactly
  <2> SUFFICES ASSUME IInv, pc = "end"
               PROVE  /\ Pairs(printed) = UNION {Pairs(reports[r]) : r \in Regions}
                      /\ Cardinality(Pairs(printed)) = Len(printed)
    BY DEF PrintedExactly
  <2>1. races = << >> /\ Pairs(races) \cup Pairs(printed) = PairsOf(Regions)
        /\ Cardinality(Pairs(printed)) = Len(printed)
    BY DEF IInv, PrinterInv
  <2> QED BY <2>1, PairsEmpty DEF PairsOf
<1> QED BY <1>1, Invariance, PTL

(* SaveReport overwrites the file of a region, and empties it first; a     *)
(* region in which races were found ends without one of them printed only  *)
(* if its last save was not completed.                                     *)
THEOREM RacyRegionsAreShown == Spec => []RacyRegionsShow
<1>1. IInv => RacyRegionsShow
  <2> SUFFICES ASSUME IInv, pc = "end", NEW i \in done \cap Intervals,
                      rep_races[i] # << >>
               PROVE  \/ FoundIn(i[1]) \cap Pairs(printed) # {}
                      \/ i[1] \in spoiled /\ FoundIn(i[1]) \cap Pairs(reports[i[1]]) = {}
    BY DEF RacyRegionsShow, FoundIn
  <2>1. i[1] \in Regions /\ running = {}
    BY IntervalType DEF IInv, CallsInv
  <2>2. \/ FoundIn(i[1]) \cap Pairs(reports[i[1]]) # {}
        \/ i[1] \in spoiled
    BY <2>1 DEF IInv, FilesInv
  <2>3. Pairs(printed) = PairsOf(Regions)
    BY PairsEmpty DEF IInv, PrinterInv
  <2>4. Pairs(reports[i[1]]) \subseteq Pairs(printed)
    BY <2>1, <2>3 DEF PairsOf
  <2> QED BY <2>2, <2>4
<1> QED BY <1>1, Invariance, PTL
=============================================================================
