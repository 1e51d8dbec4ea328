--------------------------- MODULE ReportPipeline ----------------------------
(***************************************************************************)
(* From the barrier intervals of a trace to the printed races: the driver  *)
(* (src/tools/sword-offline-analysis.py.in) calls the analyzer for every   *)
(* interval, the analyzer (src/tools/sword-race-analysis.cc) keeps one     *)
(* race for every two program counters and saves them in a file of the     *)
(* region, and the printer (src/tools/sword-print-report.cc) prints what   *)
(* the files of the report folder hold.                                    *)
(*                                                                         *)
(* A race is the pair of its program counters, in the order in which the   *)
(* comparison of the trees found them.  On a cluster the calls are         *)
(* submitted and run side by side; otherwise the driver waits for each.    *)
(*                                                                         *)
(* A report file is a count and that many races.  Opening it empties it,   *)
(* the races are written afterwards, and nobody looks whether they were.   *)
(* A write that is cut short (a full disk, a kill) is cut between two      *)
(* fields of a race.  The printer makes room for as many races as the      *)
(* count says, all zero, and reads over them what there is: a file is      *)
(* modelled as what is read from it, the empty sequence if it is empty or  *)
(* missing, and 0 for a program counter that is not on disk.               *)
(***************************************************************************)
EXTENDS Integers, Sequences, FiniteSets

CONSTANTS
  Intervals,    \* <<region, barrier id>> of the records in the meta files
  Races,        \* pairs of program counters, which are not 0
  Modes,        \* ways to run the driver: {"local"}, {"cluster"} or both
  MaxRaces      \* bound: races found in each interval

ASSUME ConstantsAssumption ==
  /\ Intervals \subseteq (Nat \ {0}) \X Nat
  /\ Races \subseteq (Nat \ {0}) \X (Nat \ {0})
  /\ Modes \subseteq {"local", "cluster"} /\ MaxRaces \in [Intervals -> Nat]

Regions == {i[1] : i \in Intervals}

VARIABLES
  mode,      \* --cluster-run or not
  pc,        \* the stage: analysis, reading the folder, printing, end
  rep_races, \* what comparing the trees of an interval finds
  calls,     \* calls the driver has still to make
  running,   \* analyzers that have not ended
  done,      \* intervals whose analysis ended without an error
  failed,    \* calls of the analyzer that ended with one
  reports,   \* the race_report files
  spoiled,   \* history: regions whose last save was not completed
  unread,    \* files the printer has still to read
  races,     \* the printer's list
  printed    \* races printed

vars == <<mode, pc, rep_races, calls, running, done, failed, reports, spoiled, unread, races, printed>>

SeqOfAtMost(S, n) == UNION {[1 .. k -> S] : k \in 0 .. n}

Init ==
  /\ mode \in Modes /\ pc = "analyze"
  /\ rep_races \in [Intervals -> UNION {SeqOfAtMost(Races, MaxRaces[i]) : i \in Intervals}]
  /\ \A i \in Intervals : Len(rep_races[i]) <= MaxRaces[i]
  /\ calls = Intervals
  /\ running = {} /\ done = {} /\ failed = {}
  /\ reports = [r \in Regions |-> << >>] /\ spoiled = {}
  /\ unread = {} /\ races = << >> /\ printed = << >>

-----------------------------------------------------------------------------
(* Mutant: the option --bid is always missing.                             *)
CallWithoutBid(i) ==
  LET interval == <<i[1], 0>>
  IN /\ pc = "analyze" /\ i \in calls
     /\ mode = "local" => running = {}
     /\ calls' = calls \ {i}
     /\ running' = running \cup
          {[call |-> i, interval |-> interval, races |-> << >>, saving |-> FALSE,
            todo |-> IF interval \in Intervals THEN rep_races[interval] ELSE << >>]}
     /\ UNCHANGED <<mode, pc, rep_races, done, failed, reports, spoiled, unread, races, printed>>

(* The driver's loop: a call of the analyzer for region i[1], with the     *)
(* option --bid except on a cluster, where barrier_id keeps the value 0 of *)
(* a global variable.  A region that has no such interval has no races.    *)
Call(i) ==
  LET bid == IF mode = "cluster" THEN 0 ELSE i[2]
      interval == <<i[1], bid>>
  IN /\ pc = "analyze" /\ i \in calls
     /\ mode = "local" => running = {}
     /\ calls' = calls \ {i}
     /\ running' = running \cup
          {[call |-> i, interval |-> interval, races |-> << >>, saving |-> FALSE,
            todo |-> IF interval \in Intervals THEN rep_races[interval] ELSE << >>]}
     /\ UNCHANGED <<mode, pc, rep_races, done, failed, reports, spoiled, unread, races, printed>>

(* Is a race with these program counters, in either order, on the list?    *)
Reported(list, race) ==
  \E k \in DOMAIN list : {list[k][1], list[k][2]} = {race[1], race[2]}

(* ReportRace for the next race that was found.                            *)
ReportRace(a) ==
  /\ a.todo # << >>
  /\ running' = (running \ {a}) \cup
       {[a EXCEPT !.todo = Tail(@),
                  !.races = IF Reported(@, Head(a.todo)) THEN @
                            ELSE Append(@, Head(a.todo))]}
  /\ UNCHANGED <<mode, pc, rep_races, calls, done, failed, reports, spoiled, unread, races, printed>>

(* The comparisons are over and their races, if any, are to be saved.      *)
Reporting(a) == a.todo # << >>
ToSave(a) == ~Reporting(a) /\ a.races # << >>

(* The file of the region an analyzer was called for.                      *)
File(a) == a.call[1]

(* Mutant: an interval without races empties the file too.                 *)
EndWithoutRacesSaving(a) ==
  /\ ~Reporting(a) /\ ~ToSave(a)
  /\ reports' = [reports EXCEPT ![File(a)] = << >>]
  /\ running' = running \ {a}
  /\ done' = done \cup {a.interval}
  /\ UNCHANGED <<mode, pc, rep_races, calls, failed, spoiled, unread, races, printed>>

(* The end of an analyzer that found no races: it saves nothing.           *)
EndWithoutRaces(a) ==
  /\ ~Reporting(a) /\ ~ToSave(a)
  /\ running' = running \ {a}
  /\ done' = done \cup {a.interval}
  /\ UNCHANGED <<mode, pc, rep_races, calls, failed, reports, spoiled, unread, races,
                 printed>>

(* SaveReport: opening the file empties it.                                *)
OpenReport(a) ==
  /\ ToSave(a) /\ ~a.saving
  /\ reports' = [reports EXCEPT ![File(a)] = << >>]
  /\ running' = (running \ {a}) \cup {[a EXCEPT !.saving = TRUE]}
  /\ UNCHANGED <<mode, pc, rep_races, calls, done, failed, spoiled, unread, races,
                 printed>>

(* What is read from a file after the count and the first n program        *)
(* counters of list were written over it.  (On a cluster another analyzer  *)
(* of the region may have written there since the file was opened.)        *)
Overwrite(file, list, n) ==
  LET old(k) == IF k \in DOMAIN file THEN file[k] ELSE <<0, 0>>
  IN [k \in 1 .. Len(list) |->
        <<IF 2 * k - 1 <= n THEN list[k][1] ELSE old(k)[1],
          IF 2 * k <= n THEN list[k][2] ELSE old(k)[2]>>]

(* What a write that is cut short leaves: nothing new, or the count and    *)
(* some of the races.                                                      *)
CutWrites(a) ==
  {reports[File(a)]} \cup
    {Overwrite(reports[File(a)], a.races, n) : n \in 0 .. 2 * Len(a.races) - 1}

(* The races are on file.                                                  *)
WriteReport(a) ==
  /\ a.saving
  /\ reports' = [reports EXCEPT ![File(a)] = a.races]
  /\ running' = running \ {a}
  /\ done' = done \cup {a.interval}
  /\ spoiled' = spoiled \ {File(a)}
  /\ UNCHANGED <<mode, pc, rep_races, calls, failed, unread, races, printed>>

(* The file cannot be opened or the write is cut short.  The analyzer does *)
(* not notice and ends as always.                                          *)
SaveFails(a) ==
  /\ ToSave(a)
  /\ \/ ~a.saving /\ UNCHANGED reports
     \/ a.saving /\ \E f \in CutWrites(a) : reports' = [reports EXCEPT ![File(a)] = f]
  /\ running' = running \ {a}
  /\ done' = done \cup {a.interval}
  /\ spoiled' = spoiled \cup {File(a)}
  /\ UNCHANGED <<mode, pc, rep_races, calls, failed, unread, races, printed>>

(* The analyzer is killed or ends with an error, also while it saves; the  *)
(* driver says so and goes on.                                             *)
AnalyzerFails(a) ==
  /\ \/ ~a.saving /\ UNCHANGED <<reports, spoiled>>
     \/ /\ a.saving /\ spoiled' = spoiled \cup {File(a)}
        /\ \E f \in CutWrites(a) \cup {a.races} :
             reports' = [reports EXCEPT ![File(a)] = f]
  /\ running' = running \ {a}
  /\ failed' = failed \cup {a.call}
  /\ UNCHANGED <<mode, pc, rep_races, calls, done, unread, races, printed>>

(* The entries of the report folder that matter: the files that are not    *)
(* empty, and the directory "overhead", here 0, that the driver makes.     *)
Folder == {r \in Regions : reports[r] # << >>} \cup {0}

(* The printer is started when all analyzers have ended.                   *)
StartPrinting ==
  /\ pc = "analyze" /\ calls = {} /\ running = {}
  /\ unread' = Folder \ {0}
  /\ pc' = "read"
  /\ UNCHANGED <<mode, rep_races, calls, running, done, failed, reports, spoiled,
                 races, printed>>

(* The next file of the folder, in the order of the directory.             *)
ReadReport(r) ==
  /\ pc = "read" /\ r \in unread
  /\ unread' = unread \ {r}
  /\ races' = races \o reports[r]
  /\ UNCHANGED <<mode, pc, rep_races, calls, running, done, failed, reports, spoiled, printed>>

(* All files are read: print, or say that there are no races.              *)
EndReading ==
  /\ pc = "read" /\ unread = {}
  /\ pc' = IF races = << >> THEN "end" ELSE "print"
  /\ UNCHANGED <<mode, rep_races, calls, running, done, failed, reports, spoiled, unread, races,
                 printed>>

(* Mutant: the program counters are not sorted.                            *)
SamePairOrdered(x, y) == x = y

(* The hash of two races is made of their program counters, sorted.        *)
SamePair(x, y) ==
  IF x[1] < x[2]
  THEN \/ y[1] < y[2] /\ x = y
       \/ ~(y[1] < y[2]) /\ x = <<y[2], y[1]>>
  ELSE \/ y[1] < y[2] /\ <<x[2], x[1]>> = y
       \/ ~(y[1] < y[2]) /\ x = y

(* Mutant: the loop does not get past a race that was printed before.      *)
PrintRaceStuck ==
  LET reported == \E k \in DOMAIN printed : SamePair(printed[k], Head(races))
  IN /\ pc = "print" /\ races # << >>
     /\ races' = IF reported THEN races ELSE Tail(races)
     /\ printed' = IF reported THEN printed ELSE Append(printed, Head(races))
     /\ UNCHANGED <<mode, pc, rep_races, calls, running, done, failed, reports, spoiled, unread>>

(* The next race of the list is printed unless one with the same hash was. *)
PrintRace ==
  /\ pc = "print" /\ races # << >>
  /\ races' = Tail(races)
  /\ printed' = IF \E k \in DOMAIN printed : SamePair(printed[k], Head(races))
                THEN printed ELSE Append(printed, Head(races))
  /\ UNCHANGED <<mode, pc, rep_races, calls, running, done, failed, reports, spoiled, unread>>

EndPrinting ==
  /\ pc = "print" /\ races = << >>
  /\ pc' = "end"
  /\ UNCHANGED <<mode, rep_races, calls, running, done, failed, reports, spoiled, unread, races,
                 printed>>

Ended == pc = "end" /\ UNCHANGED vars

-----------------------------------------------------------------------------
Analyzer == \E a \in running :
  \/ ReportRace(a) \/ EndWithoutRaces(a) \/ AnalyzerFails(a)
  \/ OpenReport(a) \/ WriteReport(a) \/ SaveFails(a)
Driver == (\E i \in Intervals : Call(i)) \/ StartPrinting
Printer ==
  (\E r \in Regions : ReadReport(r)) \/ EndReading \/ PrintRace \/ EndPrinting

Next == Analyzer \/ Driver \/ Printer \/ Ended

Spec == Init /\ [][Next]_vars

(* The tools run on until they end, and so does the batch system.          *)
FairSpec == Spec /\ WF_vars(Analyzer) /\ WF_vars(Driver) /\ WF_vars(Printer)

-----------------------------------------------------------------------------
(* Properties.                                                             *)

Pair(x) == {x[1], x[2]}
Pairs(s) == {Pair(s[k]) : k \in DOMAIN s}

TypeOK ==
  /\ mode \in Modes /\ pc \in {"analyze", "read", "print", "end"}
  /\ calls \subseteq Intervals /\ unread \subseteq Regions
  /\ \A a \in running : a.call \in Intervals /\ a.races \in Seq(Races)
  /\ reports \in [Regions -> Seq(Nat \X Nat)] /\ spoiled \subseteq Regions
  /\ races \in Seq(Nat \X Nat) /\ printed \in Seq(Nat \X Nat)

(* A region in which an analysis has found races is not printed as free of *)
(* races, in spite of the files that are overwritten: one of its races is  *)
(* printed.  The exception is a region whose last save was not completed   *)
(* and has left a file without any of its races; a later save that is      *)
(* completed makes up for it.                                              *)
RacyRegionsShow ==
  pc = "end" => \A i \in done \cap Intervals :
    rep_races[i] # << >> =>
      LET found == UNION {Pairs(rep_races[j]) : j \in {k \in Intervals : k[1] = i[1]}}
      IN \/ found \cap Pairs(printed) # {}
         \/ i[1] \in spoiled /\ found \cap Pairs(reports[i[1]]) = {}

(* What the printer reads from the report files is printed, each two       *)
(* program counters once, whatever files they come from, in whatever order *)
(* and however they were cut.                                              *)
PrintedExactly ==
  pc = "end" =>
    /\ Pairs(printed) = UNION {Pairs(reports[r]) : r \in Regions}
    /\ Cardinality(Pairs(printed)) = Len(printed)

(* Every interval is analyzed unless its analyzer fails, whatever became   *)
(* of the others.  On a cluster, where the barrier id is not passed on,    *)
(* this holds of the first interval of a region only.                      *)
IntervalsAnalyzed ==
  pc = "end" => \A i \in Intervals :
    mode = "local" \/ i[2] = 0 => i \in done \cup failed

(* Analysis and printing come to an end, also when an analyzer fails.      *)
Ends == <>(pc = "end")
=============================================================================
