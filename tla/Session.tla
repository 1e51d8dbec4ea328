------------------------------ MODULE Session -------------------------------
(***************************************************************************)
(* The folders that the parts of SWORD hand their data through, over       *)
(* several runs: the runtime (ompt_initialize and thread_begin) moves the  *)
(* traces of the run before out of the way and writes its own, the driver  *)
(* calls the analyzer for every region of a trace folder, the analyzer     *)
(* leaves a report file for a region with races, and the printer prints    *)
(* the report folder.  Every program can be killed between two of its      *)
(* calls to the file system, and the user starts them in any order.        *)
(*                                                                         *)
(* The traces of a run are its number, a report file is the number of the  *)
(* run whose races it holds, all or some of them, or it is empty.  What    *)
(* happens inside the programs is in the modules of the runtime and of the *)
(* analyzer.                                                               *)
(***************************************************************************)
EXTENDS Integers, Sequences, FiniteSets, SequencesExt

CONSTANTS
  Default,      \* ./sword_data
  Paths,        \* the trace folders a user names, Default among them
  Slashed,      \* the ones written with a separator at the end
  NoParent,     \* the ones that cannot be created
  Regions,      \* parallel regions; their numbers start anew with every run
  MaxRuns,      \* bound: runs of the traced program
  MaxWork,      \* bound: calls of the driver and of the printer
  PRINT,        \* the analyzer is built with PRINT
  Lines         \* command lines of the printer

ASSUME SessionAssumption ==
  /\ Default \in Paths /\ Slashed \subseteq Paths /\ NoParent \subseteq Paths
  /\ Default \notin Slashed \cup NoParent
  /\ \A word \in {"unset", "illegal", "cut", "empty path"} : word \notin Paths
  /\ MaxRuns \in Nat /\ MaxWork \in Nat

Runs == 1 .. MaxRuns
Absent == {0}       \* in place of the traces of a folder that does not exist
NoFolder == << >>   \* in place of the report folder
Empty == "empty path"
Cut == -1           \* in place of the run: the report file is empty

VARIABLES
  fs,        \* p -> the traces in folder p and in its .old: sets of runs, or Absent
  at,        \* where the traced program is: ompt_initialize, running, or not
  path,      \* sword_flags->traces_path
  runs,      \* runs started so far
  wild,      \* runs whose options left the path uninitialised
  made,      \* p -> the last run that created folder p, 0 if none did
  wrote,     \* runs that opened their files
  racy,      \* run -> its regions with races
  job,       \* what the driver does: [at, path, tree, todo]
  saving,    \* the region and run whose report file is open, or << >>
  work,      \* calls of the driver and the printer so far
  reports,   \* the report folder: region -> run, Cut, 0 without a file; or NoFolder
  analyzed,  \* history: region -> the run of its last analysis, 0 if none
  unsaved,   \* history: regions whose last save was not completed
  printed    \* what the printer printed last: region -> run, or NoFolder

vars == <<fs, at, path, runs, wild, made, wrote, racy, job, saving, work, reports,
          analyzed, unsaved, printed>>
traceVars == <<fs, at, path, runs, wild, made, wrote, racy>>
toolVars == <<job, saving, work, reports, analyzed, unsaved, printed>>

Idle == [at |-> "idle", path |-> Default, tree |-> FALSE, todo |-> {}]

Init ==
  /\ fs = [p \in Paths |-> [new |-> Absent, old |-> Absent]]
  /\ at = "idle" /\ path = Default /\ runs = 0 /\ wild = {} /\ wrote = {}
  /\ made = [p \in Paths |-> 0]
  /\ racy \in [Runs -> SUBSET Regions]
  /\ job = Idle /\ saving = << >> /\ work = 0
  /\ reports = NoFolder
  /\ analyzed = [r \in Regions |-> 0] /\ unsaved = {}
  /\ printed = NoFolder

-----------------------------------------------------------------------------
(* The constructor of SwordFlags.  sscanf returns 0 for options that start *)
(* otherwise and EOF for options that end too early: then the path is what *)
(* an uninitialised buffer holds.                                          *)
SwordFlags(env) ==
  CASE env \in {"unset", "illegal"} -> {Default}
    [] env \in Paths -> {env}
    [] env = "cut" -> Paths \cup {Empty}

(* The traced program starts.                                              *)
Launch(env) ==
  /\ at = "idle" /\ runs < MaxRuns
  /\ runs' = runs + 1
  /\ wild' = IF env = "cut" THEN wild \cup {runs + 1} ELSE wild
  /\ path' \in SwordFlags(env)
  /\ at' = "rename"
  /\ UNCHANGED <<fs, made, wrote, racy, toolVars>>

IsDirectory(p) == p # Empty /\ fs[p].new # Absent

(* rename(2) replaces an empty directory and no other, and does not move a *)
(* directory into itself.                                                  *)
CanRename(p) == p \notin Slashed /\ fs[p].old \in {Absent, {}}
Move == fs' = [fs EXCEPT ![path] = [new |-> Absent, old |-> fs[path].new]]

(* Mutant: a folder is moved only if there is none to move it over.        *)
RenameFirstOnly ==
  /\ at = "rename"
  /\ IF IsDirectory(path) /\ CanRename(path) THEN Move ELSE UNCHANGED fs
  /\ at' = "mkdir"
  /\ UNCHANGED <<path, runs, wild, made, wrote, racy, toolVars>>

(* The folder of the run before is moved to .old.                          *)
Rename ==
  /\ at = "rename"
  /\ IF IsDirectory(path)
     THEN IF CanRename(path) THEN Move /\ at' = "mkdir"
                             ELSE at' = "remove" /\ UNCHANGED fs
     ELSE at' = "mkdir" /\ UNCHANGED fs
  /\ UNCHANGED <<path, runs, wild, made, wrote, racy, toolVars>>

(* Mutant: the folder itself is removed.                                   *)
RemoveNew ==
  /\ at = "remove"
  /\ fs' = [fs EXCEPT ![path].new = Absent]
  /\ at' = "mkdir"
  /\ UNCHANGED <<path, runs, wild, made, wrote, racy, toolVars>>

(* The rename failed: the .old of a run before that is removed.            *)
RemoveOld ==
  /\ at = "remove"
  /\ fs' = [fs EXCEPT ![path].old = Absent]
  /\ at' = "again"
  /\ UNCHANGED <<path, runs, wild, made, wrote, racy, toolVars>>

(* The second rename; when it throws too, the program is terminated.       *)
RenameAgain ==
  /\ at = "again"
  /\ IF CanRename(path) THEN Move /\ at' = "mkdir" /\ UNCHANGED path
                        ELSE at' = "idle" /\ path' = Default /\ UNCHANGED fs
  /\ UNCHANGED <<runs, wild, made, wrote, racy, toolVars>>

(* create_directory: an existing folder stays as it is, an exception       *)
(* terminates the program.                                                 *)
CreateDirectory ==
  LET p == IF path = Empty THEN Default ELSE path
  IN  /\ at = "mkdir"
      /\ IF p \in NoParent
         THEN at' = "idle" /\ path' = Default /\ UNCHANGED <<fs, made>>
         ELSE /\ at' = "run" /\ path' = p
              /\ fs' = IF IsDirectory(p) THEN fs ELSE [fs EXCEPT ![p].new = {}]
              /\ made' = [made EXCEPT ![p] = runs]
      /\ UNCHANGED <<runs, wild, wrote, racy, toolVars>>

(* thread_begin: the files of the threads are opened to append to them.    *)
ThreadBegin ==
  /\ at = "run"
  /\ fs' = [fs EXCEPT ![path].new = @ \cup {runs}]
  /\ wrote' = wrote \cup {runs}
  /\ UNCHANGED <<at, path, runs, wild, made, racy, toolVars>>

(* ompt_finalize, or the program is killed wherever it is.                 *)
End ==
  /\ at # "idle"
  /\ at' = "idle" /\ path' = Default
  /\ UNCHANGED <<fs, runs, wild, made, wrote, racy, toolVars>>

-----------------------------------------------------------------------------
(* The loop over the arguments of the analyzer and of the printer, one     *)
(* argument per step.  wait is the option that takes the next argument;    *)
(* the one behind an unknown option is passed over.  The values of an      *)
(* option that is given twice are concatenated.                            *)
NextArgument(options, flags, s, arg) ==
  CASE s.ret # "go" -> s
    [] s.ret = "go" /\ s.wait = "skip" -> [s EXCEPT !.wait = "none"]
    [] s.ret = "go" /\ s.wait \in options ->
         [s EXCEPT !.wait = "none", !.value[s.wait] = Append(@, arg)]
    [] s.ret = "go" /\ s.wait = "none" /\ arg = "--help" -> [s EXCEPT !.ret = "help"]
    [] s.ret = "go" /\ s.wait = "none" /\ arg \in options -> [s EXCEPT !.wait = arg]
    [] s.ret = "go" /\ s.wait = "none" /\ arg \in flags -> s
    [] OTHER -> [s EXCEPT !.wait = "skip", !.unknown = TRUE]

Parse(argv, options, flags) ==
  LET start == [ret |-> "go", wait |-> "none", unknown |-> FALSE,
                value |-> [o \in options |-> << >>]]
      end == FoldLeft(LAMBDA s, arg : NextArgument(options, flags, s, arg), start, argv)
  IN  IF end.ret = "go" /\ (end.wait \in options \/ end.unknown)
      THEN [end EXCEPT !.ret = "error"] ELSE end

AnalyzerOptions ==
  {"--report-path", "--traces-path", "--executable", "--pregion", "--bid", "--nested"}

ParseAnalyzer(argv) == Parse(argv, AnalyzerOptions, IF PRINT THEN {"--print"} ELSE {})
ParsePrinter(argv) == Parse(argv, {"--report-path", "--executable"}, {})

(* The command the driver puts together for a region.                      *)
Command(r) ==
  <<"--executable", "app", "--traces-path", job.path, "--report-path", "report",
    "--pregion", r, "--bid", 0>> \o IF job.tree THEN <<"--print">> ELSE << >>

-----------------------------------------------------------------------------
(* The regions that the meta files of a folder name.                       *)
MetaRegions(p) == IF fs[p].new \in {Absent, {}} THEN {} ELSE Regions

(* A folder that exists is left as it is.                                  *)
mkdir_p == IF reports = NoFolder THEN [r \in Regions |-> 0] ELSE reports

(* The driver: a folder of traces that does not exist, or an executable    *)
(* that does not, ends it; then the report folder is made if need be.      *)
StartDriver(p, tree, executable) ==
  /\ job.at = "idle" /\ work < MaxWork
  /\ work' = work + 1
  /\ IF fs[p].new = Absent \/ ~executable THEN UNCHANGED <<job, reports>>
     ELSE /\ job' = [at |-> "analyze", path |-> p, tree |-> tree, todo |-> MetaRegions(p)]
          /\ reports' = mkdir_p
  /\ UNCHANGED <<traceVars, saving, analyzed, unsaved, printed>>

(* Mutant: the report of a region is saved only if there is none.          *)
ToSaveOnce(region, run) == region \in racy[run] /\ reports[region] = 0

(* The analyzer saves the races it has found.                              *)
ToSave(region, run) == region \in racy[run]

(* SaveReport: the file of the region is opened, which empties it, or      *)
(* cannot be opened, which nobody notices.                                 *)
OpenReport(region, run) ==
  /\ unsaved' = unsaved \cup {region}
  /\ \/ reports' = [reports EXCEPT ![region] = Cut] /\ saving' = <<region, run>>
     \/ UNCHANGED <<reports, saving>>

(* The analyzer for region r: with an error in its arguments it returns,   *)
(* without a folder it is terminated, with an empty one it says so and     *)
(* exits.  If it finds races it saves them.  Of a folder with the traces   *)
(* of several runs it reads the records of one or the other.               *)
Analyze(r) ==
  LET args == ParseAnalyzer(Command(r))
      region == args.value["--pregion"][1]
  IN  /\ job.at = "analyze" /\ saving = << >> /\ r \in job.todo
      /\ args.ret = "go" /\ fs[job.path].new \notin {Absent, {}}
      /\ job' = [job EXCEPT !.todo = @ \ {r}]
      /\ \E run \in fs[job.path].new :
           /\ analyzed' = [analyzed EXCEPT ![region] = run]
           /\ IF ToSave(region, run) THEN OpenReport(region, run)
              ELSE UNCHANGED <<reports, saving, unsaved>>
      /\ UNCHANGED <<traceVars, work, printed>>

(* SaveReport goes on: the races are written.                              *)
WriteReport ==
  /\ saving # << >>
  /\ reports' = [reports EXCEPT ![saving[1]] = saving[2]]
  /\ unsaved' = unsaved \ {saving[1]}
  /\ saving' = << >>
  /\ UNCHANGED <<traceVars, job, work, analyzed, printed>>

(* The write is cut short, after some of the races or before the first, or *)
(* the analyzer is killed before or while it writes.                       *)
WriteFails ==
  /\ saving # << >>
  /\ \E file \in {Cut, saving[2]} :
       reports' = [reports EXCEPT ![saving[1]] = file]
  /\ saving' = << >>
  /\ UNCHANGED <<traceVars, job, work, analyzed, unsaved, printed>>

(* An analyzer that ends without a result.                                 *)
AnalyzeFails(r) ==
  /\ job.at = "analyze" /\ saving = << >> /\ r \in job.todo
  /\ job' = [job EXCEPT !.todo = @ \ {r}]
  /\ UNCHANGED <<traceVars, saving, work, reports, analyzed, unsaved, printed>>

(* The end of the driver, or its interruption, which kills the analyzer    *)
(* too, also between the opening of a report file and the write.           *)
EndDriver ==
  /\ job.at = "analyze"
  /\ job' = Idle /\ saving' = << >>
  /\ UNCHANGED <<traceVars, work, reports, analyzed, unsaved, printed>>

(* What the printer prints of the report folder: an empty file is passed   *)
(* over.                                                                   *)
Shown == [r \in Regions |-> IF reports[r] = Cut THEN 0 ELSE reports[r]]

(* The printer: usage errors, a missing folder and tools that which does   *)
(* not find (erase throws) end it; otherwise it prints what the files of   *)
(* the folder hold.                                                        *)
PrintReport(argv, installed) ==
  LET args == ParsePrinter(argv)
      folder == args.value["--report-path"] = <<"report">> /\ reports # NoFolder
      exists == args.value["--executable"] = <<"app">>
  IN  /\ job.at = "idle" /\ work < MaxWork
      /\ work' = work + 1
      /\ printed' = IF args.ret = "go" /\ folder /\ exists /\ installed
                    THEN Shown ELSE NoFolder
      /\ UNCHANGED <<traceVars, job, saving, reports, analyzed, unsaved>>

-----------------------------------------------------------------------------
Program ==
  \/ \E env \in {"unset", "illegal", "cut"} \cup Paths : Launch(env)
  \/ Rename \/ RemoveOld \/ RenameAgain \/ CreateDirectory \/ ThreadBegin \/ End

Tools ==
  \/ \E p \in Paths, tree \in BOOLEAN, executable \in BOOLEAN :
       StartDriver(p, tree, executable)
  \/ \E r \in Regions : Analyze(r) \/ AnalyzeFails(r)
  \/ WriteReport \/ WriteFails \/ EndDriver
  \/ \E argv \in Lines, installed \in BOOLEAN : PrintReport(argv, installed)

Next == Program \/ Tools

Spec == Init /\ [][Next]_vars

-----------------------------------------------------------------------------
(* Properties.                                                             *)

(* The traces of two runs, whose thread and region numbers coincide, never *)
(* lie in one folder, where the appended files would be analyzed as one    *)
(* run; only the uninitialised path of SwordFlags can put a run there.     *)
TracesOfOneRun ==
  \A p \in Paths : \A f \in {fs[p].new, fs[p].old} \ {Absent} :
    \A r, s \in f : r < s => s \in wild

(* Wherever ompt_initialize is killed, and whatever else went on, the      *)
(* traces of the last run that made a folder are in it or in its .old.     *)
LastTraceKept ==
  \A p \in Paths : made[p] \in wrote =>
    \E f \in {fs[p].new, fs[p].old} \ {Absent} : made[p] \in f

(* What is printed for a region is what the last analysis of the region    *)
(* found, unless the save of that was not completed: then it is nothing,   *)
(* or some races.  Where the last analysis found nothing, races of an      *)
(* earlier one remain in the folder: they are printed, but they hide       *)
(* nothing.  No race is printed that the run it is of does not have.       *)
PrintsCurrent ==
  [][printed' # printed /\ printed' # NoFolder =>
       \A r \in Regions : analyzed[r] # 0 =>
         /\ printed'[r] = 0 \/ r \in racy[printed'[r]]
         /\ r \in racy[analyzed[r]] /\ r \notin unsaved => printed'[r] = analyzed[r]]_vars
=============================================================================
