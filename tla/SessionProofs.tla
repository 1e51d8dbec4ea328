---------------------------- MODULE SessionProofs ----------------------------
(***************************************************************************)
(* However often the traced program, the driver and the printer are run,   *)
(* and wherever they are killed, traces of two runs do not mix, the last   *)
(* ones are kept and the printer shows the last analysis: for any set of   *)
(* folders and regions and any number of runs.                             *)
(***************************************************************************)
EXTENDS Session, TLAPS

(* The traces of a folder: those of runs that were started.                *)
Folders == {Absent} \cup SUBSET (1 .. runs)

(* Every variable the traced program uses has its type.                    *)
TraceTypes ==
  /\ fs \in [Paths -> [new : Folders, old : Folders]]
  /\ at \in {"idle", "rename", "remove", "again", "mkdir", "run"}
  /\ path \in Paths \cup {Empty}
  /\ runs \in 0 .. MaxRuns /\ (at # "idle" => runs >= 1)
  /\ wild \subseteq 1 .. runs /\ wrote \subseteq 1 .. runs
  /\ made \in [Paths -> 0 .. runs]

(* What ompt_initialize has achieved where it is.                          *)
InitializeInv ==
  /\ path = Empty => at \in {"rename", "mkdir"} /\ runs \in wild
  /\ at \in {"remove", "again"} => fs[path].new # Absent
  /\ at = "mkdir" /\ path # Empty => fs[path].new = Absent
  /\ at = "run" => /\ fs[path].new # Absent
                   /\ runs \in wild \/ fs[path].new \subseteq {runs}
                   /\ made[path] = runs

(* A run writes after it made its folder, and makes one folder.            *)
MadeInv ==
  /\ at \in {"rename", "remove", "again", "mkdir"} => runs \notin wrote
  /\ at # "idle" => \A p \in Paths : made[p] = runs => at = "run" /\ p = path

(* The last traces of a folder are in the folder itself, unless it was     *)
(* moved.                                                                  *)
KeptInv ==
  \A p \in Paths : made[p] \in wrote =>
    IF fs[p].new # Absent THEN made[p] \in fs[p].new
    ELSE fs[p].old # Absent /\ made[p] \in fs[p].old

IInv == TraceTypes /\ InitializeInv /\ MadeInv /\ TracesOfOneRun /\ KeptInv

(* What the tools keep.                                                    *)
Jobs == [at : {"idle", "analyze"}, path : Paths, tree : BOOLEAN, todo : SUBSET Regions]

Reports == [Regions -> (0 .. MaxRuns) \cup {Cut}]

(* The file of a region holds what its last analysis found, if that found  *)
(* races and saved them, and in any case races that the region has.        *)
Current(r) ==
  analyzed[r] # 0 /\ r \in racy[analyzed[r]] /\ r \notin unsaved => reports[r] = analyzed[r]

Sound(r) == reports[r] \in {0, Cut} \/ r \in racy[reports[r]]

(* The report that is being saved is the one of the last analysis.         *)
SavingInv ==
  saving # << >> =>
    \E region, run : /\ saving = <<region, run>>
                     /\ run \in 1 .. MaxRuns /\ region \in racy[run]
                     /\ region \in Regions => analyzed[region] = run
                     /\ region \in unsaved /\ job.at = "analyze"

ToolInv ==
  /\ job \in Jobs
  /\ analyzed \in [Regions -> 0 .. MaxRuns]
  /\ reports \in Reports \cup {NoFolder}
  /\ job.at = "analyze" => reports \in Reports
  /\ \A r \in Regions : Current(r)
  /\ reports \in Reports => \A r \in Regions : Sound(r)
  /\ reports \notin Reports => \A r \in Regions : analyzed[r] = 0
  /\ SavingInv

-----------------------------------------------------------------------------
(* The traces of one folder are of one run, up to the wild ones.           *)
OneRun(f) == f = Absent \/ \A r, s \in f : r < s => s \in wild

LEMMA OneRunFolders ==
  TracesOfOneRun <=> \A p \in Paths : OneRun(fs[p].new) /\ OneRun(fs[p].old)
  BY DEF TracesOfOneRun, OneRun

LEMMA MaxRunsType == MaxRuns \in Nat
  BY SessionAssumption

LEMMA OneRunNext ==
  ASSUME wild' = wild, \A p \in Paths : OneRun(fs'[p].new) /\ OneRun(fs'[p].old)
  PROVE  TracesOfOneRun'
  BY DEF TracesOfOneRun, OneRun

LEMMA FolderTypes ==
  ASSUME TraceTypes, NEW p \in Paths
  PROVE  fs[p].new \in Folders /\ fs[p].old \in Folders
         /\ fs[p] = [new |-> fs[p].new, old |-> fs[p].old]
  BY DEF TraceTypes

LEMMA InitTraces == Init => IInv
<1> SUFFICES ASSUME Init PROVE IInv
  OBVIOUS
<1>1. TraceTypes
  <2>1. Absent \in Folders
    BY DEF Folders
  <2>2. fs \in [Paths -> [new : Folders, old : Folders]]
    BY <2>1 DEF Init
  <2>3. runs = 0 /\ runs \in 0 .. MaxRuns /\ at = "idle" /\ path \in Paths
        /\ wild = {} /\ wrote = {}
    <3>1. runs = 0 /\ at = "idle" /\ path = Default /\ wild = {} /\ wrote = {}
      BY DEF Init
    <3>2. Default \in Paths
      BY SessionAssumption
    <3> QED BY <3>1, <3>2, MaxRunsType
  <2>4. made \in [Paths -> 0 .. runs]
    BY <2>3 DEF Init
  <2> QED BY <2>2, <2>3, <2>4 DEF TraceTypes
<1>2. \A p \in Paths : fs[p].new = Absent /\ fs[p].old = Absent
  BY DEF Init
<1>3. Default # Empty
  BY SessionAssumption DEF Empty
<1> QED BY <1>1, <1>2, <1>3, OneRunFolders
        DEF Init, IInv, InitializeInv, MadeInv, KeptInv, OneRun

(* SwordFlags takes a path of the user or the default, or leaves it        *)
(* uninitialised.                                                          *)
LEMMA FlagsType ==
  ASSUME NEW env \in {"unset", "illegal", "cut"} \cup Paths
  PROVE  /\ SwordFlags(env) \subseteq Paths \cup {Empty}
         /\ env # "cut" => Empty \notin SwordFlags(env)
<1>1. CASE env \in {"unset", "illegal"}
  <2>1. env \notin Paths /\ env # "cut"
    BY <1>1, SessionAssumption
  <2>2. SwordFlags(env) = {Default}
    BY <1>1, <2>1 DEF SwordFlags
  <2> QED BY <2>2, SessionAssumption DEF Empty
<1>2. CASE env = "cut"
  <2>1. env \notin Paths /\ env \notin {"unset", "illegal"}
    BY <1>2, SessionAssumption
  <2>2. SwordFlags(env) = Paths \cup {Empty}
    BY <1>2, <2>1 DEF SwordFlags
  <2> QED BY <1>2, <2>2
<1>3. CASE env \in Paths
  <2>1. env \notin {"unset", "illegal", "cut"}
    BY <1>3, SessionAssumption
  <2>2. SwordFlags(env) = {env}
    BY <1>3, <2>1 DEF SwordFlags
  <2> QED BY <1>3, <2>2, SessionAssumption DEF Empty
<1> QED BY <1>1, <1>2, <1>3

LEMMA LaunchStep ==
  ASSUME IInv, NEW env \in {"unset", "illegal", "cut"} \cup Paths, Launch(env)
  PROVE  IInv'
<1>1. /\ at = "idle" /\ runs < MaxRuns /\ runs' = runs + 1
      /\ wild' = IF env = "cut" THEN wild \cup {runs + 1} ELSE wild
      /\ path' \in SwordFlags(env) /\ at' = "rename"
      /\ UNCHANGED <<fs, made, wrote>>
  BY DEF Launch
<1>2. runs \in 0 .. MaxRuns /\ MaxRuns \in Nat /\ wild \subseteq 1 .. runs
      /\ wrote \subseteq 1 .. runs /\ made \in [Paths -> 0 .. runs]
  BY SessionAssumption DEF IInv, TraceTypes
<1>3. runs' \in 0 .. MaxRuns /\ runs' >= 1 /\ 1 .. runs \subseteq 1 .. runs'
      /\ 0 .. runs \subseteq 0 .. runs' /\ runs' \in 1 .. runs' /\ runs' \notin 0 .. runs
  BY <1>1, <1>2
<1>4. wild' \subseteq 1 .. runs' /\ wild \subseteq wild'
  BY <1>1, <1>2, <1>3
<1>5. Folders \subseteq Folders'
  BY <1>3 DEF Folders
<1>6. fs' \in [Paths -> [new : Folders', old : Folders']]
  <2>1. fs \in [Paths -> [new : Folders, old : Folders]]
    BY DEF IInv, TraceTypes
  <2>2. [new : Folders, old : Folders] \subseteq [new : Folders', old : Folders']
    BY <1>5
  <2> QED BY <1>1, <2>1, <2>2
<1>7. TraceTypes'
  BY <1>1, <1>2, <1>3, <1>4, <1>6, FlagsType DEF TraceTypes
<1>8. InitializeInv'
  BY <1>1, FlagsType DEF InitializeInv
<1>9. MadeInv'
  <2>1. \A p \in Paths : made[p] # runs'
    BY <1>2, <1>3
  <2> QED BY <1>1, <1>2, <1>3, <2>1 DEF MadeInv
<1>10. TracesOfOneRun' /\ KeptInv'
  BY <1>1, <1>4 DEF IInv, TracesOfOneRun, KeptInv
<1> QED BY <1>7, <1>8, <1>9, <1>10 DEF IInv

(* Where ompt_initialize works on folders, they are those of its path.     *)
LEMMA MoveStep ==
  ASSUME IInv, path \in Paths, fs[path].new # Absent, fs[path].old \in {Absent, {}},
         at \in {"rename", "again"}, Move, at' = "mkdir",
         UNCHANGED <<path, runs, wild, made, wrote>>
  PROVE  IInv'
<1>1. fs' = [fs EXCEPT ![path] = [new |-> Absent, old |-> fs[path].new]]
  BY DEF Move
<1>2. fs \in [Paths -> [new : Folders, old : Folders]] /\ Folders' = Folders
  BY DEF IInv, TraceTypes, Folders
<1>3. Absent \in Folders /\ fs[path].new \in Folders
  BY FolderTypes DEF IInv, Folders
<1>4. fs' \in [Paths -> [new : Folders, old : Folders]]
  BY <1>1, <1>2, <1>3
<1>5. /\ fs'[path].new = Absent /\ fs'[path].old = fs[path].new
      /\ \A p \in Paths : p # path => fs'[p] = fs[p]
  BY <1>1, <1>2
<1>6. TraceTypes'
  BY <1>2, <1>4 DEF IInv, TraceTypes
<1>7. path # Empty
  BY SessionAssumption DEF Empty
<1>8. InitializeInv'
  BY <1>5, <1>7 DEF InitializeInv
<1>9. MadeInv'
  BY DEF IInv, MadeInv
<1>10. TracesOfOneRun'
  <2>1. \A p \in Paths : OneRun(fs[p].new) /\ OneRun(fs[p].old)
    BY OneRunFolders DEF IInv
  <2>2. \A p \in Paths : OneRun(fs'[p].new) /\ OneRun(fs'[p].old)
    BY <1>5, <2>1 DEF OneRun
  <2> QED BY <2>2, OneRunNext
<1>11. KeptInv'
  <2> SUFFICES ASSUME NEW p \in Paths, made[p] \in wrote
               PROVE  IF fs'[p].new # Absent THEN made[p] \in fs'[p].new
                      ELSE fs'[p].old # Absent /\ made[p] \in fs'[p].old
    BY DEF KeptInv
  <2> QED BY <1>5 DEF IInv, KeptInv
<1> QED BY <1>6, <1>8, <1>9, <1>10, <1>11 DEF IInv

(* The folders stay: the program goes to its next call, or ends.           *)
LEMMA StayStep ==
  ASSUME IInv, at # "idle", UNCHANGED <<fs, runs, wild, made, wrote>>,
         \/ /\ path' = path
            /\ \/ at = "rename" /\ at' = "remove" /\ path \in Paths
                   /\ fs[path].new # Absent
               \/ at = "rename" /\ at' = "mkdir" /\ ~IsDirectory(path)
         \/ at' = "idle" /\ path' = Default
  PROVE  IInv'
<1>1. Default \in Paths /\ Empty \notin Paths
  BY SessionAssumption DEF Empty
<1>2. Folders' = Folders
  BY DEF Folders
<1>3. TraceTypes'
  BY <1>1, <1>2 DEF IInv, TraceTypes
<1>4. InitializeInv'
  BY <1>1 DEF IInv, InitializeInv, IsDirectory
<1>5. MadeInv'
  BY DEF IInv, MadeInv
<1>6. TracesOfOneRun' /\ KeptInv'
  BY DEF IInv, TracesOfOneRun, KeptInv
<1> QED BY <1>3, <1>4, <1>5, <1>6 DEF IInv

LEMMA RenameStep == IInv /\ Rename => IInv'
<1> SUFFICES ASSUME IInv, Rename PROVE IInv'
  OBVIOUS
<1>1. at = "rename" /\ UNCHANGED <<path, runs, wild, made, wrote>>
      /\ path \in Paths \cup {Empty}
  BY DEF Rename, IInv, TraceTypes
<1>2. CASE IsDirectory(path) /\ CanRename(path)
  <2>1. path \in Paths /\ fs[path].new # Absent /\ fs[path].old \in {Absent, {}}
    BY <1>1, <1>2 DEF IsDirectory, CanRename
  <2>2. Move /\ at' = "mkdir"
    BY <1>2 DEF Rename
  <2> QED BY <1>1, <2>1, <2>2, MoveStep
<1>3. CASE IsDirectory(path) /\ ~CanRename(path)
  <2>1. path \in Paths /\ fs[path].new # Absent /\ at' = "remove" /\ fs' = fs
    BY <1>1, <1>3 DEF IsDirectory, Rename
  <2> QED BY <1>1, <2>1, StayStep
<1>4. CASE ~IsDirectory(path)
  <2>1. at' = "mkdir" /\ fs' = fs
    BY <1>4 DEF Rename
  <2> QED BY <1>1, <1>4, <2>1, StayStep
<1> QED BY <1>2, <1>3, <1>4

(* What is removed are not the last traces: the folder itself exists.      *)
LEMMA RemoveOldStep == IInv /\ RemoveOld => IInv'
<1> SUFFICES ASSUME IInv, RemoveOld PROVE IInv'
  OBVIOUS
<1>1. /\ at = "remove" /\ at' = "again" /\ UNCHANGED <<path, runs, wild, made, wrote>>
      /\ fs' = [fs EXCEPT ![path].old = Absent]
  BY DEF RemoveOld
<1>2. path \in Paths /\ path # Empty /\ fs[path].new # Absent
  BY <1>1, SessionAssumption DEF IInv, InitializeInv, TraceTypes, Empty
<1>3. fs \in [Paths -> [new : Folders, old : Folders]] /\ Folders' = Folders
      /\ Absent \in Folders
  BY <1>1 DEF IInv, TraceTypes, Folders
<1>4. fs' \in [Paths -> [new : Folders, old : Folders]]
  BY <1>1, <1>2, <1>3
<1>5. /\ fs'[path].new = fs[path].new /\ fs'[path].old = Absent
      /\ \A p \in Paths : p # path => fs'[p] = fs[p]
  BY <1>1, <1>2, <1>3
<1>6. TraceTypes'
  BY <1>1, <1>3, <1>4 DEF IInv, TraceTypes
<1>7. InitializeInv'
  BY <1>1, <1>2, <1>5 DEF InitializeInv
<1>8. MadeInv'
  BY <1>1 DEF IInv, MadeInv
<1>9. TracesOfOneRun'
  <2>1. \A p \in Paths : OneRun(fs[p].new) /\ OneRun(fs[p].old)
    BY OneRunFolders DEF IInv
  <2>2. \A p \in Paths : OneRun(fs'[p].new) /\ OneRun(fs'[p].old)
    BY <1>5, <2>1 DEF OneRun
  <2> QED BY <1>1, <2>2, OneRunNext
<1>10. KeptInv'
  <2> SUFFICES ASSUME NEW p \in Paths, made[p] \in wrote
               PROVE  IF fs'[p].new # Absent THEN made[p] \in fs'[p].new
                      ELSE fs'[p].old # Absent /\ made[p] \in fs'[p].old
    BY <1>1 DEF KeptInv
  <2> QED BY <1>2, <1>5 DEF IInv, KeptInv
<1> QED BY <1>6, <1>7, <1>8, <1>9, <1>10 DEF IInv

LEMMA RenameAgainStep == IInv /\ RenameAgain => IInv'
<1> SUFFICES ASSUME IInv, RenameAgain PROVE IInv'
  OBVIOUS
<1>1. at = "again" /\ UNCHANGED <<runs, wild, made, wrote>>
  BY DEF RenameAgain
<1>2. path \in Paths /\ fs[path].new # Absent
  BY <1>1 DEF IInv, InitializeInv, TraceTypes
<1>3. CASE CanRename(path)
  <2>1. Move /\ at' = "mkdir" /\ path' = path /\ fs[path].old \in {Absent, {}}
    BY <1>3 DEF RenameAgain, CanRename
  <2> QED BY <1>1, <1>2, <2>1, MoveStep
<1>4. CASE ~CanRename(path)
  <2>1. at' = "idle" /\ path' = Default /\ fs' = fs
    BY <1>4 DEF RenameAgain
  <2> QED BY <1>1, <2>1, StayStep
<1> QED BY <1>3, <1>4

LEMMA CreateDirectoryStep == IInv /\ CreateDirectory => IInv'
<1> SUFFICES ASSUME IInv, CreateDirectory PROVE IInv'
  OBVIOUS
<1>1. PICK p : p = IF path = Empty THEN Default ELSE path
  OBVIOUS
<1>2. at = "mkdir" /\ UNCHANGED <<runs, wild, wrote>> /\ p \in Paths /\ p # Empty
  BY <1>1, SessionAssumption DEF CreateDirectory, IInv, TraceTypes, Empty
<1>3. CASE p \in NoParent
  <2>1. at' = "idle" /\ path' = Default /\ UNCHANGED <<fs, made>>
    BY <1>1, <1>3 DEF CreateDirectory
  <2> QED BY <1>2, <2>1, StayStep
<1>4. CASE p \notin NoParent
  <2>1. /\ at' = "run" /\ path' = p
        /\ fs' = IF IsDirectory(p) THEN fs ELSE [fs EXCEPT ![p].new = {}]
        /\ made' = [made EXCEPT ![p] = runs]
    BY <1>1, <1>4 DEF CreateDirectory
  <2>2. fs \in [Paths -> [new : Folders, old : Folders]] /\ Folders' = Folders
        /\ {} \in Folders /\ made \in [Paths -> 0 .. runs] /\ runs \in Nat
        /\ runs >= 1
    BY <1>2 DEF IInv, TraceTypes, Folders
  <2>3. fs' \in [Paths -> [new : Folders, old : Folders]]
    BY <1>2, <2>1, <2>2
  <2>4. /\ \A q \in Paths : q # p => fs'[q] = fs[q] /\ made'[q] = made[q]
        /\ made'[p] = runs /\ fs'[p].old = fs[p].old
        /\ fs'[p].new = IF fs[p].new = Absent THEN {} ELSE fs[p].new
    BY <1>2, <2>1, <2>2 DEF IsDirectory
  <2>5. TraceTypes'
    <3>1. made' \in [Paths -> 0 .. runs]
      BY <1>2, <2>1, <2>2
    <3> QED BY <1>2, <2>1, <2>2, <2>3, <3>1 DEF IInv, TraceTypes
  <2>6. runs \notin wrote
    BY <1>2 DEF IInv, MadeInv
  <2>7. fs'[p].new # Absent
    <3>1. {} # Absent
      BY DEF Absent
    <3> QED BY <2>4, <3>1
  <2>8. runs \in wild \/ fs'[p].new \subseteq {runs}
    BY <1>1, <1>2, <2>4 DEF IInv, InitializeInv
  <2>9. InitializeInv'
    BY <1>2, <2>1, <2>4, <2>7, <2>8 DEF InitializeInv
  <2>10. MadeInv'
    <3>1. \A q \in Paths : made[q] # runs
      BY <1>2 DEF IInv, MadeInv
    <3> QED BY <1>2, <2>1, <2>4, <3>1 DEF MadeInv
  <2>11. TracesOfOneRun'
    <3>1. \A q \in Paths : OneRun(fs[q].new) /\ OneRun(fs[q].old)
      BY OneRunFolders DEF IInv
    <3>2. \A q \in Paths : OneRun(fs'[q].new) /\ OneRun(fs'[q].old)
      BY <2>4, <3>1 DEF OneRun
    <3> QED BY <1>2, <3>2, OneRunNext
  <2>12. KeptInv'
    <3> SUFFICES ASSUME NEW q \in Paths, made'[q] \in wrote
                 PROVE  IF fs'[q].new # Absent THEN made'[q] \in fs'[q].new
                        ELSE fs'[q].old # Absent /\ made'[q] \in fs'[q].old
      BY <1>2 DEF KeptInv
    <3> QED BY <2>4, <2>6 DEF IInv, KeptInv
  <2> QED BY <2>5, <2>9, <2>10, <2>11, <2>12 DEF IInv
<1> QED BY <1>3, <1>4

LEMMA ThreadBeginStep == IInv /\ ThreadBegin => IInv'
<1> SUFFICES ASSUME IInv, ThreadBegin PROVE IInv'
  OBVIOUS
<1>1. /\ at = "run" /\ UNCHANGED <<at, path, runs, wild, made>>
      /\ fs' = [fs EXCEPT ![path].new = @ \cup {runs}]
      /\ wrote' = wrote \cup {runs}
  BY DEF ThreadBegin
<1>2. /\ path \in Paths /\ path # Empty /\ fs[path].new # Absent
      /\ runs \in wild \/ fs[path].new \subseteq {runs}
      /\ made[path] = runs
  BY <1>1, SessionAssumption DEF IInv, InitializeInv, TraceTypes, Empty
<1>3. fs \in [Paths -> [new : Folders, old : Folders]] /\ Folders' = Folders
      /\ runs \in 1 .. runs /\ runs \in Nat
  BY <1>1 DEF IInv, TraceTypes, Folders
<1>4. fs[path].new \subseteq 1 .. runs /\ fs[path].new \cup {runs} \in Folders
  <2>1. fs[path].new \in Folders
    BY <1>2, FolderTypes DEF IInv
  <2> QED BY <1>2, <1>3, <2>1 DEF Folders
<1>5. fs' \in [Paths -> [new : Folders, old : Folders]]
  BY <1>1, <1>2, <1>3, <1>4
<1>6. /\ fs'[path].new = fs[path].new \cup {runs} /\ fs'[path].old = fs[path].old
      /\ \A p \in Paths : p # path => fs'[p] = fs[p]
  BY <1>1, <1>2, <1>3
<1>7. TraceTypes'
  BY <1>1, <1>3, <1>5 DEF IInv, TraceTypes
<1>8. fs'[path].new # Absent
  BY <1>3, <1>6 DEF Absent
<1>9. InitializeInv'
  BY <1>1, <1>2, <1>6, <1>8 DEF InitializeInv
<1>10. MadeInv'
  BY <1>1 DEF IInv, MadeInv
<1>11. TracesOfOneRun'
  <2>1. \A p \in Paths : OneRun(fs[p].new) /\ OneRun(fs[p].old)
    BY OneRunFolders DEF IInv
  <2>2. OneRun(fs'[path].new)
    <3>1. ASSUME NEW r \in fs'[path].new, NEW s \in fs'[path].new, r < s
          PROVE  s \in wild
      <4>1. r \in 1 .. runs /\ s \in 1 .. runs
        BY <1>3, <1>4, <1>6
      <4>2. r # runs
        BY <3>1, <4>1
      <4>3. r \in fs[path].new
        BY <1>6, <4>2
      <4>4. CASE s = runs
        BY <1>2, <4>2, <4>3, <4>4
      <4>5. CASE s # runs
        BY <1>2, <1>6, <2>1, <3>1, <4>3, <4>5 DEF OneRun
      <4> QED BY <4>4, <4>5
    <3> QED BY <3>1 DEF OneRun
  <2>3. \A p \in Paths : OneRun(fs'[p].new) /\ OneRun(fs'[p].old)
    BY <1>6, <2>1, <2>2
  <2> QED BY <1>1, <2>3, OneRunNext
<1>12. KeptInv'
  <2> SUFFICES ASSUME NEW p \in Paths, made[p] \in wrote \cup {runs}
               PROVE  IF fs'[p].new # Absent THEN made[p] \in fs'[p].new
                      ELSE fs'[p].old # Absent /\ made[p] \in fs'[p].old
    BY <1>1 DEF KeptInv
  <2>1. CASE p = path
    BY <1>2, <1>6, <1>8, <2>1
  <2>2. CASE p # path
    <3>1. made[p] # runs
      BY <1>1, <2>2 DEF IInv, MadeInv
    <3> QED BY <1>6, <2>2, <3>1 DEF IInv, KeptInv
  <2> QED BY <2>1, <2>2
<1> QED BY <1>7, <1>9, <1>10, <1>11, <1>12 DEF IInv

LEMMA IInvStep == IInv /\ [Next]_vars => IInv'
<1> SUFFICES ASSUME IInv, [Next]_vars PROVE IInv'
  OBVIOUS
<1>1. CASE Program
  <2>1. CASE End
    <3>1. at # "idle" /\ at' = "idle" /\ path' = Default
          /\ UNCHANGED <<fs, runs, wild, made, wrote>>
      BY <2>1 DEF End
    <3> QED BY <3>1, StayStep
  <2> QED BY <1>1, <2>1, LaunchStep, RenameStep, RemoveOldStep, RenameAgainStep,
             CreateDirectoryStep, ThreadBeginStep DEF Program
<1>2. CASE Tools \/ UNCHANGED vars
  <2>1. UNCHANGED <<fs, at, path, runs, wild, made, wrote>>
    BY <1>2 DEF Tools, StartDriver, Analyze, AnalyzeFails, WriteReport, WriteFails, EndDriver,
                PrintReport, vars, traceVars
  <2>2. Folders' = Folders
    BY <2>1 DEF Folders
  <2>3. TraceTypes'
    BY <2>1, <2>2 DEF IInv, TraceTypes
  <2>4. InitializeInv' /\ MadeInv'
    BY <2>1 DEF IInv, InitializeInv, MadeInv
  <2>5. TracesOfOneRun' /\ KeptInv'
    BY <2>1 DEF IInv, TracesOfOneRun, KeptInv
  <2> QED BY <2>3, <2>4, <2>5 DEF IInv
<1> QED BY <1>1, <1>2 DEF Next

THEOREM Invariance == Spec => []IInv
BY InitTraces, IInvStep, PTL DEF Spec

(* However the runs before ended, ompt_initialize and thread_begin never   *)
(* put the traces of a run into a folder with those of another, unless     *)
(* SwordFlags left the path uninitialised.                                 *)
THEOREM TracesDoNotMix == Spec => []TracesOfOneRun
<1>1. IInv => TracesOfOneRun
  BY DEF IInv
<1> QED BY <1>1, Invariance, PTL

(* Removing .old and renaming twice never loses the traces of the last run *)
(* that made a folder, wherever ompt_initialize is killed.                 *)
THEOREM LastTracesAreKept == Spec => []LastTraceKept
<1>1. IInv => LastTraceKept
  BY DEF IInv, KeptInv, LastTraceKept
<1> QED BY <1>1, Invariance, PTL

-----------------------------------------------------------------------------
(* The tools.                                                              *)

(* Only without regions does a report folder look like none.               *)
LEMMA NoFolderNoRegion == NoFolder \in Reports => Regions = {}
<1> SUFFICES ASSUME NoFolder \in Reports PROVE Regions = {}
  OBVIOUS
<1>1. DOMAIN NoFolder = Regions
  BY DEF Reports
<1>2. DOMAIN NoFolder = {}
  BY DEF NoFolder
<1> QED BY <1>1, <1>2

LEMMA InitTools == Init => ToolInv
<1> SUFFICES ASSUME Init PROVE ToolInv
  OBVIOUS
<1>1. job \in Jobs /\ job.at = "idle"
  BY SessionAssumption DEF Init, Idle, Jobs
<1>2. analyzed \in [Regions -> 0 .. MaxRuns] /\ \A r \in Regions : analyzed[r] = 0
  BY MaxRunsType DEF Init
<1>3. reports = NoFolder
  BY DEF Init
<1>4. saving = << >>
  BY DEF Init
<1> QED BY <1>1, <1>2, <1>3, <1>4, NoFolderNoRegion DEF ToolInv, Current, SavingInv

(* The last analysis of a region opens its report if it has races to save, *)
(* whichever region the command line named.                                *)
LEMMA AnalyzeStep ==
  ASSUME IInv, ToolInv, NEW r \in Regions, Analyze(r)
  PROVE  ToolInv'
<1>1. PICK region : region = ParseAnalyzer(Command(r)).value["--pregion"][1]
  OBVIOUS
<1>2. /\ job.at = "analyze" /\ job' = [job EXCEPT !.todo = @ \ {r}]
      /\ fs[job.path].new \notin {Absent, {}} /\ UNCHANGED traceVars /\ saving = << >>
  BY DEF Analyze
<1>3. PICK run \in fs[job.path].new :
        /\ analyzed' = [analyzed EXCEPT ![region] = run]
        /\ IF region \in racy[run] THEN OpenReport(region, run)
           ELSE UNCHANGED <<reports, saving, unsaved>>
  BY <1>1 DEF Analyze, ToSave
<1>4. /\ job \in Jobs /\ analyzed \in [Regions -> 0 .. MaxRuns] /\ reports \in Reports
      /\ job.path \in Paths /\ racy' = racy
  BY <1>2 DEF ToolInv, Jobs, traceVars
<1>5. run \in 1 .. MaxRuns /\ run \in 0 .. MaxRuns
  <2>1. fs[job.path].new \in Folders /\ runs \in 0 .. MaxRuns
    BY <1>4, FolderTypes DEF IInv, TraceTypes
  <2>2. run \in 1 .. runs
    BY <1>2, <2>1 DEF Folders
  <2> QED BY <2>1, <2>2, MaxRunsType
<1>6. job' \in Jobs /\ job'.at = "analyze"
  BY <1>2, <1>4 DEF Jobs
<1>7. reports' = reports \/ reports' = [reports EXCEPT ![region] = Cut]
  BY <1>3 DEF OpenReport
<1>8. analyzed' \in [Regions -> 0 .. MaxRuns] /\ reports' \in Reports
  BY <1>3, <1>4, <1>5, <1>7 DEF Reports
<1>9. ASSUME NEW q \in Regions PROVE Current(q)' /\ Sound(q)'
  <2>1. Current(q) /\ Sound(q)
    BY <1>4 DEF ToolInv
  <2>2. CASE q = region
    <3>1. analyzed'[q] = run
      BY <1>3, <1>4, <2>2
    <3>2. q \in racy[run] => q \in unsaved'
      BY <1>3, <2>2 DEF OpenReport
    <3>3. reports'[q] = reports[q] \/ reports'[q] = Cut
      BY <1>4, <1>7, <2>2 DEF Reports
    <3> QED BY <1>4, <2>1, <3>1, <3>2, <3>3 DEF Current, Sound
  <2>3. CASE q # region
    <3>1. analyzed'[q] = analyzed[q] /\ reports'[q] = reports[q]
      BY <1>3, <1>4, <1>7, <2>3 DEF Reports
    <3>2. q \in unsaved' <=> q \in unsaved
      BY <1>3, <2>3 DEF OpenReport
    <3> QED BY <1>4, <2>1, <3>1, <3>2 DEF Current, Sound
  <2> QED BY <2>2, <2>3
<1>10. SavingInv'
  <2>1. CASE saving' = << >>
    BY <2>1 DEF SavingInv
  <2>2. CASE saving' # << >>
    <3>1. saving' = <<region, run>> /\ region \in racy[run] /\ region \in unsaved'
      BY <1>2, <1>3, <2>2 DEF OpenReport
    <3>2. region \in Regions => analyzed'[region] = run
      BY <1>3, <1>4
    <3> QED BY <1>4, <1>5, <1>6, <3>1, <3>2 DEF SavingInv
  <2> QED BY <2>1, <2>2
<1> QED BY <1>4, <1>6, <1>8, <1>9, <1>10 DEF ToolInv

(* The races of the last analysis are written, all, some or none of them.  *)
LEMMA WriteStep == ToolInv /\ (WriteReport \/ WriteFails) => ToolInv'
<1> SUFFICES ASSUME ToolInv, WriteReport \/ WriteFails PROVE ToolInv'
  OBVIOUS
<1>1. saving # << >> /\ saving' = << >> /\ UNCHANGED <<job, analyzed, racy>>
  BY DEF WriteReport, WriteFails, traceVars
<1>2. PICK region, run : /\ saving = <<region, run>>
                         /\ run \in 1 .. MaxRuns /\ region \in racy[run]
                         /\ region \in Regions => analyzed[region] = run
                         /\ region \in unsaved /\ job.at = "analyze"
  BY <1>1 DEF ToolInv, SavingInv
<1>3. /\ job \in Jobs /\ analyzed \in [Regions -> 0 .. MaxRuns] /\ reports \in Reports
      /\ run \in (0 .. MaxRuns) \cup {Cut}
  BY <1>2, MaxRunsType DEF ToolInv
<1>4. PICK file \in {Cut, run} : reports' = [reports EXCEPT ![region] = file]
  BY <1>2 DEF WriteReport, WriteFails
<1>5. reports' \in Reports
  BY <1>3, <1>4 DEF Reports
<1>6. ASSUME NEW q \in Regions PROVE Current(q)' /\ Sound(q)'
  <2>1. Current(q) /\ Sound(q)
    BY <1>3 DEF ToolInv
  <2>2. CASE q = region
    <3>1. reports'[q] = file
      BY <1>3, <1>4, <2>2 DEF Reports
    <3>2. Sound(q)'
      BY <1>1, <1>2, <2>2, <3>1 DEF Sound
    <3>3. Current(q)'
      <4>1. CASE WriteReport
        BY <1>1, <1>2, <1>3, <2>2, <4>1 DEF WriteReport, Current, Reports
      <4>2. CASE WriteFails
        BY <1>1, <1>2, <2>2, <4>2 DEF WriteFails, Current
      <4> QED BY <4>1, <4>2
    <3> QED BY <3>2, <3>3
  <2>3. CASE q # region
    <3>1. reports'[q] = reports[q]
      BY <1>3, <1>4, <2>3 DEF Reports
    <3>2. q \in unsaved' <=> q \in unsaved
      BY <1>2, <2>3 DEF WriteReport, WriteFails
    <3> QED BY <1>1, <2>1, <3>1, <3>2 DEF Current, Sound
  <2> QED BY <2>2, <2>3
<1> QED BY <1>1, <1>3, <1>5, <1>6 DEF ToolInv, SavingInv

LEMMA StartDriverStep ==
  ASSUME ToolInv, NEW p \in Paths, NEW tree \in BOOLEAN, NEW executable \in BOOLEAN,
         StartDriver(p, tree, executable)
  PROVE  ToolInv'
<1>1. UNCHANGED <<analyzed, racy, unsaved, saving>>
  BY DEF StartDriver, traceVars
<1>2. CASE UNCHANGED <<job, reports>>
  BY <1>1, <1>2 DEF ToolInv, Current, Sound, SavingInv
<1>3. CASE /\ job' = [at |-> "analyze", path |-> p, tree |-> tree, todo |-> MetaRegions(p)]
           /\ reports' = mkdir_p
  <2>1. MetaRegions(p) \subseteq Regions
    BY DEF MetaRegions
  <2>2. job' \in Jobs /\ job'.at = "analyze"
    BY <1>3, <2>1 DEF Jobs
  <2>6. SavingInv'
    BY <1>1, <2>2 DEF ToolInv, SavingInv
  <2>3. CASE reports = NoFolder /\ reports \notin Reports
    <3>1. reports' = [r \in Regions |-> 0]
      BY <1>3, <2>3 DEF mkdir_p
    <3>2. reports' \in Reports /\ \A r \in Regions : reports'[r] = 0
      BY <3>1, MaxRunsType DEF Reports
    <3>3. \A r \in Regions : analyzed[r] = 0
      BY <2>3 DEF ToolInv
    <3>4. \A r \in Regions : Current(r)'
      BY <1>1, <3>3 DEF Current
    <3> QED BY <1>1, <2>2, <2>6, <3>2, <3>4 DEF ToolInv, Sound
  <2>4. CASE reports \in Reports /\ reports # NoFolder
    <3>1. reports' = reports
      BY <1>3, <2>4 DEF mkdir_p
    <3>2. \A r \in Regions : Current(r)'
      BY <1>1, <3>1 DEF Current, ToolInv
    <3> QED BY <1>1, <2>2, <2>4, <2>6, <3>1, <3>2 DEF ToolInv, Sound
  <2>5. CASE reports \in Reports /\ reports = NoFolder
    <3>1. Regions = {}
      BY <2>5, NoFolderNoRegion
    <3>2. reports' \in Reports
      <4>1. reports' = [r \in Regions |-> 0]
        BY <1>3, <2>5 DEF mkdir_p
      <4> QED BY <4>1, MaxRunsType DEF Reports
    <3> QED BY <1>1, <2>2, <2>6, <3>1, <3>2 DEF ToolInv
  <2> QED BY <2>3, <2>4, <2>5 DEF ToolInv
<1> QED BY <1>2, <1>3 DEF StartDriver

LEMMA ToolStep == IInv /\ ToolInv /\ [Next]_vars => ToolInv'
<1> SUFFICES ASSUME IInv, ToolInv, [Next]_vars PROVE ToolInv'
  OBVIOUS
<1>1. ASSUME UNCHANGED <<reports, analyzed, unsaved, racy>>, job' \in Jobs,
             job'.at = job.at, saving' = saving
      PROVE  ToolInv'
  BY <1>1 DEF ToolInv, Current, Sound, SavingInv
<1>2. CASE Program \/ UNCHANGED vars
  <2>1. UNCHANGED <<reports, analyzed, unsaved, racy, job, saving>>
    BY <1>2 DEF Program, Launch, Rename, RemoveOld, RenameAgain, CreateDirectory,
                ThreadBegin, End, vars, toolVars
  <2> QED BY <1>1, <2>1 DEF ToolInv
<1>3. ASSUME NEW r \in Regions, AnalyzeFails(r) PROVE ToolInv'
  <2>1. UNCHANGED <<reports, analyzed, unsaved, racy, saving>>
        /\ job' = [job EXCEPT !.todo = @ \ {r}] /\ job.at = "analyze"
    BY <1>3 DEF AnalyzeFails, traceVars
  <2>2. job' \in Jobs /\ job'.at = job.at
    BY <2>1 DEF ToolInv, Jobs
  <2> QED BY <1>1, <2>1, <2>2
<1>4. CASE EndDriver
  <2>1. UNCHANGED <<reports, analyzed, unsaved, racy>> /\ job' = Idle /\ job.at = "analyze"
        /\ saving' = << >>
    BY <1>4 DEF EndDriver, traceVars
  <2>2. job' \in Jobs
    BY <2>1, SessionAssumption DEF Idle, Jobs
  <2>3. SavingInv'
    BY <2>1 DEF SavingInv
  <2> QED BY <2>1, <2>2, <2>3 DEF ToolInv, Current, Sound
<1>5. ASSUME NEW argv \in Lines, NEW installed \in BOOLEAN, PrintReport(argv, installed)
      PROVE  ToolInv'
  <2>1. UNCHANGED <<reports, analyzed, unsaved, racy, job, saving>>
    BY <1>5 DEF PrintReport, traceVars
  <2> QED BY <1>1, <2>1 DEF ToolInv
<1>6. ASSUME Tools PROVE ToolInv'
  BY <1>3, <1>4, <1>5, <1>6, AnalyzeStep, WriteStep, StartDriverStep DEF Tools
<1> QED BY <1>2, <1>6 DEF Next

(* The printer shows what the last analysis of a region found, whatever    *)
(* other runs, analyses and interruptions there were, unless the save of   *)
(* that analysis was not completed.                                        *)
THEOREM PrinterIsCurrent == Spec => PrintsCurrent
<1> DEFINE Printing == printed' # printed /\ printed' # NoFolder =>
             \A r \in Regions : analyzed[r] # 0 =>
               /\ printed'[r] = 0 \/ r \in racy[printed'[r]]
               /\ r \in racy[analyzed[r]] /\ r \notin unsaved => printed'[r] = analyzed[r]
<1>1. ToolInv /\ [Next]_vars => [Printing]_vars
  <2> SUFFICES ASSUME ToolInv, Next, printed' # printed, printed' # NoFolder,
                      NEW r \in Regions, analyzed[r] # 0
               PROVE  /\ printed'[r] = 0 \/ r \in racy[printed'[r]]
                      /\ r \in racy[analyzed[r]] /\ r \notin unsaved =>
                           printed'[r] = analyzed[r]
    OBVIOUS
  <2>1. \E argv \in Lines, installed \in BOOLEAN : PrintReport(argv, installed)
    BY DEF Next, Program, Launch, Rename, RemoveOld, RenameAgain, CreateDirectory,
           ThreadBegin, End, toolVars, Tools, StartDriver, Analyze, AnalyzeFails,
           WriteReport, WriteFails, EndDriver
  <2>2. printed' = Shown
    BY <2>1 DEF PrintReport
  <2>3. printed'[r] = IF reports[r] = Cut THEN 0 ELSE reports[r]
    BY <2>2 DEF Shown
  <2>4. Sound(r) /\ Current(r) /\ analyzed[r] # Cut
    BY MaxRunsType DEF ToolInv, Cut
  <2> QED BY <2>3, <2>4 DEF Sound, Current
<1> HIDE DEF Printing
<1>2. Spec => [][Printing]_vars
  BY <1>1, InitTraces, InitTools, IInvStep, ToolStep, PTL DEF Spec
<1> QED BY <1>2 DEF PrintsCurrent, Printing
=============================================================================
