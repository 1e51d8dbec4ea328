--------------------------- MODULE InstrumentPass ---------------------------
(***************************************************************************)
(* The LLVM pass InstrumentParallel over the functions of one module, and  *)
(* the compiled function run by a thread against the callbacks of          *)
(* rtl/sword_interface.inl.  A body is a sequence of instructions; "br"    *)
(* ends a basic block and control then goes to a later block or returns,   *)
(* so control flow graphs are acyclic.  What the pass asks LLVM about an   *)
(* address (constant data, captured, profile data, a name of the OpenMP    *)
(* lowering, its width and alignment) is given by constants.               *)
(*                                                                         *)
(* Every call is taken to change what the analyzer distinguishes (the      *)
(* barrier interval or the mutexes held); interval counts these changes.   *)
(* The filter of repeated accesses belongs to TraceBuffer: here a callback *)
(* appends its access.                                                     *)
(***************************************************************************)
EXTENDS Integers, Sequences, FiniteSets, SequencesExt

CONSTANTS
  Modules,      \* the modules to compile: sequences of [kind, body]
  Constant,     \* addresses in constant globals, or loaded from a vtable
  Uncaptured,   \* stack slots whose address does not escape
  Profile,      \* profile counters, gcov data, other address spaces
  Bookkeeping,  \* .omp.iv, .lb, .ub, .stride, .is_last and .global_tid
  SwiftError,   \* swifterror slots, which are promoted to registers
  Bits,         \* width of what an address points to
  Alignment,    \* alignment of its accesses, in bytes
  MaxStatus     \* deepest nesting of parallel regions

VARIABLES
  funcs,        \* the functions: kind, body, plan (per instruction), clone
  at,           \* the function the pass is at
  tls,          \* the __sword_*__ globals: absent, weak or defined
  linked,       \* the program is compiled and linked
  pc,           \* position in the function that runs
  status,       \* __sword_status__ of the thread
  cur,          \* the function whose body runs
  interval,     \* interval and mutex set of the thread, as a counter
  log,          \* accesses recorded: [pos, addr, type, interval]
  done,         \* accesses performed, in the same form
  mem,          \* per address, the last instruction whose store took place
  asWritten     \* the same, had the body run as the user wrote it

vars == <<funcs, at, tls, linked, pc, status, cur, interval, log, done, mem, asWritten>>
passVars == <<funcs, at, tls, linked>>
runVars == <<status, cur, interval, log, done, mem, asWritten>>

Addrs == DOMAIN Bits
Atomics == {"atomic load", "atomic store", "rmw", "cas", "fence"}
Calls == {"call", "memset"}
RmwOps == {"exchange", "fetch_add", "fetch_sub", "fetch_and", "fetch_or",
           "fetch_xor", "fetch_nand", "max", "min", "umax", "umin"}

\* The instructions of a body; fn is the operation of an rmw, value the
\* address a store stores, where that is a named one.
Instrs ==
  {i \in [op : {"load", "store", "br"} \cup Atomics \cup Calls, addr : Addrs,
          fn : RmwOps \cup {"none"}, value : Addrs \cup {"none"}] :
     /\ i.op = "rmw" <=> i.fn # "none"
     /\ i.value # "none" => i.op = "store"}

ASSUME InstrumentAssumption ==
  /\ Bits \in [Addrs -> Nat \ {0}] /\ Alignment \in [Addrs -> Nat]
  /\ MaxStatus \in Nat \ {0}
  /\ \A s \in {Constant, Uncaptured, Profile, Bookkeeping, SwiftError} : s \subseteq Addrs
  /\ \A m \in Modules :
       m \in Seq([kind : {"main", "outlined", "other", "skipped"}, body : Seq(Instrs)])

-----------------------------------------------------------------------------
(* Which loads and stores to instrument.                                   *)

isAtomic(i) == i.op \in Atomics

\* The pointer is not profile data nor in another address space.
shouldInstrumentReadWriteFromAddress(a) == a \notin Profile

addrPointsToConstantData(a) == a \in Constant

\* Addresses the run local of body writes after its j-th element.
WriteTargets(body, local, j) ==
  {body[local[k]].addr : k \in {k \in j + 1..Len(local) :
      /\ body[local[k]].op = "store"
      /\ shouldInstrumentReadWriteFromAddress(body[local[k]].addr)}}

Selected(body, local, j) ==
  LET i == body[local[j]] IN
  /\ shouldInstrumentReadWriteFromAddress(i.addr)
  /\ i.op = "load" => /\ i.addr \notin WriteTargets(body, local, j)
                      /\ ~addrPointsToConstantData(i.addr)
  /\ i.addr \notin Uncaptured

\* An operand, the pointer or what a store stores, is named like a variable
\* of the OpenMP lowering.
NamesBookkeeping(i) == i.addr \in Bookkeeping \/ i.value \in Bookkeeping

\* The loop that erases the accesses of the OpenMP lowering from All: after
\* an erase the iterator is advanced past the element that moved up.
EraseVisit(body, all, acc, n) ==
  IF ~acc.skip /\ NamesBookkeeping(body[all[n]])
    THEN [acc EXCEPT !.skip = TRUE]
    ELSE [kept |-> Append(acc.kept, all[n]), skip |-> FALSE]

EraseBookkeeping(body, all) ==
  LET visited[n \in 0..Len(all)] ==
        IF n = 0 THEN [kept |-> <<>>, skip |-> FALSE]
                 ELSE EraseVisit(body, all, visited[n - 1], n)
  IN  visited[Len(all)].kept

\* Appends the selected elements of local, last one first, and prunes All.
ChooseVisit(body, local, acc, n) ==
  LET j == Len(local) + 1 - n IN
  IF Selected(body, local, j) THEN Append(acc, local[j]) ELSE acc

chooseInstructionsToInstrument(body, local, all) ==
  LET visited[n \in 0..Len(local)] ==
        IF n = 0 THEN all ELSE ChooseVisit(body, local, visited[n - 1], n)
  IN  EraseBookkeeping(body, visited[Len(local)])

\* Mutant: LocalLoadsAndStores is not emptied.
FlushKeeping(body, acc) ==
  [acc EXCEPT !.all = chooseInstructionsToInstrument(body, acc.local, @)]

\* At a call and at the end of a basic block: Local goes into All.
Flush(body, acc) ==
  [acc EXCEPT !.all = chooseInstructionsToInstrument(body, acc.local, @),
              !.local = <<>>]

\* Mutant: the end of a basic block does not flush.
VisitAcrossBlocks(body, acc, p) ==
  CASE isAtomic(body[p])                -> [acc EXCEPT !.atomics = Append(@, p)]
    [] body[p].op \in {"load", "store"} -> [acc EXCEPT !.local = Append(@, p)]
    [] body[p].op \in Calls             -> Flush(body, acc)
    [] OTHER                            -> acc

\* The traversal of runOnFunction.  Memory intrinsics are calls; they are
\* collected but nothing is done with them.
Visit(body, acc, p) ==
  CASE isAtomic(body[p])                -> [acc EXCEPT !.atomics = Append(@, p)]
    [] body[p].op \in {"load", "store"} -> [acc EXCEPT !.local = Append(@, p)]
    [] body[p].op \in Calls \cup {"br"} -> Flush(body, acc)

Collect(body) ==
  LET visited[p \in 0..Len(body)] ==
        IF p = 0 THEN [local |-> <<>>, all |-> <<>>, atomics |-> <<>>]
                 ELSE Visit(body, visited[p - 1], p)
  IN  Flush(body, visited[Len(body)])

-----------------------------------------------------------------------------
(* What is inserted.  A plan gives each instruction the callbacks called   *)
(* before it and whether the instruction itself remains.                   *)

\* Index of the callbacks for 1, 2, 4, 8 and 16 bytes, or -1.
getMemoryAccessFuncIndex(a) ==
  IF Bits[a] \in {8, 16, 32, 64, 128}
    THEN CHOOSE k \in 0..4 : 8 * 2 ^ k = Bits[a]
    ELSE -1

Untouched == [calls |-> <<>>, stays |-> TRUE]

\* __sword_read and __sword_write, or their unaligned versions.
instrumentLoadOrStore(i) ==
  LET aligned == \/ Alignment[i.addr] = 0 \/ Alignment[i.addr] >= 8
                 \/ Alignment[i.addr] % (Bits[i.addr] \div 8) = 0
  IN  IF i.addr \in SwiftError \/ getMemoryAccessFuncIndex(i.addr) < 0 THEN <<>>
      ELSE <<IF i.op = "store"
             THEN [fn |-> IF aligned THEN "write" ELSE "unaligned_write", type |-> "unsafe write"]
             ELSE [fn |-> IF aligned THEN "read" ELSE "unaligned_read", type |-> "unsafe read"]>>

\* SwordAtomicRMW: operations with a callback (not max, min, umax, umin).
RmwCallbacks == RmwOps \ {"max", "min", "umax", "umin"}

\* An atomic load is kept, though its uses now take the callback's result;
\* a store, read-modify-write, compare-and-swap or fence is replaced.
instrumentAtomic(i) ==
  LET Replaced(f, t) == [calls |-> <<[fn |-> f, type |-> t]>>, stays |-> FALSE]
  IN  CASE i.op = "fence" -> Replaced("thread_fence", "none")
        [] i.op # "fence" /\ getMemoryAccessFuncIndex(i.addr) < 0 -> Untouched
        [] OTHER ->
             CASE i.op = "atomic load"  ->
                    [Replaced("load", "atomic read") EXCEPT !.stays = TRUE]
               [] i.op = "atomic store" -> Replaced("store", "atomic write")
               [] i.op = "cas"          -> Replaced("compare_exchange_val", "atomic write")
               [] i.op = "rmw"          ->
                    IF i.fn \in RmwCallbacks THEN Replaced(i.fn, "atomic write")
                                             ELSE Untouched

\* One call per occurrence in AllLoadsAndStores, then the atomics.
Plan(body) ==
  LET c == Collect(body)
      Occurrences(p) == {k \in DOMAIN c.all : c.all[k] = p}
      CallsAt(p) ==
        LET once == instrumentLoadOrStore(body[p])
        IN  [k \in 1..Cardinality(Occurrences(p)) * Len(once) |-> once[1]]
  IN  [p \in 1..Len(body) |->
         IF p \in ToSet(c.atomics) THEN instrumentAtomic(body[p])
                                   ELSE [calls |-> CallsAt(p), stays |-> TRUE]]

\* The callbacks sword_interface.inl defines.
Provided == {"read", "write", "load", "store", "fetch_add", "fetch_sub",
             "compare_exchange_val"}

-----------------------------------------------------------------------------
(* runOnFunction.                                                          *)

Original(f) == [kind |-> f.kind, body |-> f.body, clone |-> 0,
                plan |-> [p \in 1..Len(f.body) |-> Untouched]]

Init ==
  /\ \E m \in Modules : funcs = [k \in 1..Len(m) |-> Original(m[k])]
  /\ at = 1 /\ tls = "absent"
  /\ linked = FALSE
  /\ pc = 0 /\ status = 0 /\ cur = 0 /\ interval = 0
  /\ log = <<>> /\ done = <<>>
  /\ mem = [a \in Addrs |-> 0] /\ asWritten = [a \in Addrs |-> 0]

Advance == at <= Len(funcs) /\ at' = at + 1 /\ UNCHANGED <<linked, pc, runVars>>

\* Destructors, reduction functions, functions available externally and the
\* clones the pass itself added.
SkipFunction ==
  /\ Advance
  /\ funcs[at].kind \in {"skipped", "clone"}
  /\ UNCHANGED <<funcs, tls>>

\* Mutant: only globals not declared yet are defined.
TLS_DECLARE_once == tls' = IF tls = "absent" THEN "defined" ELSE tls

\* Defines the globals, or turns the weak declarations into definitions.
TLS_DECLARE == tls' = "defined"

TLS_DECLARE_EXTERN == tls' = IF tls = "absent" THEN "weak" ELSE tls

\* main only gets the definitions; its body is left alone.
DeclareInMain ==
  /\ Advance
  /\ funcs[at].kind = "main"
  /\ TLS_DECLARE
  /\ UNCHANGED funcs

\* Functions .omp*: the bodies of parallel regions, instrumented in place.
InstrumentOutlined ==
  /\ Advance
  /\ funcs[at].kind = "outlined"
  /\ TLS_DECLARE_EXTERN
  /\ funcs' = [funcs EXCEPT ![at].plan = Plan(funcs[at].body)]

\* Any other function: the clone is instrumented, and the entry of the
\* original branches to it.
CloneFunction ==
  /\ Advance
  /\ funcs[at].kind = "other"
  /\ TLS_DECLARE_EXTERN
  /\ LET f == funcs[at] IN
     funcs' = Append([funcs EXCEPT ![at].clone = Len(funcs) + 1],
                     [f EXCEPT !.kind = "clone", !.plan = Plan(f.body)])

\* Everything called is defined by the runtime, or the program does not link.
Link ==
  /\ ~linked /\ at > Len(funcs)
  /\ \A f \in ToSet(funcs) : \A p \in DOMAIN f.body :
       \A c \in ToSet(f.plan[p].calls) : c.fn \in Provided
  /\ linked' = TRUE
  /\ UNCHANGED <<funcs, at, tls, pc, runVars>>

-----------------------------------------------------------------------------
(* A thread runs a compiled function.                                      *)

\* The branch at the entry: only at nesting level 1 to the clone.
Branch(f, s) == IF funcs[f].clone # 0 /\ s = 1 THEN funcs[f].clone ELSE f

\* An outlined function runs in a region; any other one anywhere.
Enter(f, s) ==
  /\ linked /\ cur = 0
  /\ funcs[f].kind \in {"outlined", "other"}
  /\ funcs[f].kind = "outlined" => s > 0
  /\ status' = s
  /\ cur' = Branch(f, s)
  /\ pc' = 1
  /\ UNCHANGED <<passVars, interval, log, done, mem, asWritten>>

Body == funcs[cur].body
Here == Body[pc]
Running == cur # 0 /\ pc \in 1..Len(Body)

Type(i) == CASE i.op = "load" -> "unsafe read"
             [] i.op \in {"store", "memset"} -> "unsafe write"
             [] i.op = "atomic load" -> "atomic read"
             [] i.op \in {"atomic store", "rmw", "cas"} -> "atomic write"
             [] OTHER -> "none"

Writes(i) == Type(i) \in {"unsafe write", "atomic write"}

Entry(t) == [pos |-> pc, addr |-> Here.addr, type |-> t, interval |-> interval]

\* The callbacks of the instruction, which only record, then the
\* instruction itself where the pass left it.
Perform ==
  LET step == funcs[cur].plan[pc] IN
  /\ log' = log \o [k \in 1..Len(step.calls) |-> Entry(step.calls[k].type)]
  /\ done' = IF Type(Here) = "none" THEN done ELSE Append(done, Entry(Type(Here)))
  /\ mem' = IF Writes(Here) /\ step.stays THEN [mem EXCEPT ![Here.addr] = pc] ELSE mem
  /\ asWritten' = IF Writes(Here) THEN [asWritten EXCEPT ![Here.addr] = pc] ELSE asWritten

Access ==
  /\ Running /\ Here.op \notin {"call", "br"}
  /\ Perform
  /\ pc' = pc + 1
  /\ UNCHANGED <<passVars, status, cur, interval>>

\* The callee may pass a barrier, or take or release a lock.
Call ==
  /\ Running /\ Here.op = "call"
  /\ interval' = interval + 1
  /\ pc' = pc + 1
  /\ UNCHANGED <<passVars, status, cur, log, done, mem, asWritten>>

\* To the start of a later block, or to the return.
Jump ==
  /\ Running /\ Here.op = "br"
  /\ \E p \in pc + 1..Len(Body) + 1 :
       /\ p <= Len(Body) => Body[p - 1].op = "br"
       /\ pc' = p
  /\ UNCHANGED <<passVars, runVars>>

Next ==
  \/ SkipFunction \/ DeclareInMain \/ InstrumentOutlined \/ CloneFunction \/ Link
  \/ \E f \in DOMAIN funcs, s \in 0..MaxStatus : Enter(f, s)
  \/ Access \/ Call \/ Jump

Spec == Init /\ [][Next]_vars

-----------------------------------------------------------------------------
Returned == cur # 0 /\ pc = Len(Body) + 1
Instrumented == cur # 0 /\ (funcs[cur].kind = "clone" \/ funcs[cur].kind = "outlined")

\* The stores to the address of the load at p behind it, up to the next call
\* or the end of the block.
WritesBehind(body, p) ==
  {q \in p + 1..Len(body) :
     /\ body[q].op = "store" /\ body[q].addr = body[p].addr
     /\ \A k \in p..q : body[k].op \notin Calls \cup {"br"}}

\* The access is one the pass leaves out by what it knows of its operands or
\* its operation alone; or a read left out for writes all of which store the
\* address of a bookkeeping variable and are themselves left out for it.
Exempt(e) ==
  \/ Body[e.pos].value \in Bookkeeping
  \/ /\ e.type = "unsafe read" /\ WritesBehind(Body, e.pos) # {}
     /\ \A q \in WritesBehind(Body, e.pos) : Body[q].value \in Bookkeeping
  \/ Body[e.pos].op = "memset" \/ Body[e.pos].fn \in {"max", "min", "umax", "umin"}
  \/ e.addr \in Profile \cup Uncaptured \cup Bookkeeping \cup SwiftError
  \/ getMemoryAccessFuncIndex(e.addr) < 0
  \/ e.addr \in Constant /\ e.type = "unsafe read"

(* When an instrumented function returns, every load, store and atomic it  *)
(* performed has a record of its address in its own interval, a write one  *)
(* of a write: a read left out because a write follows (the redundancy the *)
(* comment of chooseInstructionsToInstrument describes) is covered by that *)
(* write on every path, under the same mutexes.  Memory intrinsics and     *)
(* atomic minima and maxima are not instrumented and are not covered.      *)
AccessesCovered ==
  Returned /\ Instrumented =>
    \A e \in ToSet(done) :
      ~Exempt(e) =>
        \E r \in ToSet(log) :
          /\ r.addr = e.addr /\ r.interval = e.interval
          /\ r.type = e.type \/ (e.type = "unsafe read" /\ r.type = "unsafe write")

(* The log holds an access once, of its own type, and only from code that  *)
(* runs in a parallel region: outlined functions, and the others through   *)
(* their clone at nesting level 1 (__sword_status__ == 1 at the entry).    *)
RecordsExact ==
  /\ \A r \in ToSet(log) : r.type = "none" \/ r \in ToSet(done)
  /\ IsInjective(log)
  /\ log # <<>> => funcs[cur].kind = "outlined" \/ status = 1

(* Wherever main stands among the functions of its module, the globals     *)
(* that the runtime only declares (sword_rtl.h:82-93) end up defined.      *)
GlobalsDefined ==
  linked /\ (\E f \in ToSet(funcs) : f.kind = "main") => tls = "defined"

(* "Both llvm and InstrumentParallel atomic operations are based on        *)
(* C++11/C1x standards" (InstrumentParallel.cpp:830): an atomic operation  *)
(* the pass replaces has the effect it has in the program, and when the    *)
(* function returns, memory is as the body left it.                        *)
AtomicsPerformed == Returned => mem = asWritten

=============================================================================
