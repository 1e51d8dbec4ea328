----------------------------- MODULE IntervalLog -----------------------------
(***************************************************************************)
(* What the trace of one OpenMP thread promises to the offline analysis: a *)
(* log of items, cut into consecutive intervals.  Every closed interval    *)
(* spans exactly the items the thread stored since the previous cut.  The  *)
(* buffers, the asynchronous writer and the byte offsets of the runtime do *)
(* not appear: TraceBuffer implements this specification.                  *)
(***************************************************************************)
EXTENDS Naturals, Sequences

VARIABLES
  count,    \* number of items the thread has stored
  closed    \* the closed intervals: items lo+1 .. hi of the log

(* The number of items stored when the last interval was closed.           *)
LastCut == IF closed = << >> THEN 0 ELSE closed[Len(closed)].hi

Init ==
  /\ count = 0
  /\ closed = << >>

(* The thread stores one item in its trace.                                *)
Store ==
  /\ count' = count + 1
  /\ UNCHANGED closed

(* The thread cuts the log: what it stored since the last cut is one       *)
(* interval, possibly an empty one.                                        *)
Cut ==
  /\ closed' = Append(closed, [lo |-> LastCut, hi |-> count])
  /\ UNCHANGED count

Next == Store \/ Cut

Spec == Init /\ [][Next]_<<count, closed>>
=============================================================================
