--------------------------- MODULE MCSwordRuntime ---------------------------
(* SwordRuntime with two kinds of programs: consecutive regions with       *)
(* barriers, whose items matter, and nested regions with a taskwait on     *)
(* three threads.                                                          *)
EXTENDS SwordRuntime

MCPrograms ==
  {[threads |-> {0, 1}, levels |-> 1, taskwaits |-> 0, regions |-> 2,
    barriers |-> 2, items |-> 2],
   [threads |-> {0, 1, 2}, levels |-> 2, taskwaits |-> 1, regions |-> 3,
    barriers |-> 0, items |-> 0]}
=============================================================================
