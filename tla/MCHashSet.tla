------------------------------ MODULE MCHashSet ------------------------------
(* HashSet and its copies on tables of four and eight buckets, with keys   *)
(* that collide.                                                           *)
EXTENDS HashSetCopies
=============================================================================
