------------------------------- MODULE MCRbTree -------------------------------
(* Nine nodes; two pairs have the same interval, one pair the same start.  *)
EXTENDS RbTreeOrder

MCStart == [n \in Nodes |-> <<1, 2, 2, 3, 4, 4, 5, 6, 6>>[n]]
MCLast  == [n \in Nodes |-> <<5, 2, 2, 6, 4, 7, 5, 6, 6>>[n]]
=============================================================================
