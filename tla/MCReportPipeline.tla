-------------------------- MODULE MCReportPipeline ---------------------------
(* Two regions, the first with two barrier intervals, and races between an *)
(* instruction and itself and between two instructions in either order.    *)
EXTENDS ReportPipeline

MCIntervals == {<<1, 0>>, <<1, 1>>, <<2, 0>>}
MCRaces == {<<1, 1>>, <<1, 2>>, <<2, 1>>}
MCMaxRaces == [i \in MCIntervals |-> IF i = <<1, 0>> THEN 2 ELSE 1]
=============================================================================
