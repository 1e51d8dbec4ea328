----------------------------- MODULE MCSession ------------------------------
(* The default folder, one named with a separator at its end, one that     *)
(* cannot be created; command lines of the printer that are complete, or   *)
(* lack a value, or hold an unknown option, or ask for help.               *)
EXTENDS Session

MCLines ==
  {<<"--executable", "app", "--report-path", "report">>,
   <<"--executable", "app", "--report-path">>,
   <<"--executable", "app", "--verbose", "--report-path", "report">>,
   <<"--help">>}
=============================================================================
