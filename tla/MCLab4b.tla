------------------------------- MODULE MCLab4b -------------------------------
(***************************************************************************)
(* Lab4b for TLC: inputs of up to three lines, each of which a read may   *)
(* cut anywhere; a period that lets every round of the loop report (0), and *)
(* one that does not (1).                                                   *)
(***************************************************************************)
EXTENDS Lab4b

MCScripts ==
  {<<"LOG ", "STOP", "NL", "OFF", "NL">>,
   <<"STOP", "NL", "SCALE=C", "NL", "START", "NL">>,
   <<"LOG ", "PERIOD=", "2", "NL">>}

MCPeriods == {0, 1}

MCNames ==
  {"LOG ", "STOP", "START", "OFF", "SCALE=C", "SCALE=F", "PERIOD=", "2", "NL",
   "time", "temp", "F", "C", "SHUTDOWN",
   "init", "gettimeofday", "print_current_time", "print_current_temp", "poll",
   "process_input", "fclose", "close", "exit"}

MCMaxTime == 1
MCMaxLog == 4
=============================================================================
