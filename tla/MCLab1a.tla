------------------------------- MODULE MCLab1a -------------------------------
(***************************************************************************)
(* Lab1a for TLC: scripts of up to four bytes with lines, a ^C or a ^D in  *)
(* the middle and at the end, and typing that goes on after them.          *)
(***************************************************************************)
EXTENDS Lab1a

MCScripts ==
  {<<"LF", "EOT", "x">>, <<"x", "CR", "EOT">>, <<"CR", "LF", "x", "LF">>,
   <<"ETX", "x", "LF">>, <<"x", "ETX", "LF", "EOT">>}

MCOutputPieces == {<<"x", "LF">>, <<"EOT", "x">>}

MCMaxOutput == 3
=============================================================================
