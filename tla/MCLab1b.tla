------------------------------- MODULE MCLab1b -------------------------------
(***************************************************************************)
(* Lab1b for TLC: scripts of up to three bytes with lines, a ^C or a ^D in *)
(* the middle and at the end, and typing that goes on after them.          *)
(***************************************************************************)
EXTENDS Lab1b

MCScripts ==
  {<<"LF", "EOT", "x">>, <<"x", "CR", "EOT">>, <<"CR", "LF", "x">>,
   <<"ETX", "x", "LF">>, <<"x", "ETX", "EOT">>}

MCOutputPieces == {<<"x", "LF">>, <<"EOT", "x">>}

MCMaxOutput == 3

MCCompress == {FALSE, TRUE}

MCUncompressed == {FALSE}
=============================================================================
