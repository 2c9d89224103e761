----------------------------- MODULE MCLab2bList -----------------------------
(***************************************************************************)
(* Lab2bList for TLC: two threads with two elements each over two sublists *)
(* and over one, one thread with three, two threads that race without      *)
(* locks, and the runs without elements or without lists.                  *)
(***************************************************************************)
EXTENDS Lab2bList

Line(t, i, s, l) == [threads |-> t, iterations |-> i, sync_type |-> s, lists |-> l]

MCCommandLines ==
  {Line(2, 2, "m", 2), Line(2, 2, "s", 1), Line(1, 3, "none", 2),
   Line(2, 1, "none", 1), Line(2, 0, "m", 2), Line(0, 1, "s", 1), Line(1, 1, "m", 0),
   Line(1, 0, "none", 0)}

\* Equal keys, keys that share a sublist (1 and 3 of two), and keys that do not.
MCKeyStreams ==
  {<<1, 1, 1, 1>>, <<1, 3, 3, 1>>, <<3, 1, 1, 3>>, <<1, 2, 1, 2>>, <<1, 2, 3, 2>>,
   <<2, 1, 3, 1>>}
=============================================================================
