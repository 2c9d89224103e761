----------------------------- MODULE MCLab2aList -----------------------------
(***************************************************************************)
(* Lab2aList for TLC: protected runs of two threads with two elements each *)
(* and of three with one, unprotected runs of two threads with one element *)
(* each and of one thread with three, and the runs without elements.       *)
(***************************************************************************)
EXTENDS Lab2aList

Line(t, i, s) == [threads |-> t, iterations |-> i, sync_type |-> s]

MCCommandLines ==
  {Line(2, 2, "m"), Line(2, 2, "s"), Line(3, 1, "m"), Line(3, 1, "s"),
   Line(1, 3, "none"), Line(2, 1, "none"), Line(2, 0, "s"), Line(0, 1, "none")}

\* Two threads that race, as in the project's own tests of the missing lock.
MCRacingLines == {Line(2, 1, "none")}

\* The program only compares keys, so three distinct ones stand for any: of the
\* streams that use one or two, only those with the smallest ones are kept.
MCKeyStreams ==
  {r \in [1..4 -> 1..3] :
     {r[i] : i \in 1..4} \in {1..1, 1..2, 1..3}}
=============================================================================
