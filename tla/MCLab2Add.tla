------------------------------ MODULE MCLab2Add ------------------------------
(***************************************************************************)
(* Lab2Add for TLC: every --sync option with two threads and up to two     *)
(* iterations, three threads with one, and the empty runs.                 *)
(***************************************************************************)
EXTENDS Lab2Add

Lines(ts, is) ==
  [threads : ts, iterations : is, sync_type : SyncTypes]

MCCommandLines == Lines({0, 1, 2}, {0, 1, 2}) \cup Lines({3}, {1})
=============================================================================
