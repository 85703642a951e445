------------------------------- MODULE MCLog -------------------------------
(***************************************************************************)
(* Log with two threads and a word of a few bits for TLC.                  *)
(***************************************************************************)
EXTENDS Log, TLC

Interchangeable == Permutations(Threads)
=============================================================================
