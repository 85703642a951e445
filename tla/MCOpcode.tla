------------------------------ MODULE MCOpcode ------------------------------
(***************************************************************************)
(* Opcode with a word of a few bits for TLC.  Names are interchangeable.   *)
(***************************************************************************)
EXTENDS Opcode, TLC

Interchangeable == Permutations(Names)
=============================================================================
