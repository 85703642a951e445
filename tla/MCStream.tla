------------------------------ MODULE MCStream ------------------------------
(***************************************************************************)
(* Stream with bytes of two values for TLC.                                *)
(***************************************************************************)
EXTENDS Stream
=============================================================================
