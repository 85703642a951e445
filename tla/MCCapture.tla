----------------------------- MODULE MCCapture -----------------------------
(***************************************************************************)
(* Capture with a short archive and records of a few cells for TLC.        *)
(***************************************************************************)
EXTENDS Capture
=============================================================================
