------------------------------ MODULE MCCache -------------------------------
(* Instances of Cache for TLC; its constants are given in the               *)
(* configurations.  No symmetry: the run checks liveness too.               *)
EXTENDS Cache
=============================================================================
