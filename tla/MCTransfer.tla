----------------------------- MODULE MCTransfer -----------------------------
(***************************************************************************)
(* Transfer with small constants for TLC.                                  *)
(***************************************************************************)
EXTENDS Transfer, TLC

CONSTANTS c1, c2, k1, k2, k3

TwoClients == {c1, c2}
OneClient == {c1}
ThreeConns == {k1, k2, k3}
TwoConns == {k1, k2}

\* Nothing tells one client or one connection from another.  Used by the run
\* that checks no liveness.
Interchangeable == Permutations(TwoClients) \cup Permutations(ThreeConns)
=============================================================================
