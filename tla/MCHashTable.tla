---------------------------- MODULE MCHashTable -----------------------------
(***************************************************************************)
(* HashTable with few addresses for TLC.                                   *)
(***************************************************************************)
EXTENDS HashTable

CONSTANTS a1, a2, a3, b1, b2

ThreeAddresses == {a1, a2, a3}
TwoBlocks == {b1, b2}
SomeKeys == 0..4
=============================================================================
