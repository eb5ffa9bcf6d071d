--------------------------- MODULE MCSeedRotation ---------------------------
(* Instances of SeedRotation for TLC. *)
EXTENDS SeedRotation

CONSTANTS c1, x1

MCSeedIds == 1..5
MCHashes == 1..8
=============================================================================
