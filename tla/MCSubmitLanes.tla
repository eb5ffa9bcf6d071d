---------------------------- MODULE MCSubmitLanes ----------------------------
(* Instances of SubmitLanes for TLC. *)
EXTENDS SubmitLanes

CONSTANTS c1, i1, i2, i3, w1, k1
=============================================================================
