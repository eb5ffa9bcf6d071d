-------------------------- MODULE MCCandidateRuntime --------------------------
(* CandidateRuntime for model checking: the heights of the candidates. *)
EXTENDS CandidateRuntime, TLC

CONSTANTS c1, c2, c3

OneHeight == [c \in {c1} |-> 1]

\* c1 and c2 compete for one height, c3 follows.
SiblingHeights == c1 :> 1 @@ c2 :> 1 @@ c3 :> 2
=============================================================================
