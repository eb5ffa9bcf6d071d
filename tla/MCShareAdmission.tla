-------------------------- MODULE MCShareAdmission --------------------------
(* Instances of ShareAdmission for TLC. *)
EXTENDS ShareAdmission

CONSTANTS k1, x, y

MCKeys == (1..MaxJobs) \X Nonces

\* The second job is harder: x is a share of the first one only.
MCWeak == {<<2, x>>}

\* A third job comes only after the second has retired the first.
JobBound == Len(jobs') = 3 => jobs'[1].height < jobs'[2].height

BoundedAdmissionSpec == Init /\ [][Next /\ JobBound]_vars
=============================================================================
