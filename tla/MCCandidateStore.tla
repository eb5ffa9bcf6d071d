--------------------------- MODULE MCCandidateStore ---------------------------
(* Instances of CandidateStore for TLC. *)
EXTENDS CandidateStore, TLC

CONSTANTS c1, c2

\* Two candidates of one height and shares of that height and the next.
SameHeight == c1 :> 1 @@ c2 :> 1
CandidateSymmetry == Permutations({c1, c2})

\* Once a verdict is recorded, one candidate is sent at most, no answer is lost and
\* nothing is looked up, no delivery is claimed and no higher share comes.  Of the four
\* verdicts that two shares can get, three are recorded at most.
VerdictBound ==
    \/ \A v \in Shares \X VerdictKinds : verdicts'[v] = NoVerdict
    \/ /\ \E v \in Shares \X VerdictKinds : verdicts'[v] = NoVerdict
       /\ \A c \in Candidates :
             /\ \A n \in AttemptNumbers : attempts'[c][n] # "indeterminate"
             /\ \A l \in Lookups : reconciliations'[c][l] = "none"
             /\ deliveries'[c] \in {"none", "pending"}
       /\ \E c \in Candidates : \A d \in Candidates \ {c} : candidates'[d].attempt_count = 0
       /\ \A r \in 1..last_round_id' : rounds'[r].max_share_height <= 1

BoundedStoreSpec == StoreInit /\ [][StoreNext /\ VerdictBound]_storeVars
=============================================================================
