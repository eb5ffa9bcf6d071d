-------------------------- MODULE CandidateStoreInv ---------------------------
(***************************************************************************)
(* The inductive invariant of CandidateStore and the parts it is made of,  *)
(* with the shapes of steps that CandidateProofs reasons about.            *)
(***************************************************************************)
EXTENDS CandidateStore

-----------------------------------------------------------------------------
AcceptStep ==
    \E c \in Candidates, state \in Accepted :
        CanAccept(c, Unresolved) /\ AcceptInTransaction(c, state)

QuietStep ==
    /\ last_round_id' = last_round_id
    /\ \A r \in 1..last_round_id :
          /\ rounds'[r].state = rounds[r].state
          /\ rounds'[r].accepted_candidate = rounds[r].accepted_candidate
    /\ \A c \in Candidates :
          /\ candidates[c].state \in Accepted \cup {"rejected"} =>
                candidates'[c].state = candidates[c].state
          /\ candidates'[c].state \in Accepted => candidates[c].state \in Accepted
          /\ candidates[c].state # "absent" => candidates'[c].round_id = candidates[c].round_id
          /\ deliveries'[c] = "none" <=> deliveries[c] = "none"

\* What the three invariants say of each other: only with all of them is each
\* preserved.
RoundsInv == StoreTypeOK /\ OneOpenRound /\ RoundsMatchAcceptances /\ NotifiedIffAccepted

-----------------------------------------------------------------------------
\* The ledger cannot see how far a submission or a delivery got.
SameOutcome(c) ==
    \/ candidates'[c].state = candidates[c].state
    \/ candidates[c].state \in Unresolved /\ candidates'[c].state \in Unresolved

Owed == {"pending", "running", "retry_wait"}

SameHook(c) ==
    \/ deliveries'[c] = deliveries[c]
    \/ deliveries[c] \in Owed /\ deliveries'[c] \in Owed

OthersSame(c) == \A d \in Candidates \ {c} : SameOutcome(d) /\ SameHook(d)

\* The steps that are not acceptances, as the ledger sees them.
Invisible == \A c \in Candidates : SameOutcome(c) /\ SameHook(c)

Opens(c) ==
    /\ candidates[c].state = "absent" /\ candidates'[c].state \in Unresolved
    /\ SameHook(c) /\ OthersSame(c)

Rejects(c) ==
    /\ candidates[c].state \in Unresolved /\ candidates'[c].state = "rejected"
    /\ SameHook(c) /\ OthersSame(c)

Delivers(c) ==
    /\ deliveries[c] \in Owed /\ deliveries'[c] = "delivered"
    /\ SameOutcome(c) /\ OthersSame(c)

LedgerStep == Invisible \/ \E c \in Candidates : Opens(c) \/ Rejects(c) \/ Delivers(c)

\* A step that is not an acceptance keeps the closed rounds and their winners.
SameRounds ==
    /\ last_round_id' = last_round_id
    /\ [r \in 1..(last_round_id - 1) |-> rounds[r].accepted_candidate]'
          = [r \in 1..(last_round_id - 1) |-> rounds[r].accepted_candidate]

CandidatesFit ==
    \A c \in Candidates :
        candidates[c].state # "absent" =>
            /\ candidates[c].round_id \in 1..last_round_id
            /\ CandidateHeight[c] <= rounds[candidates[c].round_id].max_share_height

OriginsFit ==
    \A c \in Candidates : \A r \in origin_rounds[c] :
        CandidateHeight[c] <= rounds[r].max_share_height

HeightsInv == RoundsInv /\ CandidatesFit /\ OriginsFit /\ ClosedRoundEndsAtItsBlock

\* The steps that only concern attempts, lookups, verdicts and deliveries.
LeavesHeights ==
    /\ UNCHANGED <<rounds, last_round_id, origin_rounds>>
    /\ \A c \in Candidates :
          /\ candidates'[c].state # "absent" => candidates[c].state # "absent"
          /\ candidates'[c].round_id = candidates[c].round_id

-----------------------------------------------------------------------------
Verdicts == Shares \X VerdictKinds

EventsAreTold ==
    \A v \in Verdicts :
        verdicts[v].abuse_event # NoEvent =>
            /\ verdicts[v].abuse_event.kind = AbuseKind(v[2])
            /\ verdicts[v].abuse_event.candidate_id = NoCandidate =>
                  verdicts[v].abuse_event.share_id = v[1]

\* EvidenceChargedOnce in parts.
EventsAreUnique ==
    \A e, f \in abuse_events :
        e.candidate_id # NoCandidate /\ e.candidate_id = f.candidate_id /\ e.kind = f.kind => e = f

EventsBackOne ==
    \A v, w \in Verdicts :
        verdicts[v].abuse_event # NoEvent /\ verdicts[v].abuse_event = verdicts[w].abuse_event => v = w

EventsAreDeserved ==
    \A e \in abuse_events : e.candidate_id # NoCandidate => candidates[e.candidate_id].state = "rejected"

EvidenceInv ==
    /\ StoreTypeOK /\ PendingOnlyWhileUnresolved
    /\ EventsAreTold /\ EventsAreUnique /\ EventsBackOne /\ EventsAreDeserved /\ VerdictsAreBooked

\* Nothing is settled.
Unsettling ==
    /\ UNCHANGED verdictVars
    /\ \A c \in Candidates :
          /\ candidates[c].state \in Unresolved => candidates'[c].state \in Unresolved
          /\ candidates[c].state = "rejected" => candidates'[c].state = "rejected"

RejectStep(c, trusted) ==
    /\ candidates[c].state = "dispatching" /\ candidates'[c].state = "rejected"
    /\ \A d \in Candidates \ {c} : candidates'[d] = candidates[d]
    /\ verdicts' = ResolveRejectedVerdicts(c)
    /\ abuse_events' = ResolvedEvents(c) \cup TrustedRejectionEvents(c, trusted)

===============================================================================
