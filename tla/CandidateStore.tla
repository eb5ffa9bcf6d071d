---------------------------- MODULE CandidateStore ----------------------------
(***************************************************************************)
(* The durable candidate layer of src/src/db/database.cpp: the tables      *)
(* candidates, candidate_attempts, candidate_reconciliations, rounds,      *)
(* blocknotify_deliveries and (from CandidateVerdicts) candidate_verdicts  *)
(* and abuse_events.  There is one action per Database operation that      *)
(* commits; a call whose require() fails throws, rolls back and is a       *)
(* stuttering step.  Next lets any caller make any call in any order, so   *)
(* what holds here holds whatever the runtime does.                        *)
(***************************************************************************)
EXTENDS CandidateVerdicts

CONSTANTS
    CandidateHeight,    \* the height inside a candidate's frozen block
    Heights,            \* heights of jobs and shares
    MaxAttempts,        \* candidates.max_attempts (daemon.submit_attempts)
    MaxCycle,           \* reconciliation cycle numbers saturate here
    LookupKinds,        \* lookups of one cycle: by expected hash, by height
    BlocknotifyEnabled  \* DatabaseOptions::blocknotify_enabled

ASSUME HeightsAssumption ==
    Heights \subseteq Nat \ {0} /\ CandidateHeight \in [Candidates -> Heights]
ASSUME MaxAttemptsAssumption == MaxAttempts \in Nat \ {0}
ASSUME MaxCycleAssumption == MaxCycle \in Nat \ {0}
ASSUME LookupKindsAssumption == LookupKinds \subseteq {"expected_hash", "height"}
ASSUME BlocknotifyAssumption == BlocknotifyEnabled \in BOOLEAN

VARIABLES
    candidates,       \* candidates row of each key
    attempts,         \* classification of each candidate_attempts row
    reconciliations,  \* classification of each candidate_reconciliations row
    rounds,           \* rounds rows, by id
    last_round_id,    \* highest rounds.id
    origin_rounds,    \* rounds of the shares that carry a key not yet journaled
    deliveries        \* blocknotify_deliveries.state of each candidate

verdictVars == <<verdicts, abuse_events>>
storeVars == <<candidates, attempts, reconciliations, rounds, last_round_id,
               origin_rounds, deliveries, verdicts, abuse_events>>

Unresolved == {"journaled", "dispatching", "retry_wait", "ambiguous"}
Accepted == {"accepted", "accepted_by_reconciliation"}
CandidateStates == {"absent", "rejected"} \cup Unresolved \cup Accepted
Dispatchable == {"journaled", "retry_wait", "dispatching"}

AttemptNumbers == 1..MaxAttempts
Cycles == 1..MaxCycle
Lookups == Cycles \X LookupKinds

AttemptClasses == {"accepted", "explicit_rejection", "indeterminate"}
\* "inconclusive" stands for indeterminate evidence too: no code tells the two
\* apart.
LookupClasses == {"positive", "inconclusive"}

CandidateRows ==
    [state : CandidateStates, round_id : Nat, attempt_count : 0..MaxAttempts,
     had_indeterminate : BOOLEAN, cycle_count : 0..MaxCycle, exhausted : BOOLEAN]

RoundRows ==
    [state : {"open", "closed"}, accepted_candidate : Candidates \cup {NoCandidate},
     max_share_height : Heights \cup {0}]

AbsentRow == [state |-> "absent", round_id |-> 0, attempt_count |-> 0,
              had_indeterminate |-> FALSE, cycle_count |-> 0, exhausted |-> FALSE]

OpenRound == [state |-> "open", accepted_candidate |-> NoCandidate, max_share_height |-> 0]

\* The type of every table.
StoreTypeOK ==
    /\ candidates \in [Candidates -> CandidateRows]
    /\ attempts \in [Candidates -> [AttemptNumbers -> AttemptClasses \cup {"none", "dispatching"}]]
    /\ reconciliations \in [Candidates -> [Lookups -> LookupClasses \cup {"none", "querying"}]]
    /\ last_round_id \in Nat \ {0}
    /\ rounds \in [1..last_round_id -> RoundRows]
    /\ origin_rounds \in [Candidates -> SUBSET (1..last_round_id)]
    /\ deliveries \in [Candidates -> {"none", "pending", "running", "retry_wait", "delivered"}]
    /\ VerdictsTypeOK

StoreInit ==
    /\ candidates = [c \in Candidates |-> AbsentRow]
    /\ attempts = [c \in Candidates |-> [n \in AttemptNumbers |-> "none"]]
    /\ reconciliations = [c \in Candidates |-> [l \in Lookups |-> "none"]]
    /\ last_round_id = 1
    /\ rounds = [r \in 1..1 |-> OpenRound]
    /\ origin_rounds = [c \in Candidates |-> {}]
    /\ deliveries = [c \in Candidates |-> "none"]
    /\ VerdictsInit

-----------------------------------------------------------------------------
OpenRounds == {r \in 1..last_round_id : rounds[r].state = "open"}

Higher(a, b) == IF a > b THEN a ELSE b

\* Mutant: the height of the round's shares is not compared.
HasHigherShareNever(r, h) == FALSE

HasHigherShare(r, h) == rounds[r].max_share_height > h

\* insert_share (followed, for a share that carries candidate key c, by
\* ensure_share_persisted): the share belongs to the open round and raises its
\* maximum height.
InsertShare(h, c) ==
    /\ c \in Candidates => CandidateHeight[c] = h
    /\ \E r \in OpenRounds :
         /\ OpenRounds = {r}
         /\ rounds' = [rounds EXCEPT ![r].max_share_height = Higher(@, h)]
         /\ origin_rounds' = [d \in Candidates |->
                                 IF d = c /\ candidates[c].state = "absent"
                                 THEN origin_rounds[d] \cup {r} ELSE origin_rounds[d]]
    /\ UNCHANGED <<candidates, attempts, reconciliations, last_round_id, deliveries, verdictVars>>

\* The share of c in round r may found the candidate: otherwise
\* journal_candidate answers round_contaminated and writes nothing.
Uncontaminated(c, r) ==
    rounds[r].state = "open" /\ ~HasHigherShare(r, CandidateHeight[c])

\* Mutant: a verdict that is already charged is linked, too.
LinkableAlways(v, c) == verdicts[v].candidate_key = c /\ verdicts[v].candidate_id = NoCandidate

\* A verdict that waits for the key c to be journaled.
Linkable(v, c) ==
    /\ verdicts[v].candidate_key = c
    /\ verdicts[v].candidate_id = NoCandidate
    /\ verdicts[v].disposition = "pending"

JournalCandidate(c, r) ==
    /\ candidates[c].state = "absent"
    /\ r \in origin_rounds[c]
    /\ Uncontaminated(c, r)
    /\ candidates' = [candidates EXCEPT
                        ![c] = [AbsentRow EXCEPT !.state = "journaled", !.round_id = r]]
    /\ verdicts' = [v \in Shares \X VerdictKinds |->
                       IF Linkable(v, c) THEN [verdicts[v] EXCEPT !.candidate_id = c]
                       ELSE verdicts[v]]
    /\ origin_rounds' = [origin_rounds EXCEPT ![c] = {}]
    /\ UNCHANGED <<attempts, reconciliations, rounds, last_round_id, deliveries, abuse_events>>

-----------------------------------------------------------------------------
\* The require()s of start_candidate_attempt, the durable dispatch barrier.
CanStartAttempt(c, n) ==
    /\ candidates[c].state \in Dispatchable
    /\ n \in AttemptNumbers
    /\ n = candidates[c].attempt_count + 1

StartCandidateAttempt(c, n) ==
    /\ CanStartAttempt(c, n)
    /\ attempts' = [attempts EXCEPT ![c][n] = "dispatching"]
    /\ candidates' = [candidates EXCEPT ![c].state = "dispatching", ![c].attempt_count = n]
    /\ UNCHANGED <<reconciliations, rounds, last_round_id, origin_rounds, deliveries, verdictVars>>

\* Mutant: the candidate's round need not be the open one.
CanAcceptInAnyRound(c, eligible) ==
    /\ candidates[c].state \in eligible
    /\ ~HasHigherShare(candidates[c].round_id, CandidateHeight[c])

\* The require()s of accept_candidate_in_transaction.
CanAccept(c, eligible) ==
    /\ candidates[c].state \in eligible
    /\ OpenRounds = {candidates[c].round_id}
    /\ ~HasHigherShare(candidates[c].round_id, CandidateHeight[c])

\* Mutant: the round gets its block but stays open.
ClosedByLeftOpen(c, r) == [rounds[r] EXCEPT !.accepted_candidate = c]

ClosedBy(c, r) == [rounds[r] EXCEPT !.state = "closed", !.accepted_candidate = c]

\* Mutant: the acceptance does not insert the notification.
OwedDeliveryForgotten(c) == deliveries[c]

OwedDelivery(c) ==
    IF BlocknotifyEnabled /\ deliveries[c] = "none" THEN "pending" ELSE deliveries[c]

\* accept_candidate_in_transaction: the candidate, its round, the next round,
\* the pending verdicts and the notification change together.
AcceptInTransaction(c, state) ==
    /\ candidates' = [candidates EXCEPT ![c].state = state]
    /\ last_round_id' = last_round_id + 1
    /\ rounds' = [r \in 1..(last_round_id + 1) |->
                     IF r = last_round_id + 1 THEN OpenRound
                     ELSE IF r = candidates[c].round_id THEN ClosedBy(c, r)
                     ELSE rounds[r]]
    /\ deliveries' = [deliveries EXCEPT ![c] = OwedDelivery(c)]
    /\ verdicts' = SuppressPendingVerdicts(c)
    /\ UNCHANGED <<origin_rounds, abuse_events>>

\* finish_candidate_attempt acts on the active attempt while it is dispatching;
\* on a finished one it only reports the state.
ActiveAttempt(c, n) ==
    /\ n \in AttemptNumbers
    /\ candidates[c].attempt_count = n
    /\ attempts[c][n] = "dispatching"

ClassifyAttempt(c, n, class) == attempts' = [attempts EXCEPT ![c][n] = class]

\* A reconciliation accepted the candidate while the attempt was on the wire:
\* only the attempt's evidence is closed.
FinishAttemptAfterAcceptance(c, n, class) ==
    /\ ActiveAttempt(c, n)
    /\ candidates[c].state \in Accepted
    /\ ClassifyAttempt(c, n, class)
    /\ UNCHANGED <<candidates, reconciliations, rounds, last_round_id, origin_rounds,
                   deliveries, verdictVars>>

FinishAttemptAccepted(c, n) ==
    /\ ActiveAttempt(c, n)
    /\ CanAccept(c, Dispatchable)
    /\ ClassifyAttempt(c, n, "accepted")
    /\ AcceptInTransaction(c, "accepted")
    /\ UNCHANGED reconciliations

\* Mutant: a late failure is applied in every state.
StillDispatchingIgnored(c) == TRUE

StillDispatching(c) == candidates[c].state = "dispatching"

\* Mutant: only the last attempt's evidence decides.
StateAfterFailureLastOnly(c, n, class) ==
    IF n < MaxAttempts THEN "retry_wait"
    ELSE IF class = "indeterminate" THEN "ambiguous"
    ELSE "rejected"

\* The state after attempt n failed with evidence class.
StateAfterFailure(c, n, class) ==
    IF n < MaxAttempts THEN "retry_wait"
    ELSE IF candidates[c].had_indeterminate \/ class = "indeterminate" THEN "ambiguous"
    ELSE "rejected"

FinishAttemptFailed(c, n, class, trusted) ==
    LET state == StateAfterFailure(c, n, class)
    IN /\ class \in {"explicit_rejection", "indeterminate"}
       /\ ActiveAttempt(c, n)
       /\ StillDispatching(c)
       /\ ClassifyAttempt(c, n, class)
       /\ candidates' = [candidates EXCEPT
                           ![c].state = state,
                           ![c].had_indeterminate = @ \/ class = "indeterminate"]
       /\ IF state = "rejected"
          THEN /\ verdicts' = ResolveRejectedVerdicts(c)
               /\ abuse_events' = ResolvedEvents(c) \cup TrustedRejectionEvents(c, trusted)
          ELSE UNCHANGED verdictVars
       /\ UNCHANGED <<reconciliations, rounds, last_round_id, origin_rounds, deliveries>>

FinishCandidateAttempt(c, n, class, trusted) ==
    \/ FinishAttemptAfterAcceptance(c, n, class)
    \/ class = "accepted" /\ FinishAttemptAccepted(c, n)
    \/ FinishAttemptFailed(c, n, class, trusted)

-----------------------------------------------------------------------------
\* The require()s of start_candidate_reconciliation: a row (cycle, kind) is
\* started once.  Cycle MaxCycle stands for itself and every later cycle.
CanStartReconciliation(c, l) ==
    /\ candidates[c].state \in Unresolved
    /\ \/ reconciliations[c][l] = "none"
       \/ l[1] = MaxCycle /\ reconciliations[c][l] # "querying"

\* Mutant: the count goes up with every lookup.
CycleCountedPerLookup(c, l) == candidates[c].cycle_count + 1

\* reconciliation_cycle_count keeps the highest cycle started.
CycleCount(c, l) == Higher(candidates[c].cycle_count, l[1])

StartCandidateReconciliation(c, l) ==
    /\ CanStartReconciliation(c, l)
    /\ reconciliations' = [reconciliations EXCEPT ![c][l] = "querying"]
    /\ candidates' = [candidates EXCEPT ![c].cycle_count = CycleCount(c, l)]
    /\ UNCHANGED <<attempts, rounds, last_round_id, origin_rounds, deliveries, verdictVars>>

\* finish_candidate_reconciliation; positive evidence for an accepted candidate
\* changes only the row, for a rejected one it throws.
FinishReconciliationPositive(c, l) ==
    /\ reconciliations[c][l] = "querying"
    /\ reconciliations' = [reconciliations EXCEPT ![c][l] = "positive"]
    /\ \/ /\ candidates[c].state \in Accepted
          /\ UNCHANGED <<candidates, rounds, last_round_id, origin_rounds, deliveries, verdictVars>>
       \/ /\ CanAccept(c, Unresolved)
          /\ AcceptInTransaction(c, "accepted_by_reconciliation")
    /\ UNCHANGED attempts

FinishReconciliationOther(c, l, class) ==
    /\ class # "positive"
    /\ reconciliations[c][l] = "querying"
    /\ reconciliations' = [reconciliations EXCEPT ![c][l] = class]
    /\ UNCHANGED <<candidates, attempts, rounds, last_round_id, origin_rounds, deliveries,
                   verdictVars>>

FinishCandidateReconciliation(c, l, class) ==
    \/ class = "positive" /\ FinishReconciliationPositive(c, l)
    \/ FinishReconciliationOther(c, l, class)

\* The update finds no row unless the candidate is ambiguous.
ExhaustCandidateReconciliation(c) ==
    /\ candidates' = [candidates EXCEPT ![c].exhausted = @ \/ candidates[c].state = "ambiguous"]
    /\ UNCHANGED <<attempts, reconciliations, rounds, last_round_id, origin_rounds, deliveries,
                   verdictVars>>

-----------------------------------------------------------------------------
\* record_candidate_verdict for the share s and the candidate key c.
RecordVerdict(s, k, c) ==
    /\ RecordCandidateVerdict(s, k, c, candidates[c].state)
    /\ UNCHANGED <<candidates, attempts, reconciliations, rounds, last_round_id, origin_rounds,
                   deliveries>>

\* Mutant: a delivered row is claimed again.
ClaimableAgain(c) == deliveries[c] \in {"pending", "retry_wait", "delivered"}

\* claim_next_blocknotify picks a pending delivery or one whose delay is over.
Claimable(c) == deliveries[c] \in {"pending", "retry_wait"}

ClaimNextBlocknotify(c) ==
    /\ BlocknotifyEnabled
    /\ Claimable(c)
    /\ deliveries' = [deliveries EXCEPT ![c] = "running"]
    /\ UNCHANGED <<candidates, attempts, reconciliations, rounds, last_round_id, origin_rounds,
                   verdictVars>>

FinishBlocknotify(c, delivered) ==
    /\ deliveries[c] = "running"
    /\ deliveries' = [deliveries EXCEPT ![c] = IF delivered THEN "delivered" ELSE "retry_wait"]
    /\ UNCHANGED <<candidates, attempts, reconciliations, rounds, last_round_id, origin_rounds,
                   verdictVars>>

\* A round's maximum height after a crash: buffered accounting is lost, the
\* rows of persisted candidate shares are not.
SurvivingHeights(r) ==
    {h \in Heights \cup {0} :
        /\ h <= rounds[r].max_share_height
        /\ \A c \in Candidates : candidates[c].round_id = r => CandidateHeight[c] <= h}

RecoveredRow(c) ==
    LET row == candidates[c]
    IN IF row.state # "dispatching" THEN row
       ELSE [row EXCEPT !.had_indeterminate = TRUE,
                        !.state = IF row.attempt_count < MaxAttempts
                                  THEN "retry_wait" ELSE "ambiguous"]

RecoveredAttempt(c, n) ==
    IF attempts[c][n] = "dispatching" THEN "indeterminate" ELSE attempts[c][n]

\* The process dies and the database is opened again
\* (recover_inflight_candidates_unlocked, recover_blocknotify_unlocked).
\* Shares that were being processed are gone.
ReopenDatabase ==
    /\ attempts' = [c \in Candidates |-> [n \in AttemptNumbers |-> RecoveredAttempt(c, n)]]
    /\ candidates' = [c \in Candidates |-> RecoveredRow(c)]
    /\ reconciliations' = [c \in Candidates |-> [l \in Lookups |->
                              IF reconciliations[c][l] = "querying" THEN "inconclusive"
                              ELSE reconciliations[c][l]]]
    /\ deliveries' = [c \in Candidates |->
                         IF deliveries[c] = "running" THEN "pending" ELSE deliveries[c]]
    /\ \E r \in OpenRounds, h \in Heights \cup {0} :
          /\ h \in SurvivingHeights(r)
          /\ rounds' = [rounds EXCEPT ![r].max_share_height = h]
    /\ origin_rounds' = [c \in Candidates |-> {}]
    /\ UNCHANGED <<last_round_id, verdictVars>>

-----------------------------------------------------------------------------
StoreNext ==
    \/ \E h \in Heights, c \in Candidates \cup {NoCandidate} : InsertShare(h, c)
    \/ \E c \in Candidates, r \in 1..last_round_id : JournalCandidate(c, r)
    \/ \E c \in Candidates, n \in AttemptNumbers : StartCandidateAttempt(c, n)
    \/ \E c \in Candidates, n \in AttemptNumbers, class \in AttemptClasses, trusted \in BOOLEAN :
          FinishCandidateAttempt(c, n, class, trusted)
    \/ \E c \in Candidates, l \in Lookups : StartCandidateReconciliation(c, l)
    \/ \E c \in Candidates, l \in Lookups, class \in LookupClasses :
          FinishCandidateReconciliation(c, l, class)
    \/ \E c \in Candidates : ExhaustCandidateReconciliation(c)
    \/ \E s \in Shares, k \in VerdictKinds, c \in Candidates : RecordVerdict(s, k, c)
    \/ \E c \in Candidates : ClaimNextBlocknotify(c)
    \/ \E c \in Candidates, delivered \in BOOLEAN : FinishBlocknotify(c, delivered)
    \/ ReopenDatabase

StoreSpec == StoreInit /\ [][StoreNext]_storeVars
-----------------------------------------------------------------------------
(* Properties. *)

\* There is always exactly one open round, the newest one: the acceptance
\* transaction closes the open round and opens the next in one commit, and
\* neither a retry nor a restart can leave none or two.
OneOpenRound == OpenRounds = {last_round_id}

\* Rounds and accepted candidates match one to one: a closed round names an
\* accepted candidate of that very round, and an accepted candidate's round is
\* closed by it.  Two paths accept (the daemon's OK and a positive lookup) and
\* may race; neither can close a second round for the same block or leave an
\* accepted block without its round.
RoundsMatchAcceptances ==
    /\ \A r \in 1..last_round_id :
          rounds[r].state = "closed" =>
             /\ rounds[r].accepted_candidate \in Candidates
             /\ candidates[rounds[r].accepted_candidate].state \in Accepted
             /\ candidates[rounds[r].accepted_candidate].round_id = r
    /\ \A c \in Candidates :
          candidates[c].state \in Accepted =>
             /\ candidates[c].round_id \in 1..last_round_id
             /\ rounds[candidates[c].round_id].state = "closed"
             /\ rounds[candidates[c].round_id].accepted_candidate = c

\* One round is open, and each of the others belongs to its accepted block.
RoundsAreSound == StoreTypeOK /\ OneOpenRound /\ RoundsMatchAcceptances

\* The highest share of a closed round is at the height of the block that closed
\* it, also when a crash lost buffered accounting: work for a later height never
\* counts towards an earlier block's round.
ClosedRoundEndsAtItsBlock ==
    \A r \in 1..last_round_id :
        rounds[r].state = "closed" =>
            rounds[r].max_share_height = CandidateHeight[rounds[r].accepted_candidate]

\* A notification row exists for exactly the accepted candidates (when the hook
\* is configured): it is committed with the acceptance, never for a candidate
\* that is merely ambiguous.
NotifiedIffAccepted ==
    \A c \in Candidates :
        deliveries[c] # "none" <=> candidates[c].state \in Accepted /\ BlocknotifyEnabled

\* A verdict waits only for an unresolved candidate: every terminal transition
\* resolves all verdicts of the candidate in its own transaction, so none stays
\* pending for ever.
PendingOnlyWhileUnresolved ==
    \A v \in Shares \X VerdictKinds :
        verdicts[v].disposition = "pending" =>
            /\ verdicts[v].candidate_id \in Candidates
            /\ candidates[verdicts[v].candidate_id].state \in Unresolved

\* Evidence is charged at most once per candidate and kind, each event backs one
\* verdict, and an event that names a candidate means that the daemon rejected it.
EvidenceChargedOnce ==
    /\ \A e, f \in abuse_events :
          e.candidate_id # NoCandidate /\ e.candidate_id = f.candidate_id /\ e.kind = f.kind => e = f
    /\ \A v, w \in Shares \X VerdictKinds :
          verdicts[v].abuse_event # NoEvent /\ verdicts[v].abuse_event = verdicts[w].abuse_event => v = w
    /\ \A e \in abuse_events :
          e.candidate_id # NoCandidate => candidates[e.candidate_id].state = "rejected"

\* The two tables agree: exactly the actionable verdicts have an event, it is there and
\* names the candidate that the verdict is linked to, or none when the verdict is linked to
\* none; and there is no event without a candidate but for such a verdict.
VerdictsAreBooked ==
    /\ \A v \in Shares \X VerdictKinds :
          /\ verdicts[v].disposition = "actionable" <=> verdicts[v].abuse_event # NoEvent
          /\ verdicts[v].abuse_event # NoEvent =>
                /\ verdicts[v].abuse_event \in abuse_events
                /\ verdicts[v].abuse_event.candidate_id = verdicts[v].candidate_id
    /\ \A e \in abuse_events :
          e.candidate_id = NoCandidate => \E v \in Shares \X VerdictKinds : verdicts[v].abuse_event = e

\* A verdict that is linked to a candidate follows the daemon's outcome: it waits while the
\* candidate is unresolved, and is charged, once per candidate and kind, only if the
\* candidate is rejected.  A verdict recorded before its key is journaled is linked to no
\* candidate: record_candidate_verdict charges it at once and journal_candidate leaves it as
\* it is, so that it is charged once, for its own share, and is not charged again by the
\* outcome.  That it does not wait for the outcome is the subject of EvidenceAwaitsOutcome.
VerdictsFollowOutcomes == PendingOnlyWhileUnresolved /\ EvidenceChargedOnce /\ VerdictsAreBooked

\* What the blueprint (15.4) says of all verdicts, "actionable evidence is never created
\* before this outcome is known": a journaled key has no actionable verdict unless the
\* candidate was rejected.  (Without a candidate a verdict may become actionable, when its
\* job retires; nothing is journaled for a retired job.)
EvidenceAwaitsOutcome ==
    \A v \in Shares \X VerdictKinds :
        verdicts[v].disposition = "actionable" =>
            candidates[verdicts[v].candidate_key].state \in {"absent", "rejected"}

\* An outcome is final: an accepted or rejected candidate never changes state
\* again, whatever late response, lookup or restart follows.
OutcomesAreFinal ==
    [][\A c \in Candidates :
          candidates[c].state \in Accepted \cup {"rejected"} =>
              candidates'[c].state = candidates[c].state]_storeVars

\* The refinement mapping to CandidateLedger: an outcome forgets how far the
\* submission got, the closed rounds are all but the newest.
OutcomeOf(c) ==
    CASE candidates[c].state = "absent" -> "unknown"
      [] candidates[c].state \in Unresolved -> "open"
      [] candidates[c].state \in Accepted -> "accepted"
      [] candidates[c].state = "rejected" -> "rejected"

HookOf(c) ==
    CASE deliveries[c] = "none" -> "nothing"
      [] deliveries[c] = "delivered" -> "delivered"
      [] OTHER -> "owed"

Ledger == INSTANCE CandidateLedger WITH
    outcome <- [c \in Candidates |-> OutcomeOf(c)],
    closed <- last_round_id - 1,
    winner <- [r \in 1..(last_round_id - 1) |-> rounds[r].accepted_candidate],
    hook <- [c \in Candidates |-> HookOf(c)]

\* Every step of the database is an abstract step or invisible: whatever the
\* order of attempts, lookups and restarts, a block is accepted once, closes the
\* next round, and is announced at most once per owed delivery.
ImplementsLedger == Ledger!LedgerSpec
=============================================================================
