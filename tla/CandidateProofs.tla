--------------------------- MODULE CandidateProofs ----------------------------
(***************************************************************************)
(* Proofs about CandidateStore and CandidateRuntime, for every set of      *)
(* candidates, heights and shares and any number of attempts, cycles,      *)
(* workers and crashes.  About the tables: rounds and finality, the        *)
(* refinement of CandidateLedger, verdicts and evidence.  About the        *)
(* runtime: that it uses the tables as CandidateStore says, that a         *)
(* rejected block cannot be in the chain, and that the work it publishes   *)
(* is useful.                                                              *)
(***************************************************************************)
EXTENDS CandidateRuntimeInv, TLAPS, NaturalsInduction, WellFoundedInduction

\* Leaves that need arithmetic or extensionality name SMT; the others are for Zenon.
USE ZenonT(30), SMTT(30)
USE DEF Unresolved, Accepted, Dispatchable

-----------------------------------------------------------------------------
(***************************************************************************)
(* Rounds and finality.                                                    *)
(***************************************************************************)

(* Verdicts. *)
\* The pending verdict that a rejection makes actionable exists: there is one
\* with the lowest share id.
LEMMA FirstPendingIsShare ==
    ASSUME NEW c, NEW k, SomePending(c, k)
    PROVE  FirstPending(c, k) \in Shares
<1> DEFINE T == {s \in Shares : Pending(<<s, k>>, c)}
<1>1. T # {} /\ T \in SUBSET Nat
  BY SharesAssumption DEF SomePending
<1>2. PICK s \in T : \A t \in T : ~(<<t, s>> \in OpToRel(<, Nat))
  BY <1>1, NatLessThanWellFounded, WFMin
<1>3. ASSUME NEW t \in T, t < s PROVE FALSE
  <2>1. <<t, s>> \in OpToRel(<, Nat)
    BY <1>1, <1>3, SMT DEF OpToRel
  <2> QED BY <2>1, <1>2
<1>4. \A t \in T : s <= t
  BY SMTT(30), <1>1, <1>3
<1> QED
  BY <1>4 DEF FirstPending

LEMMA AbuseKindType ==
    ASSUME NEW k \in VerdictKinds
    PROVE  AbuseKind(k) \in AbuseKinds
BY DEF AbuseKinds

\* The event of an actionable verdict is a row of the table's type.
LEMMA EventForType ==
    ASSUME VerdictsTypeOK, NEW c \in Candidates, NEW s \in Shares, NEW k \in VerdictKinds
    PROVE  EventFor(c, s, k) \in AbuseEvents
<1>1. CASE EventsOf(c, k) # {}
  BY <1>1 DEF EventFor, EventsOf, VerdictsTypeOK
<1>2. CASE EventsOf(c, k) = {}
  BY <1>2, AbuseKindType DEF EventFor, AbuseEvents
<1> QED
  BY <1>1, <1>2

LEMMA NoEventType == NoEvent \in AbuseEvents \cup {NoEvent}
OBVIOUS

\* Resolving a verdict keeps the type of its row.
LEMMA SuppressedRow ==
    ASSUME NEW row \in VerdictRows
    PROVE  [row EXCEPT !.disposition = "suppressed"] \in VerdictRows
BY DEF VerdictRows

LEMMA ActionableRow ==
    ASSUME NEW row \in VerdictRows, NEW e \in AbuseEvents
    PROVE  [row EXCEPT !.disposition = "actionable", !.abuse_event = e] \in VerdictRows
BY DEF VerdictRows

\* Acceptance, rejection and recording keep the verdict tables well typed.
LEMMA SuppressType ==
    ASSUME VerdictsTypeOK, NEW c \in Candidates
    PROVE  SuppressPendingVerdicts(c) \in [Shares \X VerdictKinds -> VerdictRows]
BY SuppressedRow DEF VerdictsTypeOK, SuppressPendingVerdicts

LEMMA ResolveType ==
    ASSUME VerdictsTypeOK, NEW c \in Candidates, NEW trusted \in BOOLEAN
    PROVE  /\ ResolveRejectedVerdicts(c) \in [Shares \X VerdictKinds -> VerdictRows]
           /\ ResolvedEvents(c) \cup TrustedRejectionEvents(c, trusted) \subseteq AbuseEvents
<1>1. ASSUME NEW v \in Shares \X VerdictKinds, Pending(v, c)
      PROVE  SomePending(c, v[2]) /\ v[2] \in VerdictKinds
  <2>1. v = <<v[1], v[2]>> /\ v[1] \in Shares /\ v[2] \in VerdictKinds
    BY SMTT(30), <1>1
  <2> QED
    BY <1>1, <2>1 DEF SomePending
<1>2. ASSUME NEW k \in VerdictKinds, SomePending(c, k)
      PROVE  EventFor(c, FirstPending(c, k), k) \in AbuseEvents
  BY <1>2, FirstPendingIsShare, EventForType
<1>3. ASSUME NEW v \in Shares \X VerdictKinds
      PROVE  ResolveRejectedVerdicts(c)[v] \in VerdictRows
  <2>1. CASE ~Pending(v, c)
    BY <2>1, <1>3 DEF ResolveRejectedVerdicts, VerdictsTypeOK
  <2>2. CASE Pending(v, c)
    <3>1. EventFor(c, FirstPending(c, v[2]), v[2]) \in AbuseEvents
      BY <1>1, <1>2, <2>2
    <3>2. verdicts[v] \in VerdictRows
      BY <1>3 DEF VerdictsTypeOK
    <3> DEFINE e == EventFor(c, FirstPending(c, v[2]), v[2])
    <3>3. \/ ResolveRejectedVerdicts(c)[v] = [verdicts[v] EXCEPT !.disposition = "suppressed"]
          \/ ResolveRejectedVerdicts(c)[v] =
                [verdicts[v] EXCEPT !.disposition = "actionable", !.abuse_event = e]
      BY <2>2, <1>3 DEF ResolveRejectedVerdicts
    <3> HIDE DEF e
    <3> QED
      BY <3>1, <3>2, <3>3, SuppressedRow, ActionableRow DEF e
  <2> QED
    BY <2>1, <2>2
<1>4. ResolvedEvents(c) \subseteq AbuseEvents
  BY <1>2 DEF ResolvedEvents, VerdictsTypeOK
<1>5. TrustedRejectionEvents(c, trusted) \subseteq AbuseEvents
  BY SMTT(30) DEF TrustedRejectionEvents, AbuseEvents, AbuseKinds
<1> QED
  BY <1>3, <1>4, <1>5 DEF ResolveRejectedVerdicts

LEMMA RecordType ==
    ASSUME VerdictsTypeOK, NEW s \in Shares, NEW k \in VerdictKinds, NEW c \in Candidates,
           NEW state, RecordCandidateVerdict(s, k, c, state)
    PROVE  VerdictsTypeOK'
<1>1. EventFor(c, s, k) \in AbuseEvents
  BY EventForType
<1>2. [candidate_id |-> NoCandidate, share_id |-> s, kind |-> AbuseKind(k)] \in AbuseEvents
  BY AbuseKindType DEF AbuseEvents
<1>3. VerdictRow(s, k, c, state) \in VerdictRows
  BY <1>1, <1>2, NoEventType DEF VerdictRow, VerdictRows
<1>4. verdicts' \in [Shares \X VerdictKinds -> VerdictRows]
  BY <1>3 DEF RecordCandidateVerdict, VerdictsTypeOK
<1>5. abuse_events' \subseteq AbuseEvents
  BY <1>1, <1>3 DEF RecordCandidateVerdict, VerdictsTypeOK, VerdictRows
<1> QED
  BY <1>4, <1>5 DEF VerdictsTypeOK

-----------------------------------------------------------------------------
(* Type correctness. *)
LEMMA TypeInit == StoreInit => StoreTypeOK
BY SMTT(30), MaxAttemptsAssumption, MaxCycleAssumption, HeightsAssumption
   DEF StoreInit, StoreTypeOK, AbsentRow, OpenRound, CandidateRows, RoundRows, CandidateStates,
       VerdictsInit, VerdictsTypeOK, NoVerdict, VerdictRows

\* Updating columns of a row keeps its type.
LEMMA StateUpdate ==
    ASSUME NEW row \in CandidateRows, NEW state \in CandidateStates
    PROVE  [row EXCEPT !.state = state] \in CandidateRows
BY DEF CandidateRows

LEMMA AttemptUpdate ==
    ASSUME NEW row \in CandidateRows, NEW state \in CandidateStates, NEW n \in 0..MaxAttempts
    PROVE  [row EXCEPT !.state = state, !.attempt_count = n] \in CandidateRows
BY DEF CandidateRows

LEMMA FailureUpdate ==
    ASSUME NEW row \in CandidateRows, NEW state \in CandidateStates, NEW b \in BOOLEAN
    PROVE  [row EXCEPT !.state = state, !.had_indeterminate = b] \in CandidateRows
BY DEF CandidateRows

LEMMA RecoveryUpdate ==
    ASSUME NEW row \in CandidateRows, NEW state \in CandidateStates
    PROVE  [row EXCEPT !.had_indeterminate = TRUE, !.state = state] \in CandidateRows
BY DEF CandidateRows

LEMMA JournaledRow ==
    ASSUME NEW r \in Nat
    PROVE  [AbsentRow EXCEPT !.state = "journaled", !.round_id = r] \in CandidateRows
<1>1. AbsentRow \in CandidateRows
  BY SMTT(30), MaxAttemptsAssumption, MaxCycleAssumption DEF AbsentRow, CandidateRows, CandidateStates
<1>2. "journaled" \in CandidateStates
  BY DEF CandidateStates
<1> QED
  BY <1>1, <1>2 DEF CandidateRows

LEMMA LinkUpdate ==
    ASSUME NEW row \in VerdictRows, NEW c \in Candidates
    PROVE  [row EXCEPT !.candidate_id = c] \in VerdictRows
BY DEF VerdictRows

LEMMA CycleUpdate ==
    ASSUME NEW row \in CandidateRows, NEW n \in 0..MaxCycle
    PROVE  [row EXCEPT !.cycle_count = n] \in CandidateRows
BY DEF CandidateRows

LEMMA ExhaustedUpdate ==
    ASSUME NEW row \in CandidateRows, NEW b \in BOOLEAN
    PROVE  [row EXCEPT !.exhausted = b] \in CandidateRows
BY DEF CandidateRows

LEMMA MaxHeightUpdate ==
    ASSUME NEW row \in RoundRows, NEW h \in Heights \cup {0}
    PROVE  [row EXCEPT !.max_share_height = h] \in RoundRows
BY DEF RoundRows

LEMMA ClosedUpdate ==
    ASSUME NEW row \in RoundRows, NEW c \in Candidates
    PROVE  [row EXCEPT !.state = "closed", !.accepted_candidate = c] \in RoundRows
BY DEF RoundRows

LEMMA RowColumns ==
    ASSUME NEW row \in CandidateRows
    PROVE  /\ row.state \in CandidateStates
           /\ row.round_id \in Nat
           /\ row.attempt_count \in 0..MaxAttempts
           /\ row.had_indeterminate \in BOOLEAN
           /\ row.cycle_count \in 0..MaxCycle
           /\ row.exhausted \in BOOLEAN
BY DEF CandidateRows

LEMMA AcceptType ==
    ASSUME StoreTypeOK, NEW c \in Candidates, NEW state \in Accepted,
           AcceptInTransaction(c, state)
    PROVE  /\ candidates' \in [Candidates -> CandidateRows]
           /\ last_round_id' \in Nat \ {0}
           /\ rounds' \in [1..last_round_id' -> RoundRows]
           /\ origin_rounds' \in [Candidates -> SUBSET (1..last_round_id')]
           /\ deliveries' \in [Candidates -> {"none", "pending", "running", "retry_wait", "delivered"}]
           /\ VerdictsTypeOK'
<1> USE DEF AcceptInTransaction, StoreTypeOK
<1>1. candidates' \in [Candidates -> CandidateRows]
  <2>1. candidates' = [candidates EXCEPT ![c] = [candidates[c] EXCEPT !.state = state]]
    OBVIOUS
  <2>2. [candidates[c] EXCEPT !.state = state] \in CandidateRows
    BY StateUpdate DEF CandidateStates
  <2> QED
    BY <2>1, <2>2
<1>2. last_round_id' \in Nat \ {0}
  BY SMTT(30)
<1>3. rounds' \in [1..last_round_id' -> RoundRows]
  <2>1. OpenRound \in RoundRows
    BY DEF OpenRound, RoundRows
  <2>2. \A r \in 1..last_round_id : ClosedBy(c, r) \in RoundRows
    BY ClosedUpdate DEF ClosedBy
  <2> QED
    BY SMTT(30), <2>1, <2>2
<1>4. origin_rounds' \in [Candidates -> SUBSET (1..last_round_id')]
  BY SMTT(30)
<1>5. deliveries' \in [Candidates -> {"none", "pending", "running", "retry_wait", "delivered"}]
  BY DEF OwedDelivery
<1>6. VerdictsTypeOK'
  BY SuppressType DEF VerdictsTypeOK
<1> QED
  BY <1>1, <1>2, <1>3, <1>4, <1>5, <1>6

LEMMA TypeNext == StoreTypeOK /\ [StoreNext]_storeVars => StoreTypeOK'
<1> SUFFICES ASSUME StoreTypeOK, [StoreNext]_storeVars
             PROVE  StoreTypeOK'
  OBVIOUS
<1> USE HeightsAssumption, MaxAttemptsAssumption, MaxCycleAssumption
<1> USE DEF StoreTypeOK
<1>1. ASSUME NEW h \in Heights, NEW c \in Candidates \cup {NoCandidate}, InsertShare(h, c)
      PROVE  StoreTypeOK'
  <2>1. PICK r \in OpenRounds :
           /\ rounds' = [rounds EXCEPT ![r].max_share_height = Higher(@, h)]
           /\ origin_rounds' = [d \in Candidates |->
                                   IF d = c /\ candidates[c].state = "absent"
                                   THEN origin_rounds[d] \cup {r} ELSE origin_rounds[d]]
    BY <1>1 DEF InsertShare
  <2>2. r \in 1..last_round_id
    BY DEF OpenRounds
  <2>3. rounds' \in [1..last_round_id -> RoundRows]
    <3> DEFINE height == Higher(rounds[r].max_share_height, h)
    <3>1. rounds' = [rounds EXCEPT ![r] = [rounds[r] EXCEPT !.max_share_height = height]]
      BY <2>1
    <3>2. height \in Heights \cup {0}
      BY <2>2 DEF RoundRows, Higher
    <3>3. [rounds[r] EXCEPT !.max_share_height = height] \in RoundRows
      BY <2>2, <3>2, MaxHeightUpdate
    <3> QED
      BY <3>1, <3>3
  <2>4. origin_rounds' \in [Candidates -> SUBSET (1..last_round_id)]
    BY <2>1, <2>2
  <2> QED
    BY <1>1, <2>3, <2>4 DEF InsertShare, verdictVars, VerdictsTypeOK
<1>2. ASSUME NEW c \in Candidates, NEW r \in 1..last_round_id, JournalCandidate(c, r)
      PROVE  StoreTypeOK'
  <2>1. candidates' \in [Candidates -> CandidateRows]
    <3> DEFINE row == [AbsentRow EXCEPT !.state = "journaled", !.round_id = r]
    <3>0. r \in Nat
      BY SMTT(30)
    <3>1. row \in CandidateRows
      BY <3>0, JournaledRow
    <3>2. candidates' = [candidates EXCEPT ![c] = row]
      BY <1>2 DEF JournalCandidate
    <3> QED
      BY <3>1, <3>2
  <2>2. VerdictsTypeOK'
    <3>1. \A v \in Shares \X VerdictKinds : [verdicts[v] EXCEPT !.candidate_id = c] \in VerdictRows
      BY LinkUpdate DEF VerdictsTypeOK
    <3> QED
      BY <1>2, <3>1 DEF JournalCandidate, VerdictsTypeOK
  <2>3. origin_rounds' \in [Candidates -> SUBSET (1..last_round_id)]
    BY <1>2 DEF JournalCandidate
  <2> QED
    BY <1>2, <2>1, <2>2, <2>3 DEF JournalCandidate
<1>3. ASSUME NEW c \in Candidates, NEW n \in AttemptNumbers, StartCandidateAttempt(c, n)
      PROVE  StoreTypeOK'
  <2>1. candidates' \in [Candidates -> CandidateRows]
    <3> DEFINE row == [candidates[c] EXCEPT !.state = "dispatching", !.attempt_count = n]
    <3>0. n \in 0..MaxAttempts /\ "dispatching" \in CandidateStates
      BY SMTT(30) DEF AttemptNumbers, CandidateStates
    <3>1. row \in CandidateRows
      BY <3>0, AttemptUpdate
    <3>2. candidates' = [candidates EXCEPT ![c] = row]
      BY <1>3 DEF StartCandidateAttempt
    <3> QED
      BY <3>1, <3>2
  <2> QED
    BY <1>3, <2>1 DEF StartCandidateAttempt, verdictVars, VerdictsTypeOK
<1>4. ASSUME NEW c \in Candidates, NEW n \in AttemptNumbers, NEW class \in AttemptClasses,
             NEW trusted \in BOOLEAN, FinishCandidateAttempt(c, n, class, trusted)
      PROVE  StoreTypeOK'
  <2>1. ASSUME ClassifyAttempt(c, n, class)
        PROVE  attempts' \in [Candidates -> [AttemptNumbers -> AttemptClasses \cup {"none", "dispatching"}]]
    BY <2>1 DEF ClassifyAttempt
  <2>2. CASE FinishAttemptAfterAcceptance(c, n, class)
    BY <2>1, <2>2 DEF FinishAttemptAfterAcceptance, verdictVars, VerdictsTypeOK
  <2>3. CASE class = "accepted" /\ FinishAttemptAccepted(c, n)
    <3>1. ClassifyAttempt(c, n, class) /\ AcceptInTransaction(c, "accepted") /\ UNCHANGED reconciliations
      BY <2>3 DEF FinishAttemptAccepted
    <3> QED
      BY <2>1, <3>1, AcceptType
  <2>4. CASE FinishAttemptFailed(c, n, class, trusted)
    <3>1. candidates' \in [Candidates -> CandidateRows]
      <4> DEFINE state == StateAfterFailure(c, n, class)
                 uncertain == candidates[c].had_indeterminate \/ class = "indeterminate"
                 row == [candidates[c] EXCEPT !.state = state, !.had_indeterminate = uncertain]
      <4>1. state \in CandidateStates
        BY DEF StateAfterFailure, CandidateStates
      <4>2. row \in CandidateRows
        BY <4>1, FailureUpdate
      <4>3. candidates' = [candidates EXCEPT ![c] = row]
        BY <2>4 DEF FinishAttemptFailed
      <4> QED
        BY <4>2, <4>3
    <3>2. VerdictsTypeOK'
      BY <2>4, ResolveType DEF FinishAttemptFailed, verdictVars, VerdictsTypeOK
    <3> QED
      BY <2>1, <2>4, <3>1, <3>2 DEF FinishAttemptFailed
  <2> QED
    BY <1>4, <2>2, <2>3, <2>4 DEF FinishCandidateAttempt
<1>5. ASSUME NEW c \in Candidates, NEW l \in Lookups, StartCandidateReconciliation(c, l)
      PROVE  StoreTypeOK'
  <2>1. CycleCount(c, l) \in 0..MaxCycle
    BY SMTT(30) DEF CycleCount, Higher, Lookups, Cycles, CandidateRows
  <2>2. candidates' \in [Candidates -> CandidateRows]
    <3> DEFINE row == [candidates[c] EXCEPT !.cycle_count = CycleCount(c, l)]
    <3>1. row \in CandidateRows
      BY <2>1, CycleUpdate
    <3>2. candidates' = [candidates EXCEPT ![c] = row]
      BY <1>5 DEF StartCandidateReconciliation
    <3> QED
      BY <3>1, <3>2
  <2> QED
    BY <1>5, <2>2 DEF StartCandidateReconciliation, verdictVars, VerdictsTypeOK
<1>6. ASSUME NEW c \in Candidates, NEW l \in Lookups, NEW class \in LookupClasses,
             FinishCandidateReconciliation(c, l, class)
      PROVE  StoreTypeOK'
  <2>1. CASE FinishReconciliationOther(c, l, class)
    BY <2>1 DEF FinishReconciliationOther, verdictVars, VerdictsTypeOK
  <2>2. CASE FinishReconciliationPositive(c, l)
    <3>1. reconciliations' \in [Candidates -> [Lookups -> LookupClasses \cup {"none", "querying"}]]
      BY <2>2 DEF FinishReconciliationPositive, LookupClasses
    <3>2. CASE UNCHANGED <<candidates, rounds, last_round_id, origin_rounds, deliveries, verdictVars>>
      BY <2>2, <3>1, <3>2 DEF FinishReconciliationPositive, verdictVars, VerdictsTypeOK
    <3>3. CASE AcceptInTransaction(c, "accepted_by_reconciliation")
      BY <2>2, <3>1, <3>3, AcceptType DEF FinishReconciliationPositive
    <3> QED
      BY <2>2, <3>2, <3>3 DEF FinishReconciliationPositive
  <2> QED
    BY <1>6, <2>1, <2>2 DEF FinishCandidateReconciliation
<1>7. ASSUME NEW c \in Candidates, ExhaustCandidateReconciliation(c)
      PROVE  StoreTypeOK'
  <2>1. candidates' \in [Candidates -> CandidateRows]
    <3> DEFINE given_up == candidates[c].exhausted \/ candidates[c].state = "ambiguous"
               row == [candidates[c] EXCEPT !.exhausted = given_up]
    <3>1. row \in CandidateRows
      BY ExhaustedUpdate
    <3>2. candidates' = [candidates EXCEPT ![c] = row]
      BY <1>7 DEF ExhaustCandidateReconciliation
    <3> QED
      BY <3>1, <3>2
  <2> QED
    BY <1>7, <2>1 DEF ExhaustCandidateReconciliation, verdictVars, VerdictsTypeOK
<1>8. ASSUME NEW s \in Shares, NEW k \in VerdictKinds, NEW c \in Candidates, RecordVerdict(s, k, c)
      PROVE  StoreTypeOK'
  BY <1>8, RecordType DEF RecordVerdict
<1>9. ASSUME NEW c \in Candidates, ClaimNextBlocknotify(c)
      PROVE  StoreTypeOK'
  BY <1>9 DEF ClaimNextBlocknotify, verdictVars, VerdictsTypeOK
<1>10. ASSUME NEW c \in Candidates, NEW delivered \in BOOLEAN, FinishBlocknotify(c, delivered)
       PROVE  StoreTypeOK'
  BY <1>10 DEF FinishBlocknotify, verdictVars, VerdictsTypeOK
<1>11. ASSUME ReopenDatabase
       PROVE  StoreTypeOK'
  <2>1. candidates' \in [Candidates -> CandidateRows]
    <3>1. \A c \in Candidates : RecoveredRow(c) \in CandidateRows
      <4> SUFFICES ASSUME NEW c \in Candidates
                   PROVE  RecoveredRow(c) \in CandidateRows
        OBVIOUS
      <4> DEFINE state == IF candidates[c].attempt_count < MaxAttempts THEN "retry_wait" ELSE "ambiguous"
      <4>1. state \in CandidateStates
        BY DEF CandidateStates
      <4>2. [candidates[c] EXCEPT !.had_indeterminate = TRUE, !.state = state] \in CandidateRows
        BY <4>1, RecoveryUpdate
      <4> QED
        BY <4>2 DEF RecoveredRow
    <3> QED
      BY <1>11, <3>1 DEF ReopenDatabase
  <2>2. attempts' \in [Candidates -> [AttemptNumbers -> AttemptClasses \cup {"none", "dispatching"}]]
    BY <1>11 DEF ReopenDatabase, RecoveredAttempt, AttemptClasses
  <2>3. reconciliations' \in [Candidates -> [Lookups -> LookupClasses \cup {"none", "querying"}]]
    BY <1>11 DEF ReopenDatabase, LookupClasses
  <2>4. rounds' \in [1..last_round_id -> RoundRows]
    <3>1. PICK r \in OpenRounds, h \in Heights \cup {0} :
             rounds' = [rounds EXCEPT ![r].max_share_height = h]
      BY <1>11 DEF ReopenDatabase
    <3>2. r \in 1..last_round_id
      BY DEF OpenRounds
    <3>3. [rounds[r] EXCEPT !.max_share_height = h] \in RoundRows
      BY <3>2, MaxHeightUpdate
    <3> QED
      BY <3>1, <3>2, <3>3
  <2>5. deliveries' \in [Candidates -> {"none", "pending", "running", "retry_wait", "delivered"}]
    BY <1>11 DEF ReopenDatabase
  <2> QED
    BY <1>11, <2>1, <2>2, <2>3, <2>4, <2>5 DEF ReopenDatabase, verdictVars, VerdictsTypeOK
<1>12. CASE UNCHANGED storeVars
  BY <1>12 DEF storeVars, VerdictsTypeOK
<1> HIDE HeightsAssumption, MaxAttemptsAssumption, MaxCycleAssumption DEF StoreTypeOK
<1> QED
  BY <1>1, <1>2, <1>3, <1>4, <1>5, <1>6, <1>7, <1>8, <1>9, <1>10, <1>11, <1>12 DEF StoreNext

\* Every table keeps its type whatever calls the callers make.
THEOREM TypeCorrectness == StoreSpec => []StoreTypeOK
BY TypeInit, TypeNext, PTL DEF StoreSpec

-----------------------------------------------------------------------------
(* Rounds, outcomes and notifications.  A step either is an acceptance, or   *)
(* leaves rounds, outcomes and the set of owed notifications alone.          *)
LEMMA StepIsQuietOrAccepts ==
    ASSUME StoreTypeOK, [StoreNext]_storeVars
    PROVE  QuietStep \/ AcceptStep
<1> USE DEF StoreTypeOK
<1>1. ASSUME NEW h \in Heights, NEW c \in Candidates \cup {NoCandidate}, InsertShare(h, c)
      PROVE  QuietStep
  <2>1. PICK r \in OpenRounds : rounds' = [rounds EXCEPT ![r].max_share_height = Higher(@, h)]
    BY <1>1 DEF InsertShare
  <2>2. \A q \in 1..last_round_id :
           /\ rounds'[q].state = rounds[q].state
           /\ rounds'[q].accepted_candidate = rounds[q].accepted_candidate
    BY <2>1 DEF RoundRows, OpenRounds
  <2> QED
    BY <1>1, <2>2 DEF InsertShare, QuietStep
<1>2. ASSUME NEW c \in Candidates, NEW r \in 1..last_round_id, JournalCandidate(c, r)
      PROVE  QuietStep
  BY <1>2 DEF JournalCandidate, QuietStep, AbsentRow, CandidateRows
<1>3. ASSUME NEW c \in Candidates, NEW n \in AttemptNumbers, StartCandidateAttempt(c, n)
      PROVE  QuietStep
  BY SMTT(30), <1>3 DEF StartCandidateAttempt, CanStartAttempt, QuietStep, CandidateRows
<1>4. ASSUME NEW c \in Candidates, NEW n \in AttemptNumbers, NEW class \in AttemptClasses,
             NEW trusted \in BOOLEAN, FinishCandidateAttempt(c, n, class, trusted)
      PROVE  QuietStep \/ AcceptStep
  <2>1. CASE FinishAttemptAfterAcceptance(c, n, class)
    BY <2>1 DEF FinishAttemptAfterAcceptance, QuietStep
  <2>2. CASE FinishAttemptAccepted(c, n)
    <3>1. CanAccept(c, Unresolved) /\ AcceptInTransaction(c, "accepted")
      BY <2>2 DEF FinishAttemptAccepted, CanAccept
    <3> QED
      BY <3>1 DEF AcceptStep
  <2>3. CASE FinishAttemptFailed(c, n, class, trusted)
    <3>1. StateAfterFailure(c, n, class) \notin Accepted
      BY DEF StateAfterFailure
    <3> QED
      BY SMTT(30), <2>3, <3>1 DEF FinishAttemptFailed, StillDispatching, QuietStep, CandidateRows
  <2> QED
    BY <1>4, <2>1, <2>2, <2>3 DEF FinishCandidateAttempt
<1>5. ASSUME NEW c \in Candidates, NEW l \in Lookups, StartCandidateReconciliation(c, l)
      PROVE  QuietStep
  BY SMTT(30), <1>5 DEF StartCandidateReconciliation, QuietStep, CandidateRows
<1>6. ASSUME NEW c \in Candidates, NEW l \in Lookups, NEW class \in LookupClasses,
             FinishCandidateReconciliation(c, l, class)
      PROVE  QuietStep \/ AcceptStep
  <2>1. CASE UNCHANGED <<candidates, rounds, last_round_id, deliveries>>
    BY <2>1 DEF QuietStep
  <2>2. CASE CanAccept(c, Unresolved) /\ AcceptInTransaction(c, "accepted_by_reconciliation")
    BY <2>2 DEF AcceptStep
  <2> QED
    BY <1>6, <2>1, <2>2
       DEF FinishCandidateReconciliation, FinishReconciliationPositive, FinishReconciliationOther
<1>7. ASSUME NEW c \in Candidates, ExhaustCandidateReconciliation(c)
      PROVE  QuietStep
  BY SMTT(30), <1>7 DEF ExhaustCandidateReconciliation, QuietStep, CandidateRows
<1>8. ASSUME NEW s \in Shares, NEW k \in VerdictKinds, NEW c \in Candidates, RecordVerdict(s, k, c)
      PROVE  QuietStep
  BY <1>8 DEF RecordVerdict, QuietStep
<1>9. ASSUME NEW c \in Candidates, ClaimNextBlocknotify(c)
      PROVE  QuietStep
  BY <1>9 DEF ClaimNextBlocknotify, Claimable, QuietStep
<1>10. ASSUME NEW c \in Candidates, NEW delivered \in BOOLEAN, FinishBlocknotify(c, delivered)
       PROVE  QuietStep
  BY <1>10 DEF FinishBlocknotify, QuietStep
<1>11. ASSUME ReopenDatabase
       PROVE  QuietStep
  <2>1. \A c \in Candidates :
           /\ candidates[c].state \in Accepted \cup {"rejected"} =>
                 candidates'[c].state = candidates[c].state
           /\ candidates'[c].state \in Accepted => candidates[c].state \in Accepted
           /\ candidates'[c].round_id = candidates[c].round_id
    <3> TAKE c \in Candidates
    <3>1. candidates'[c] = RecoveredRow(c)
      BY <1>11 DEF ReopenDatabase
    <3>2. CASE candidates[c].state # "dispatching"
      BY <3>1, <3>2 DEF RecoveredRow
    <3>3. CASE candidates[c].state = "dispatching"
      <4>1. PICK state \in {"retry_wait", "ambiguous"} :
               candidates'[c] = [candidates[c] EXCEPT !.had_indeterminate = TRUE, !.state = state]
        BY <3>1, <3>3 DEF RecoveredRow
      <4> QED
        BY SMTT(30), <3>3, <4>1 DEF CandidateRows
    <3> QED
      BY <3>2, <3>3
  <2>2. \A c \in Candidates : deliveries'[c] = "none" <=> deliveries[c] = "none"
    BY <1>11 DEF ReopenDatabase
  <2>3. \A q \in 1..last_round_id :
           /\ rounds'[q].state = rounds[q].state
           /\ rounds'[q].accepted_candidate = rounds[q].accepted_candidate
    BY SMTT(30), <1>11 DEF ReopenDatabase, RoundRows, OpenRounds
  <2> QED
    BY <1>11, <2>1, <2>2, <2>3 DEF ReopenDatabase, QuietStep
<1>12. CASE UNCHANGED storeVars
  BY <1>12 DEF storeVars, QuietStep
<1> QED
  BY SMTT(30), <1>1, <1>2, <1>3, <1>4, <1>5, <1>6, <1>7, <1>8, <1>9, <1>10, <1>11, <1>12 DEF StoreNext

LEMMA RoundsInit == StoreInit => RoundsInv
<1> SUFFICES ASSUME StoreInit PROVE RoundsInv
  OBVIOUS
<1>1. StoreTypeOK
  BY TypeInit
<1>2. OneOpenRound /\ RoundsMatchAcceptances
  BY SMTT(30) DEF StoreInit, OneOpenRound, RoundsMatchAcceptances, OpenRounds, OpenRound, AbsentRow
<1>3. NotifiedIffAccepted
  BY DEF StoreInit, NotifiedIffAccepted, AbsentRow
<1> QED
  BY <1>1, <1>2, <1>3 DEF RoundsInv

LEMMA QuietKeepsRounds ==
    ASSUME RoundsInv, StoreTypeOK', QuietStep
    PROVE  RoundsInv'
<1> USE DEF RoundsInv, QuietStep
<1>1. OneOpenRound'
  BY SMTT(30) DEF OneOpenRound, OpenRounds
<1>2. \A r \in 1..last_round_id : rounds'[r].state = "closed" =>
         /\ rounds'[r].accepted_candidate \in Candidates
         /\ candidates'[rounds'[r].accepted_candidate].state \in Accepted
         /\ candidates'[rounds'[r].accepted_candidate].round_id = r
  <2> SUFFICES ASSUME NEW r \in 1..last_round_id, rounds'[r].state = "closed"
               PROVE  /\ rounds'[r].accepted_candidate \in Candidates
                      /\ candidates'[rounds'[r].accepted_candidate].state \in Accepted
                      /\ candidates'[rounds'[r].accepted_candidate].round_id = r
    OBVIOUS
  <2> DEFINE d == rounds[r].accepted_candidate
  <2> HIDE DEF RoundsInv, QuietStep
  <2>0. rounds[r].state = "closed" /\ rounds'[r].accepted_candidate = d
    BY DEF QuietStep
  <2>1. d \in Candidates /\ candidates[d].state \in Accepted /\ candidates[d].round_id = r
    <3> RoundsMatchAcceptances
      BY DEF RoundsInv
    <3> QED
      BY <2>0 DEF RoundsMatchAcceptances
  <2>2. candidates'[d].state = candidates[d].state /\ candidates'[d].round_id = candidates[d].round_id
    BY <2>1 DEF QuietStep
  <2> QED
    BY <2>0, <2>1, <2>2
<1>3. \A c \in Candidates : candidates'[c].state \in Accepted =>
         /\ candidates'[c].round_id \in 1..last_round_id
         /\ rounds'[candidates'[c].round_id].state = "closed"
         /\ rounds'[candidates'[c].round_id].accepted_candidate = c
  <2> SUFFICES ASSUME NEW c \in Candidates, candidates'[c].state \in Accepted
               PROVE  /\ candidates'[c].round_id \in 1..last_round_id
                      /\ rounds'[candidates'[c].round_id].state = "closed"
                      /\ rounds'[candidates'[c].round_id].accepted_candidate = c
    OBVIOUS
  <2>1. candidates[c].state \in Accepted /\ candidates'[c].round_id = candidates[c].round_id
    OBVIOUS
  <2> QED
    BY SMTT(30), <2>1 DEF RoundsMatchAcceptances
<1>4. RoundsMatchAcceptances'
  BY <1>2, <1>3 DEF RoundsMatchAcceptances
<1>5. NotifiedIffAccepted'
  <2> SUFFICES ASSUME NEW c \in Candidates
               PROVE  deliveries'[c] # "none" <=> candidates'[c].state \in Accepted /\ BlocknotifyEnabled
    BY DEF NotifiedIffAccepted
  <2>1. candidates'[c].state \in Accepted <=> candidates[c].state \in Accepted
    OBVIOUS
  <2> QED
    BY <2>1 DEF NotifiedIffAccepted
<1> QED
  BY <1>1, <1>4, <1>5

LEMMA AcceptKeepsRounds ==
    ASSUME RoundsInv, StoreTypeOK', AcceptStep
    PROVE  RoundsInv'
<1> PICK c \in Candidates, state \in Accepted :
        CanAccept(c, Unresolved) /\ AcceptInTransaction(c, state)
  BY DEF AcceptStep
<1> DEFINE r == last_round_id
<1>1. r \in Nat \ {0} /\ candidates[c].round_id = r /\ candidates[c].state \in Unresolved
  BY DEF RoundsInv, OneOpenRound, CanAccept, StoreTypeOK
<1>2. last_round_id' = r + 1
  BY DEF AcceptInTransaction
<1>3. /\ rounds'[r + 1] = OpenRound
      /\ rounds'[r] = ClosedBy(c, r)
      /\ \A q \in 1..(r - 1) : rounds'[q] = rounds[q]
  BY SMTT(30), <1>1 DEF AcceptInTransaction
<1>4. rounds'[r].state = "closed" /\ rounds'[r].accepted_candidate = c
  BY SMTT(30), <1>1, <1>3 DEF ClosedBy, RoundsInv, StoreTypeOK, RoundRows
<1>5. /\ candidates'[c].state = state
      /\ candidates'[c].round_id = r
      /\ \A d \in Candidates \ {c} : candidates'[d] = candidates[d]
  BY SMTT(30), <1>1 DEF AcceptInTransaction, RoundsInv, StoreTypeOK, CandidateRows
<1>6. \A q \in 1..(r - 1) : rounds[q].state = "closed"
  <2> TAKE q \in 1..(r - 1)
  <2>1. q \in 1..r /\ q # r
    BY SMTT(30), <1>1
  <2>2. rounds[q].state \in {"open", "closed"}
    BY <2>1 DEF RoundsInv, StoreTypeOK, RoundRows
  <2>3. rounds[q].state # "open"
    BY <2>1 DEF RoundsInv, OneOpenRound, OpenRounds
  <2> QED
    BY <2>2, <2>3
<1>7. OneOpenRound'
  <2>1. \A q \in 1..(r + 1) : rounds'[q].state = "open" <=> q = r + 1
    <3> TAKE q \in 1..(r + 1)
    <3>1. CASE q = r + 1
      BY SMTT(30), <1>3, <3>1 DEF OpenRound
    <3>2. CASE q = r
      BY SMTT(30), <1>1, <1>4, <3>2
    <3>3. CASE q \in 1..(r - 1)
      <4>1. rounds'[q].state = "closed"
        BY <1>3, <1>6, <3>3
      <4> QED
        BY SMTT(30), <1>1, <3>3, <4>1
    <3> QED
      BY SMTT(30), <1>1, <3>1, <3>2, <3>3
  <2> QED
    BY SMTT(30), <1>1, <1>2, <2>1 DEF OneOpenRound, OpenRounds
<1>8. \A q \in 1..(r + 1) : rounds'[q].state = "closed" =>
         /\ rounds'[q].accepted_candidate \in Candidates
         /\ candidates'[rounds'[q].accepted_candidate].state \in Accepted
         /\ candidates'[rounds'[q].accepted_candidate].round_id = q
  <2> SUFFICES ASSUME NEW q \in 1..(r + 1), rounds'[q].state = "closed"
               PROVE  /\ rounds'[q].accepted_candidate \in Candidates
                      /\ candidates'[rounds'[q].accepted_candidate].state \in Accepted
                      /\ candidates'[rounds'[q].accepted_candidate].round_id = q
    OBVIOUS
  <2>1. CASE q = r
    BY <1>4, <1>5, <2>1
  <2>2. CASE q = r + 1
    BY SMTT(30), <1>3, <2>2 DEF OpenRound
  <2>3. CASE q \in 1..(r - 1)
    <3> DEFINE d == rounds[q].accepted_candidate
    <3>1. d \in Candidates /\ candidates[d].state \in Accepted /\ candidates[d].round_id = q
      <4>1. q \in 1..last_round_id /\ rounds[q].state = "closed"
        BY SMTT(30), <1>1, <1>6, <2>3
      <4>2. RoundsMatchAcceptances
        BY DEF RoundsInv
      <4> QED
        BY <4>1, <4>2 DEF RoundsMatchAcceptances
    <3>2. d # c
      BY <1>1, <3>1
    <3> QED
      BY <1>3, <1>5, <2>3, <3>1, <3>2
  <2> QED
    BY SMTT(30), <1>1, <2>1, <2>2, <2>3
<1>9. \A d \in Candidates : candidates'[d].state \in Accepted =>
         /\ candidates'[d].round_id \in 1..(r + 1)
         /\ rounds'[candidates'[d].round_id].state = "closed"
         /\ rounds'[candidates'[d].round_id].accepted_candidate = d
  <2> SUFFICES ASSUME NEW d \in Candidates, candidates'[d].state \in Accepted
               PROVE  /\ candidates'[d].round_id \in 1..(r + 1)
                      /\ rounds'[candidates'[d].round_id].state = "closed"
                      /\ rounds'[candidates'[d].round_id].accepted_candidate = d
    OBVIOUS
  <2>1. CASE d = c
    BY SMTT(30), <1>1, <1>4, <1>5, <2>1
  <2>2. CASE d # c
    <3> DEFINE q == candidates[d].round_id
    <3>1. candidates'[d] = candidates[d]
      BY <1>5, <2>2
    <3>2. q \in 1..r /\ rounds[q].state = "closed" /\ rounds[q].accepted_candidate = d
      BY <3>1 DEF RoundsInv, RoundsMatchAcceptances
    <3>3. rounds[r].state = "open"
      BY <1>1 DEF RoundsInv, OneOpenRound, OpenRounds
    <3>4. q # r
      BY <3>2, <3>3
    <3>5. q \in 1..(r - 1)
      BY SMTT(30), <1>1, <3>2, <3>4
    <3>6. q \in 1..(r + 1)
      BY SMTT(30), <1>1, <3>2
    <3> QED
      BY <1>3, <3>1, <3>2, <3>5, <3>6
  <2> QED
    BY <2>1, <2>2
<1>10. RoundsMatchAcceptances'
  BY <1>2, <1>8, <1>9 DEF RoundsMatchAcceptances
<1>11. NotifiedIffAccepted'
  <2>1. /\ deliveries'[c] = OwedDelivery(c)
        /\ \A d \in Candidates \ {c} : deliveries'[d] = deliveries[d]
    BY DEF AcceptInTransaction, RoundsInv, StoreTypeOK
  <2>2. deliveries[c] = "none"
    BY <1>1 DEF RoundsInv, NotifiedIffAccepted
  <2> QED
    BY <1>5, <2>1, <2>2, BlocknotifyAssumption
       DEF OwedDelivery, RoundsInv, NotifiedIffAccepted
<1> QED
  BY <1>7, <1>10, <1>11 DEF RoundsInv

LEMMA RoundsNext == RoundsInv /\ [StoreNext]_storeVars => RoundsInv'
<1> SUFFICES ASSUME RoundsInv, [StoreNext]_storeVars PROVE RoundsInv'
  OBVIOUS
<1>1. StoreTypeOK'
  BY TypeNext DEF RoundsInv
<1>2. QuietStep \/ AcceptStep
  BY StepIsQuietOrAccepts DEF RoundsInv
<1> QED
  BY <1>1, <1>2, QuietKeepsRounds, AcceptKeepsRounds

\* At every moment exactly one round is open, the newest one, whatever the order
\* of attempts, lookups, late responses and restarts.
THEOREM RoundsStayOpen == StoreSpec => []OneOpenRound
BY RoundsInit, RoundsNext, PTL DEF StoreSpec, RoundsInv

\* A closed round belongs to exactly one accepted block and an accepted block has
\* closed exactly its own round, although two paths race to accept it.
THEOREM RoundsMatch == StoreSpec => []RoundsMatchAcceptances
BY RoundsInit, RoundsNext, PTL DEF StoreSpec, RoundsInv

\* Together: the tables are well typed, one round is open, and closed rounds and
\* accepted blocks match.
THEOREM RoundsCorrect == StoreSpec => []RoundsAreSound
BY TypeCorrectness, RoundsStayOpen, RoundsMatch, PTL DEF RoundsAreSound

\* The notification of a block is owed from the commit of its acceptance on, and
\* from no other moment.
THEOREM NotificationsMatch == StoreSpec => []NotifiedIffAccepted
BY RoundsInit, RoundsNext, PTL DEF StoreSpec, RoundsInv

\* No late response, lookup or restart changes the state of an accepted or
\* rejected candidate.
THEOREM Finality == StoreSpec => OutcomesAreFinal
<1> DEFINE Keep == \A c \in Candidates :
                      candidates[c].state \in Accepted \cup {"rejected"} =>
                          candidates'[c].state = candidates[c].state
<1>1. StoreTypeOK /\ [StoreNext]_storeVars => [Keep]_storeVars
  <2> SUFFICES ASSUME StoreTypeOK, [StoreNext]_storeVars PROVE Keep
    OBVIOUS
  <2>1. CASE QuietStep
    BY <2>1 DEF QuietStep
  <2>2. CASE AcceptStep
    <3> PICK c \in Candidates, state \in Accepted :
            CanAccept(c, Unresolved) /\ AcceptInTransaction(c, state)
      BY <2>2 DEF AcceptStep
    <3>1. candidates[c].state \in Unresolved
      BY DEF CanAccept
    <3>2. \A d \in Candidates \ {c} : candidates'[d] = candidates[d]
      BY DEF AcceptInTransaction, StoreTypeOK
    <3> QED
      BY <3>1, <3>2
  <2> QED
    BY <2>1, <2>2, StepIsQuietOrAccepts
<1> QED
  BY <1>1, TypeCorrectness, PTL DEF StoreSpec, OutcomesAreFinal

-----------------------------------------------------------------------------
(***************************************************************************)
(* CandidateStore implements CandidateLedger.                              *)
(***************************************************************************)

LEMMA StepIsLedgerStepOrAccepts ==
    ASSUME StoreTypeOK, [StoreNext]_storeVars
    PROVE  LedgerStep \/ AcceptStep
<1> USE DEF StoreTypeOK
<1>1. ASSUME NEW h \in Heights, NEW c \in Candidates \cup {NoCandidate}, InsertShare(h, c)
      PROVE  LedgerStep
  BY <1>1 DEF InsertShare, LedgerStep, Invisible, SameOutcome, SameHook
<1>2. ASSUME NEW c \in Candidates, NEW r \in 1..last_round_id, JournalCandidate(c, r)
      PROVE  LedgerStep
  <2>1. candidates'[c].state = "journaled" /\ \A d \in Candidates \ {c} : candidates'[d] = candidates[d]
    BY <1>2 DEF JournalCandidate, AbsentRow
  <2>2. Opens(c)
    BY <1>2, <2>1 DEF JournalCandidate, Opens, OthersSame, SameOutcome, SameHook
  <2> QED BY <2>2 DEF LedgerStep
<1>3. ASSUME NEW c \in Candidates, NEW n \in AttemptNumbers, StartCandidateAttempt(c, n)
      PROVE  LedgerStep
  BY SMTT(30), <1>3 DEF StartCandidateAttempt, CanStartAttempt, LedgerStep, Invisible, SameOutcome, SameHook,
     CandidateRows
<1>4. ASSUME NEW c \in Candidates, NEW n \in AttemptNumbers, NEW class \in AttemptClasses,
             NEW trusted \in BOOLEAN, FinishCandidateAttempt(c, n, class, trusted)
      PROVE  LedgerStep \/ AcceptStep
  <2>1. CASE FinishAttemptAfterAcceptance(c, n, class)
    BY <2>1 DEF FinishAttemptAfterAcceptance, LedgerStep, Invisible, SameOutcome, SameHook
  <2>2. CASE FinishAttemptAccepted(c, n)
    <3>1. CanAccept(c, Unresolved) /\ AcceptInTransaction(c, "accepted")
      BY <2>2 DEF FinishAttemptAccepted, CanAccept
    <3> QED
      BY <3>1 DEF AcceptStep
  <2>3. CASE FinishAttemptFailed(c, n, class, trusted)
    <3> DEFINE state == StateAfterFailure(c, n, class)
    <3>1. state \in {"retry_wait", "ambiguous", "rejected"}
      BY DEF StateAfterFailure
    <3>2. /\ candidates[c].state = "dispatching" /\ candidates'[c].state = state
          /\ \A d \in Candidates \ {c} : candidates'[d] = candidates[d]
          /\ deliveries' = deliveries
      <4> HIDE DEF state
      <4> QED BY SMTT(30), <2>3 DEF FinishAttemptFailed, StillDispatching, CandidateRows, state
    <3> HIDE DEF state
    <3>3. CASE state = "rejected"
      <4>1. Rejects(c)
        BY <3>2, <3>3 DEF Rejects, OthersSame, SameOutcome, SameHook
      <4> QED BY <4>1 DEF LedgerStep
    <3>4. CASE state \in {"retry_wait", "ambiguous"}
      BY <3>2, <3>4 DEF LedgerStep, Invisible, SameOutcome, SameHook
    <3> QED BY <3>1, <3>3, <3>4
  <2> QED
    BY <1>4, <2>1, <2>2, <2>3 DEF FinishCandidateAttempt
<1>5. ASSUME NEW c \in Candidates, NEW l \in Lookups, StartCandidateReconciliation(c, l)
      PROVE  LedgerStep
  BY SMTT(30), <1>5 DEF StartCandidateReconciliation, LedgerStep, Invisible, SameOutcome, SameHook, CandidateRows
<1>6. ASSUME NEW c \in Candidates, NEW l \in Lookups, NEW class \in LookupClasses,
             FinishCandidateReconciliation(c, l, class)
      PROVE  LedgerStep \/ AcceptStep
  <2>1. CASE UNCHANGED <<candidates, deliveries>>
    BY <2>1 DEF LedgerStep, Invisible, SameOutcome, SameHook
  <2>2. CASE CanAccept(c, Unresolved) /\ AcceptInTransaction(c, "accepted_by_reconciliation")
    BY <2>2 DEF AcceptStep
  <2> QED
    BY <1>6, <2>1, <2>2
       DEF FinishCandidateReconciliation, FinishReconciliationPositive, FinishReconciliationOther
<1>7. ASSUME NEW c \in Candidates, ExhaustCandidateReconciliation(c)
      PROVE  LedgerStep
  BY SMTT(30), <1>7 DEF ExhaustCandidateReconciliation, LedgerStep, Invisible, SameOutcome, SameHook, CandidateRows
<1>8. ASSUME NEW s \in Shares, NEW k \in VerdictKinds, NEW c \in Candidates, RecordVerdict(s, k, c)
      PROVE  LedgerStep
  BY <1>8 DEF RecordVerdict, LedgerStep, Invisible, SameOutcome, SameHook
<1>9. ASSUME NEW c \in Candidates, ClaimNextBlocknotify(c)
      PROVE  LedgerStep
  BY <1>9 DEF ClaimNextBlocknotify, Claimable, LedgerStep, Invisible, SameOutcome, SameHook, Owed
<1>10. ASSUME NEW c \in Candidates, NEW delivered \in BOOLEAN, FinishBlocknotify(c, delivered)
       PROVE  LedgerStep
  <2>1. CASE delivered
    <3>1. Delivers(c)
      BY <1>10, <2>1 DEF FinishBlocknotify, Delivers, OthersSame, SameOutcome, SameHook, Owed
    <3> QED BY <3>1 DEF LedgerStep
  <2>2. CASE ~delivered
    BY <1>10, <2>2 DEF FinishBlocknotify, LedgerStep, Invisible, SameOutcome, SameHook, Owed
  <2> QED BY <2>1, <2>2
<1>11. ASSUME ReopenDatabase
       PROVE  LedgerStep
  <2>1. ASSUME NEW c \in Candidates PROVE SameOutcome(c)
    <3>1. candidates'[c] = RecoveredRow(c)
      BY <1>11 DEF ReopenDatabase
    <3>2. CASE candidates[c].state # "dispatching"
      BY <3>1, <3>2 DEF RecoveredRow, SameOutcome
    <3>3. CASE candidates[c].state = "dispatching"
      <4>1. PICK state \in {"retry_wait", "ambiguous"} :
               candidates'[c] = [candidates[c] EXCEPT !.had_indeterminate = TRUE, !.state = state]
        BY <3>1, <3>3 DEF RecoveredRow
      <4> QED
        BY SMTT(30), <3>3, <4>1 DEF CandidateRows, SameOutcome
    <3> QED BY <3>2, <3>3
  <2>2. \A c \in Candidates : SameHook(c)
    BY <1>11 DEF ReopenDatabase, SameHook, Owed
  <2> QED BY <2>1, <2>2 DEF LedgerStep, Invisible
<1>12. CASE UNCHANGED storeVars
  BY <1>12 DEF storeVars, LedgerStep, Invisible, SameOutcome, SameHook
<1> QED
  BY SMTT(30), <1>1, <1>2, <1>3, <1>4, <1>5, <1>6, <1>7, <1>8, <1>9, <1>10, <1>11, <1>12 DEF StoreNext

-----------------------------------------------------------------------------
(* The refinement mapping. *)
LEMMA SameOutcomeMaps ==
    ASSUME StoreTypeOK, NEW c \in Candidates, SameOutcome(c)
    PROVE  OutcomeOf(c)' = OutcomeOf(c)
BY DEF SameOutcome, OutcomeOf

LEMMA SameHookMaps ==
    ASSUME StoreTypeOK, NEW c \in Candidates, SameHook(c)
    PROVE  HookOf(c)' = HookOf(c)
BY DEF SameHook, HookOf, Owed

LEMMA QuietKeepsWinners ==
    ASSUME StoreTypeOK, QuietStep
    PROVE  SameRounds
<1>1. last_round_id' = last_round_id /\ last_round_id \in Nat
  BY DEF QuietStep, StoreTypeOK
<1>2. \A r \in 1..(last_round_id - 1) : rounds'[r].accepted_candidate = rounds[r].accepted_candidate
  BY SMTT(30), <1>1 DEF QuietStep
<1> QED BY <1>1, <1>2 DEF SameRounds

LEMMA LedgerStepMaps ==
    ASSUME StoreTypeOK, LedgerStep, SameRounds
    PROVE  [Ledger!LedgerNext]_(Ledger!ledgerVars)
<1> DEFINE Outcomes == [c \in Candidates |-> OutcomeOf(c)]
           Hooks == [c \in Candidates |-> HookOf(c)]
<1>0. ASSUME NEW c \in Candidates, OthersSame(c)
      PROVE  \A d \in Candidates \ {c} : OutcomeOf(d)' = OutcomeOf(d) /\ HookOf(d)' = HookOf(d)
  BY <1>0, SameOutcomeMaps, SameHookMaps DEF OthersSame
<1>1. CASE Invisible
  <2>1. \A c \in Candidates : OutcomeOf(c)' = OutcomeOf(c) /\ HookOf(c)' = HookOf(c)
    BY <1>1, SameOutcomeMaps, SameHookMaps DEF Invisible
  <2>2. Outcomes' = Outcomes /\ Hooks' = Hooks
    BY <2>1
  <2> QED BY <2>2 DEF Ledger!ledgerVars, SameRounds
<1>2. ASSUME NEW c \in Candidates, Opens(c) PROVE Ledger!Open(c)
  <2>1. OutcomeOf(c) = "unknown" /\ OutcomeOf(c)' = "open" /\ HookOf(c)' = HookOf(c)
    BY <1>2, SameHookMaps DEF Opens, OutcomeOf
  <2>2. Outcomes' = [Outcomes EXCEPT ![c] = "open"] /\ Hooks' = Hooks
    BY <1>0, <1>2, <2>1 DEF Opens
  <2> QED BY <2>1, <2>2 DEF Ledger!Open, SameRounds
<1>3. ASSUME NEW c \in Candidates, Rejects(c) PROVE Ledger!Reject(c)
  <2>1. OutcomeOf(c) = "open" /\ OutcomeOf(c)' = "rejected" /\ HookOf(c)' = HookOf(c)
    BY <1>3, SameHookMaps DEF Rejects, OutcomeOf
  <2>2. Outcomes' = [Outcomes EXCEPT ![c] = "rejected"] /\ Hooks' = Hooks
    BY <1>0, <1>3, <2>1 DEF Rejects
  <2> QED BY <2>1, <2>2 DEF Ledger!Reject, SameRounds
<1>4. ASSUME NEW c \in Candidates, Delivers(c) PROVE Ledger!Deliver(c)
  <2>1. HookOf(c) = "owed" /\ HookOf(c)' = "delivered" /\ OutcomeOf(c)' = OutcomeOf(c)
    BY <1>4, SameOutcomeMaps DEF Delivers, HookOf, Owed
  <2>2. Hooks' = [Hooks EXCEPT ![c] = "delivered"] /\ Outcomes' = Outcomes
    BY <1>0, <1>4, <2>1 DEF Delivers
  <2> QED BY <2>1, <2>2 DEF Ledger!Deliver, SameRounds
<1> QED BY <1>1, <1>2, <1>3, <1>4 DEF LedgerStep, Ledger!LedgerNext

LEMMA AcceptMaps ==
    ASSUME RoundsInv, StoreTypeOK', AcceptStep
    PROVE  Ledger!LedgerNext
<1> PICK c \in Candidates, state \in Accepted :
        CanAccept(c, Unresolved) /\ AcceptInTransaction(c, state)
  BY DEF AcceptStep
<1> DEFINE last == last_round_id
           Outcomes == [d \in Candidates |-> OutcomeOf(d)]
           Hooks == [d \in Candidates |-> HookOf(d)]
           Winners == [r \in 1..(last_round_id - 1) |-> rounds[r].accepted_candidate]
<1>1. last \in Nat \ {0} /\ candidates[c].round_id = last /\ candidates[c].state \in Unresolved
  BY DEF RoundsInv, OneOpenRound, CanAccept, StoreTypeOK
<1>2. last_round_id' = last + 1
  BY DEF AcceptInTransaction
<1>3. /\ candidates'[c].state = state
      /\ \A d \in Candidates \ {c} : candidates'[d] = candidates[d]
  BY SMTT(30), <1>1 DEF AcceptInTransaction, RoundsInv, StoreTypeOK, CandidateRows
<1>4. /\ OutcomeOf(c) = "open" /\ OutcomeOf(c)' = "accepted"
      /\ \A d \in Candidates \ {c} : OutcomeOf(d)' = OutcomeOf(d)
  BY <1>1, <1>3 DEF OutcomeOf
<1>5. Outcomes' = [Outcomes EXCEPT ![c] = "accepted"]
  BY <1>4
<1>6. /\ rounds'[last].accepted_candidate = c
      /\ \A r \in 1..(last - 1) : rounds'[r] = rounds[r]
  <2>1. rounds[last] \in RoundRows
    BY SMTT(30), <1>1 DEF RoundsInv, StoreTypeOK
  <2>2. rounds'[last] = ClosedBy(c, last)
    BY SMTT(30), <1>1 DEF AcceptInTransaction
  <2>3. \A r \in 1..(last - 1) : rounds'[r] = rounds[r]
    BY SMTT(30), <1>1 DEF AcceptInTransaction
  <2> QED BY <2>1, <2>2, <2>3 DEF ClosedBy, RoundRows
<1>7. Winners' = [r \in 1..((last - 1) + 1) |-> IF r = (last - 1) + 1 THEN c ELSE Winners[r]]
  <2>1. (last - 1) + 1 = last /\ last_round_id' - 1 = last
    BY SMTT(30), <1>1, <1>2
  <2>2. Winners' = [r \in 1..last |-> rounds'[r].accepted_candidate]
    BY <2>1
  <2>3. \A r \in 1..last : r # last => r \in 1..(last - 1)
    BY SMTT(30), <1>1
  <2>4. \A r \in 1..last :
           rounds'[r].accepted_candidate = IF r = last THEN c ELSE Winners[r]
    BY <1>6, <2>3
  <2> QED BY <2>1, <2>2, <2>4
<1>8. /\ deliveries[c] = "none"
      /\ deliveries'[c] = IF BlocknotifyEnabled THEN "pending" ELSE "none"
      /\ \A d \in Candidates \ {c} : deliveries'[d] = deliveries[d]
  BY <1>1 DEF RoundsInv, NotifiedIffAccepted, AcceptInTransaction, OwedDelivery, StoreTypeOK
<1>9. /\ HookOf(c)' = IF BlocknotifyEnabled THEN "owed" ELSE HookOf(c)
      /\ \A d \in Candidates \ {c} : HookOf(d)' = HookOf(d)
  BY <1>8 DEF HookOf
<1>10. Hooks' = [Hooks EXCEPT ![c] = IF BlocknotifyEnabled THEN "owed" ELSE @]
  BY <1>9
<1>11. last_round_id' - 1 = (last - 1) + 1
  BY SMTT(30), <1>1, <1>2
<1>12. Ledger!Accept(c)
  BY <1>4, <1>5, <1>7, <1>10, <1>11 DEF Ledger!Accept
<1> QED BY <1>12 DEF Ledger!LedgerNext

LEMMA LedgerInitMaps == StoreInit => Ledger!LedgerInit
<1> SUFFICES ASSUME StoreInit PROVE Ledger!LedgerInit
  OBVIOUS
<1>1. [c \in Candidates |-> OutcomeOf(c)] = [c \in Candidates |-> "unknown"]
  BY DEF StoreInit, AbsentRow, OutcomeOf
<1>2. [c \in Candidates |-> HookOf(c)] = [c \in Candidates |-> "nothing"]
  BY DEF StoreInit, HookOf
<1>3. last_round_id - 1 = 0
  BY SMTT(30) DEF StoreInit
<1>4. [r \in 1..(last_round_id - 1) |-> rounds[r].accepted_candidate] = [r \in 1..0 |-> {}]
  <2>1. \A r \in 1..0 : rounds[r].accepted_candidate = {}
    BY SMTT(30)
  <2> QED BY <1>3, <2>1
<1> QED BY <1>1, <1>2, <1>3, <1>4 DEF Ledger!LedgerInit

\* Whatever the order of attempts, lookups, late answers and restarts, the tables follow
\* the ledger: a block is opened, then accepted or rejected once, its acceptance closes
\* the next round, and it is announced once.
THEOREM LedgerImplemented == StoreSpec => ImplementsLedger
<1>1. RoundsInv /\ [StoreNext]_storeVars => [Ledger!LedgerNext]_(Ledger!ledgerVars)
  <2> SUFFICES ASSUME RoundsInv, [StoreNext]_storeVars
               PROVE  [Ledger!LedgerNext]_(Ledger!ledgerVars)
    OBVIOUS
  <2>1. StoreTypeOK /\ StoreTypeOK'
    BY TypeNext DEF RoundsInv
  <2>2. CASE AcceptStep
    BY <2>1, <2>2, AcceptMaps
  <2>3. CASE LedgerStep /\ QuietStep
    BY <2>1, <2>3, QuietKeepsWinners, LedgerStepMaps
  <2> QED
    BY <2>1, <2>2, <2>3, StepIsLedgerStepOrAccepts, StepIsQuietOrAccepts
<1> QED
  BY <1>1, LedgerInitMaps, RoundsInit, RoundsNext, PTL
     DEF StoreSpec, ImplementsLedger, Ledger!LedgerSpec

-----------------------------------------------------------------------------
(* Heights.  That a closed round ends at its block is inductive only with    *)
(* what the open round says of the candidates and shares that belong to it:  *)
(* its maximum is at least their height.                                     *)
LEMMA HeightSteps ==
    ASSUME StoreTypeOK, [StoreNext]_storeVars
    PROVE  \/ LeavesHeights
           \/ \E h \in Heights, c \in Candidates \cup {NoCandidate} : InsertShare(h, c)
           \/ \E c \in Candidates, r \in 1..last_round_id : JournalCandidate(c, r)
           \/ AcceptStep
           \/ ReopenDatabase
<1> USE DEF StoreTypeOK
<1>1. ASSUME NEW c \in Candidates, NEW n \in AttemptNumbers, StartCandidateAttempt(c, n)
      PROVE  LeavesHeights
  BY SMTT(30), <1>1 DEF StartCandidateAttempt, CanStartAttempt, LeavesHeights, CandidateRows
<1>2. ASSUME NEW c \in Candidates, NEW n \in AttemptNumbers, NEW class \in AttemptClasses,
             NEW trusted \in BOOLEAN, FinishCandidateAttempt(c, n, class, trusted)
      PROVE  LeavesHeights \/ AcceptStep
  <2>1. CASE FinishAttemptAfterAcceptance(c, n, class)
    BY <2>1 DEF FinishAttemptAfterAcceptance, LeavesHeights
  <2>2. CASE FinishAttemptAccepted(c, n)
    <3>1. CanAccept(c, Unresolved) /\ AcceptInTransaction(c, "accepted")
      BY <2>2 DEF FinishAttemptAccepted, CanAccept
    <3> QED BY <3>1 DEF AcceptStep
  <2>3. CASE FinishAttemptFailed(c, n, class, trusted)
    BY SMTT(30), <2>3 DEF FinishAttemptFailed, StillDispatching, LeavesHeights, CandidateRows
  <2> QED BY <1>2, <2>1, <2>2, <2>3 DEF FinishCandidateAttempt
<1>3. ASSUME NEW c \in Candidates, NEW l \in Lookups, StartCandidateReconciliation(c, l)
      PROVE  LeavesHeights
  BY SMTT(30), <1>3 DEF StartCandidateReconciliation, LeavesHeights, CandidateRows
<1>4. ASSUME NEW c \in Candidates, NEW l \in Lookups, NEW class \in LookupClasses,
             FinishCandidateReconciliation(c, l, class)
      PROVE  LeavesHeights \/ AcceptStep
  <2>1. CASE UNCHANGED <<candidates, rounds, last_round_id, origin_rounds>>
    BY <2>1 DEF LeavesHeights
  <2>2. CASE CanAccept(c, Unresolved) /\ AcceptInTransaction(c, "accepted_by_reconciliation")
    BY <2>2 DEF AcceptStep
  <2> QED
    BY <1>4, <2>1, <2>2
       DEF FinishCandidateReconciliation, FinishReconciliationPositive, FinishReconciliationOther
<1>5. ASSUME NEW c \in Candidates, ExhaustCandidateReconciliation(c)
      PROVE  LeavesHeights
  BY SMTT(30), <1>5 DEF ExhaustCandidateReconciliation, LeavesHeights, CandidateRows
<1>6. ASSUME NEW s \in Shares, NEW k \in VerdictKinds, NEW c \in Candidates, RecordVerdict(s, k, c)
      PROVE  LeavesHeights
  BY <1>6 DEF RecordVerdict, LeavesHeights
<1>7. ASSUME NEW c \in Candidates, ClaimNextBlocknotify(c)
      PROVE  LeavesHeights
  BY <1>7 DEF ClaimNextBlocknotify, LeavesHeights
<1>8. ASSUME NEW c \in Candidates, NEW delivered \in BOOLEAN, FinishBlocknotify(c, delivered)
      PROVE  LeavesHeights
  BY <1>8 DEF FinishBlocknotify, LeavesHeights
<1>9. CASE UNCHANGED storeVars
  BY <1>9 DEF storeVars, LeavesHeights
<1> QED
  BY SMTT(30), <1>1, <1>2, <1>3, <1>4, <1>5, <1>6, <1>7, <1>8, <1>9 DEF StoreNext

LEMMA HeightsInit == StoreInit => HeightsInv
<1> SUFFICES ASSUME StoreInit PROVE HeightsInv
  OBVIOUS
<1>1. CandidatesFit /\ OriginsFit /\ ClosedRoundEndsAtItsBlock
  BY DEF StoreInit, CandidatesFit, OriginsFit, ClosedRoundEndsAtItsBlock, AbsentRow, OpenRound
<1> QED BY <1>1, RoundsInit DEF HeightsInv

\* Facts about heights and rows that every case uses.
LEMMA HeightFacts ==
    ASSUME HeightsInv
    PROVE  /\ last_round_id \in Nat \ {0}
           /\ \A h \in Heights \cup {0} : h \in Nat
           /\ \A c \in Candidates : CandidateHeight[c] \in Heights /\ CandidateHeight[c] \in Nat
           /\ \A r \in 1..last_round_id : rounds[r] \in RoundRows /\ rounds[r].max_share_height \in Nat
           /\ \A c \in Candidates : origin_rounds[c] \subseteq 1..last_round_id
           /\ OpenRounds = {last_round_id} /\ last_round_id \in 1..last_round_id
           /\ rounds[last_round_id].state = "open"
<1>1. StoreTypeOK /\ OneOpenRound
  BY DEF HeightsInv, RoundsInv
<1>2. last_round_id \in Nat \ {0} /\ \A h \in Heights \cup {0} : h \in Nat
  BY SMTT(30), <1>1, HeightsAssumption DEF StoreTypeOK
<1>3. \A c \in Candidates : CandidateHeight[c] \in Heights /\ CandidateHeight[c] \in Nat
  BY HeightsAssumption
<1>4. \A r \in 1..last_round_id : rounds[r] \in RoundRows /\ rounds[r].max_share_height \in Nat
  BY <1>1, <1>2 DEF StoreTypeOK, RoundRows
<1>5. \A c \in Candidates : origin_rounds[c] \subseteq 1..last_round_id
  BY <1>1 DEF StoreTypeOK
<1>6. OpenRounds = {last_round_id} /\ last_round_id \in 1..last_round_id
  BY SMTT(30), <1>1, <1>2 DEF OneOpenRound
<1>7. rounds[last_round_id].state = "open"
  BY <1>6 DEF OpenRounds
<1> QED BY <1>2, <1>3, <1>4, <1>5, <1>6, <1>7

\* Only the maximum of the open round changes.
LEMMA OpenRoundUpdated ==
    ASSUME HeightsInv, NEW h \in Nat,
           rounds' = [rounds EXCEPT ![last_round_id].max_share_height = h],
           last_round_id' = last_round_id
    PROVE  /\ rounds'[last_round_id].max_share_height = h
           /\ rounds'[last_round_id].state = "open"
           /\ \A r \in 1..last_round_id : r # last_round_id => rounds'[r] = rounds[r]
           /\ ClosedRoundEndsAtItsBlock'
<1>0. rounds \in [1..last_round_id -> RoundRows]
  BY DEF HeightsInv, RoundsInv, StoreTypeOK
<1>1. /\ rounds'[last_round_id].max_share_height = h
      /\ rounds'[last_round_id].state = "open"
  BY <1>0, HeightFacts DEF RoundRows
<1>2. \A r \in 1..last_round_id : r # last_round_id => rounds'[r] = rounds[r]
  BY <1>0, HeightFacts
<1>3. ClosedRoundEndsAtItsBlock'
  BY <1>1, <1>2 DEF HeightsInv, ClosedRoundEndsAtItsBlock
<1> QED BY <1>1, <1>2, <1>3

LEMMA HeightsNext == HeightsInv /\ [StoreNext]_storeVars => HeightsInv'
<1> SUFFICES ASSUME HeightsInv, [StoreNext]_storeVars PROVE HeightsInv'
  OBVIOUS
<1>0. RoundsInv' /\ StoreTypeOK /\ StoreTypeOK'
  BY RoundsNext DEF HeightsInv, RoundsInv
<1>1. CASE LeavesHeights
  <2>1. CandidatesFit'
    BY <1>1 DEF LeavesHeights, HeightsInv, CandidatesFit
  <2>2. OriginsFit' /\ ClosedRoundEndsAtItsBlock'
    BY <1>1 DEF LeavesHeights, HeightsInv, OriginsFit, ClosedRoundEndsAtItsBlock
  <2> QED BY <1>0, <2>1, <2>2 DEF HeightsInv
<1>2. ASSUME NEW h \in Heights, NEW c \in Candidates \cup {NoCandidate}, InsertShare(h, c)
      PROVE  HeightsInv'
  <2> DEFINE max == Higher(rounds[last_round_id].max_share_height, h)
  <2>1. max \in Nat /\ h <= max /\ rounds[last_round_id].max_share_height <= max
    BY SMTT(30), HeightFacts DEF Higher
  <2>2. /\ rounds' = [rounds EXCEPT ![last_round_id].max_share_height = max]
        /\ origin_rounds' = [d \in Candidates |->
                               IF d = c /\ candidates[c].state = "absent"
                               THEN origin_rounds[d] \cup {last_round_id} ELSE origin_rounds[d]]
        /\ last_round_id' = last_round_id /\ candidates' = candidates
        /\ c \in Candidates => CandidateHeight[c] = h
    BY <1>2, HeightFacts DEF InsertShare
  <2> HIDE DEF max
  <2>3. /\ rounds'[last_round_id].max_share_height = max
        /\ \A r \in 1..last_round_id : r # last_round_id => rounds'[r] = rounds[r]
        /\ ClosedRoundEndsAtItsBlock'
    BY <2>1, <2>2, OpenRoundUpdated
  <2>4. \A r \in 1..last_round_id : rounds[r].max_share_height <= rounds'[r].max_share_height
    BY SMTT(30), <2>1, <2>3, HeightFacts
  <2>5. \A r \in 1..last_round_id : rounds'[r].max_share_height \in Nat
    BY <2>1, <2>3, HeightFacts
  <2>6. CandidatesFit'
    <3> SUFFICES ASSUME NEW d \in Candidates, candidates[d].state # "absent"
                 PROVE  /\ candidates[d].round_id \in 1..last_round_id
                        /\ CandidateHeight[d] <= rounds'[candidates[d].round_id].max_share_height
      BY <2>2 DEF CandidatesFit
    <3> DEFINE r == candidates[d].round_id
    <3>1. r \in 1..last_round_id /\ CandidateHeight[d] <= rounds[r].max_share_height
      BY DEF HeightsInv, CandidatesFit
    <3> QED BY SMTT(30), <2>4, <2>5, <3>1, HeightFacts
  <2>7. OriginsFit'
    <3> SUFFICES ASSUME NEW d \in Candidates, NEW r \in origin_rounds'[d]
                 PROVE  CandidateHeight[d] <= rounds'[r].max_share_height
      BY DEF OriginsFit
    <3>1. CASE r \in origin_rounds[d]
      <4>1. r \in 1..last_round_id /\ CandidateHeight[d] <= rounds[r].max_share_height
        BY <3>1, HeightFacts DEF HeightsInv, OriginsFit
      <4> QED BY SMTT(30), <2>4, <2>5, <4>1, HeightFacts
    <3>2. CASE r \notin origin_rounds[d]
      <4>1. d = c /\ r = last_round_id
        BY <2>2, <3>2
      <4> QED BY <2>1, <2>2, <2>3, <4>1
    <3> QED BY <3>1, <3>2
  <2> QED BY <1>0, <2>3, <2>6, <2>7 DEF HeightsInv
<1>3. ASSUME NEW c \in Candidates, NEW r \in 1..last_round_id, JournalCandidate(c, r)
      PROVE  HeightsInv'
  <2>1. UNCHANGED <<rounds, last_round_id>> /\ r \in origin_rounds[c]
    BY <1>3 DEF JournalCandidate
  <2>2. \A d \in Candidates : origin_rounds'[d] \subseteq origin_rounds[d]
    BY <1>0, <1>3 DEF JournalCandidate, StoreTypeOK
  <2>3. candidates'[c].round_id = r /\ \A d \in Candidates \ {c} : candidates'[d] = candidates[d]
    BY <1>0, <1>3 DEF JournalCandidate, StoreTypeOK, AbsentRow
  <2>4. CandidateHeight[c] <= rounds[r].max_share_height
    BY <2>1 DEF HeightsInv, OriginsFit
  <2>5. CandidatesFit'
    BY <2>1, <2>3, <2>4 DEF HeightsInv, CandidatesFit
  <2>6. OriginsFit' /\ ClosedRoundEndsAtItsBlock'
    BY <2>1, <2>2 DEF HeightsInv, OriginsFit, ClosedRoundEndsAtItsBlock
  <2> QED BY <1>0, <2>5, <2>6 DEF HeightsInv
<1>4. CASE AcceptStep
  <2> PICK c \in Candidates, state \in Accepted :
          CanAccept(c, Unresolved) /\ AcceptInTransaction(c, state)
    BY <1>4 DEF AcceptStep
  <2> DEFINE last == last_round_id
  <2>1. /\ last_round_id' = last + 1 /\ origin_rounds' = origin_rounds
        /\ last \in Nat \ {0} /\ candidates[c].round_id = last /\ candidates[c].state # "absent"
        /\ ~(rounds[last].max_share_height > CandidateHeight[c])
    BY HeightFacts DEF CanAccept, AcceptInTransaction, HasHigherShare
  <2>2. /\ rounds'[last + 1] = OpenRound /\ rounds'[last] = ClosedBy(c, last)
        /\ \A r \in 1..(last - 1) : rounds'[r] = rounds[r]
    BY SMTT(30), <2>1 DEF AcceptInTransaction
  <2>3. /\ rounds'[last].max_share_height = rounds[last].max_share_height
        /\ rounds'[last].accepted_candidate = c
    BY <2>2, HeightFacts DEF ClosedBy, RoundRows
  <2>4. \A r \in 1..last : rounds'[r].max_share_height = rounds[r].max_share_height
    <3> TAKE r \in 1..last
    <3>1. r = last \/ r \in 1..(last - 1)
      BY SMTT(30), <2>1
    <3> QED BY <2>2, <2>3, <3>1
  <2>5. \A d \in Candidates :
           /\ candidates'[d].round_id = candidates[d].round_id
           /\ candidates'[d].state # "absent" => candidates[d].state # "absent"
    BY SMTT(30), <1>0, <2>1 DEF AcceptInTransaction, StoreTypeOK, CandidateRows
  <2>6. CandidatesFit'
    <3> SUFFICES ASSUME NEW d \in Candidates, candidates'[d].state # "absent"
                 PROVE  /\ candidates'[d].round_id \in 1..(last + 1)
                        /\ CandidateHeight[d] <= rounds'[candidates'[d].round_id].max_share_height
      BY <2>1 DEF CandidatesFit
    <3> DEFINE r == candidates[d].round_id
    <3>1. r \in 1..last /\ CandidateHeight[d] <= rounds[r].max_share_height
      BY <2>5 DEF HeightsInv, CandidatesFit
    <3>2. r \in 1..(last + 1)
      BY SMTT(30), <2>1, <3>1
    <3> QED BY <2>4, <2>5, <3>1, <3>2
  <2>7. OriginsFit'
    <3> SUFFICES ASSUME NEW d \in Candidates, NEW r \in origin_rounds[d]
                 PROVE  CandidateHeight[d] <= rounds'[r].max_share_height
      BY <2>1 DEF OriginsFit
    <3>1. r \in 1..last /\ CandidateHeight[d] <= rounds[r].max_share_height
      BY HeightFacts DEF HeightsInv, OriginsFit
    <3> QED BY <2>4, <3>1
  <2>8. rounds[last].max_share_height = CandidateHeight[c]
    <3>1. CandidateHeight[c] <= rounds[last].max_share_height
      BY <2>1 DEF HeightsInv, CandidatesFit
    <3> QED BY SMTT(30), <2>1, <3>1, HeightFacts
  <2>9. ClosedRoundEndsAtItsBlock'
    <3> SUFFICES ASSUME NEW r \in 1..(last + 1), rounds'[r].state = "closed"
                 PROVE  rounds'[r].max_share_height = CandidateHeight[rounds'[r].accepted_candidate]
      BY <2>1 DEF ClosedRoundEndsAtItsBlock
    <3>1. CASE r = last + 1
      BY SMTT(30), <2>2, <3>1 DEF OpenRound
    <3>2. CASE r = last
      BY <2>3, <2>8, <3>2
    <3>3. CASE r \in 1..(last - 1)
      <4>1. r \in 1..last_round_id /\ rounds'[r] = rounds[r]
        BY SMTT(30), <2>1, <2>2, <3>3
      <4> QED BY <4>1 DEF HeightsInv, ClosedRoundEndsAtItsBlock
    <3> QED BY SMTT(30), <2>1, <3>1, <3>2, <3>3
  <2> QED BY <1>0, <2>6, <2>7, <2>9 DEF HeightsInv
<1>5. CASE ReopenDatabase
  <2>1. PICK h \in Heights \cup {0} :
           h \in SurvivingHeights(last_round_id) /\ rounds' = [rounds EXCEPT ![last_round_id].max_share_height = h]
    BY <1>5, HeightFacts DEF ReopenDatabase
  <2>2. h \in Nat /\ last_round_id' = last_round_id
    BY <1>5, HeightFacts DEF ReopenDatabase
  <2>3. /\ rounds'[last_round_id].max_share_height = h
        /\ \A r \in 1..last_round_id : r # last_round_id => rounds'[r] = rounds[r]
        /\ ClosedRoundEndsAtItsBlock'
    BY <2>1, <2>2, OpenRoundUpdated
  <2>4. OriginsFit'
    BY <1>5 DEF ReopenDatabase, OriginsFit
  <2>5. \A c \in Candidates :
           /\ candidates'[c].round_id = candidates[c].round_id
           /\ candidates'[c].state # "absent" => candidates[c].state # "absent"
    <3> TAKE c \in Candidates
    <3>1. candidates'[c] = RecoveredRow(c) /\ candidates[c] \in CandidateRows
      BY <1>0, <1>5 DEF ReopenDatabase, StoreTypeOK
    <3>2. CASE candidates[c].state # "dispatching"
      BY <3>1, <3>2 DEF RecoveredRow
    <3>3. CASE candidates[c].state = "dispatching"
      <4>1. PICK state \in {"retry_wait", "ambiguous"} :
               candidates'[c] = [candidates[c] EXCEPT !.had_indeterminate = TRUE, !.state = state]
        BY <3>1, <3>3 DEF RecoveredRow
      <4> QED BY <3>1, <3>3, <4>1 DEF CandidateRows
    <3> QED BY <3>2, <3>3
  <2>6. CandidatesFit'
    <3> SUFFICES ASSUME NEW c \in Candidates, candidates'[c].state # "absent"
                 PROVE  /\ candidates'[c].round_id \in 1..last_round_id
                        /\ CandidateHeight[c] <= rounds'[candidates'[c].round_id].max_share_height
      BY <2>2 DEF CandidatesFit
    <3> DEFINE r == candidates[c].round_id
    <3>1. r \in 1..last_round_id /\ CandidateHeight[c] <= rounds[r].max_share_height
      BY <2>5 DEF HeightsInv, CandidatesFit
    <3>2. CASE r = last_round_id
      <4>1. CandidateHeight[c] <= h
        BY <2>1, <3>2 DEF SurvivingHeights
      <4> QED BY <2>3, <2>5, <3>1, <3>2, <4>1
    <3>3. CASE r # last_round_id
      BY <2>3, <2>5, <3>1, <3>3
    <3> QED BY <3>2, <3>3
  <2> QED BY <1>0, <2>3, <2>4, <2>6 DEF HeightsInv
<1> QED BY <1>0, <1>1, <1>2, <1>3, <1>4, <1>5, HeightSteps

\* Work for a later height never counts towards an earlier block's round, also when a
\* crash has lost the buffered accounting that would have shown it.
THEOREM RoundsEndAtTheirBlocks == StoreSpec => []ClosedRoundEndsAtItsBlock
<1>1. HeightsInv => ClosedRoundEndsAtItsBlock
  BY DEF HeightsInv
<1> QED BY <1>1, HeightsInit, HeightsNext, PTL DEF StoreSpec

-----------------------------------------------------------------------------
(***************************************************************************)
(* Verdicts and the evidence for them.                                     *)
(***************************************************************************)

(* The steps, as verdicts see them. *)
LEMMA EvidenceSteps ==
    ASSUME StoreTypeOK, [StoreNext]_storeVars
    PROVE  \/ Unsettling
           \/ \E c \in Candidates, r \in 1..last_round_id : JournalCandidate(c, r)
           \/ \E c \in Candidates, trusted \in BOOLEAN : RejectStep(c, trusted)
           \/ \E s \in Shares, k \in VerdictKinds, c \in Candidates : RecordVerdict(s, k, c)
           \/ AcceptStep
<1> USE DEF StoreTypeOK
<1>1. ASSUME NEW h \in Heights, NEW c \in Candidates \cup {NoCandidate}, InsertShare(h, c)
      PROVE  Unsettling
  BY <1>1 DEF InsertShare, Unsettling
<1>2. ASSUME NEW c \in Candidates, NEW n \in AttemptNumbers, StartCandidateAttempt(c, n)
      PROVE  Unsettling
  BY SMTT(30), <1>2 DEF StartCandidateAttempt, CanStartAttempt, Unsettling, CandidateRows
<1>3. ASSUME NEW c \in Candidates, NEW n \in AttemptNumbers, NEW class \in AttemptClasses,
             NEW trusted \in BOOLEAN, FinishCandidateAttempt(c, n, class, trusted)
      PROVE  Unsettling \/ RejectStep(c, trusted) \/ AcceptStep
  <2>1. CASE FinishAttemptAfterAcceptance(c, n, class)
    BY <2>1 DEF FinishAttemptAfterAcceptance, Unsettling
  <2>2. CASE FinishAttemptAccepted(c, n)
    <3>1. CanAccept(c, Unresolved) /\ AcceptInTransaction(c, "accepted")
      BY <2>2 DEF FinishAttemptAccepted, CanAccept
    <3> QED BY <3>1 DEF AcceptStep
  <2>3. CASE FinishAttemptFailed(c, n, class, trusted)
    <3> DEFINE state == StateAfterFailure(c, n, class)
    <3>1. state \in {"retry_wait", "ambiguous", "rejected"}
      BY DEF StateAfterFailure
    <3>2. /\ candidates[c].state = "dispatching" /\ candidates'[c].state = state
          /\ \A d \in Candidates \ {c} : candidates'[d] = candidates[d]
      <4> HIDE DEF state
      <4> QED BY SMTT(30), <2>3 DEF FinishAttemptFailed, StillDispatching, CandidateRows, state
    <3>3. IF state = "rejected"
          THEN /\ verdicts' = ResolveRejectedVerdicts(c)
               /\ abuse_events' = ResolvedEvents(c) \cup TrustedRejectionEvents(c, trusted)
          ELSE UNCHANGED verdictVars
      BY <2>3 DEF FinishAttemptFailed
    <3> HIDE DEF state
    <3>4. CASE state = "rejected"
      BY <3>2, <3>3, <3>4 DEF RejectStep
    <3>5. CASE state \in {"retry_wait", "ambiguous"}
      BY <3>2, <3>3, <3>5 DEF Unsettling
    <3> QED BY <3>1, <3>4, <3>5
  <2> QED BY <1>3, <2>1, <2>2, <2>3 DEF FinishCandidateAttempt
<1>4. ASSUME NEW c \in Candidates, NEW l \in Lookups, StartCandidateReconciliation(c, l)
      PROVE  Unsettling
  BY SMTT(30), <1>4 DEF StartCandidateReconciliation, Unsettling, CandidateRows
<1>5. ASSUME NEW c \in Candidates, NEW l \in Lookups, NEW class \in LookupClasses,
             FinishCandidateReconciliation(c, l, class)
      PROVE  Unsettling \/ AcceptStep
  <2>1. CASE UNCHANGED <<candidates, verdictVars>>
    BY <2>1 DEF Unsettling
  <2>2. CASE CanAccept(c, Unresolved) /\ AcceptInTransaction(c, "accepted_by_reconciliation")
    BY <2>2 DEF AcceptStep
  <2> QED
    BY <1>5, <2>1, <2>2
       DEF FinishCandidateReconciliation, FinishReconciliationPositive, FinishReconciliationOther
<1>6. ASSUME NEW c \in Candidates, ExhaustCandidateReconciliation(c)
      PROVE  Unsettling
  BY SMTT(30), <1>6 DEF ExhaustCandidateReconciliation, Unsettling, CandidateRows
<1>7. ASSUME NEW c \in Candidates, ClaimNextBlocknotify(c)
      PROVE  Unsettling
  BY <1>7 DEF ClaimNextBlocknotify, Unsettling
<1>8. ASSUME NEW c \in Candidates, NEW delivered \in BOOLEAN, FinishBlocknotify(c, delivered)
      PROVE  Unsettling
  BY <1>8 DEF FinishBlocknotify, Unsettling
<1>9. CASE ReopenDatabase
  <2>1. ASSUME NEW c \in Candidates
        PROVE  /\ candidates[c].state \in Unresolved => candidates'[c].state \in Unresolved
               /\ candidates[c].state = "rejected" => candidates'[c].state = "rejected"
    <3>1. candidates'[c] = RecoveredRow(c) /\ candidates[c] \in CandidateRows
      BY <1>9 DEF ReopenDatabase
    <3>2. CASE candidates[c].state # "dispatching"
      BY <3>1, <3>2 DEF RecoveredRow
    <3>3. CASE candidates[c].state = "dispatching"
      <4>1. PICK state \in {"retry_wait", "ambiguous"} :
               candidates'[c] = [candidates[c] EXCEPT !.had_indeterminate = TRUE, !.state = state]
        BY <3>1, <3>3 DEF RecoveredRow
      <4> QED BY <3>1, <3>3, <4>1 DEF CandidateRows
    <3> QED BY <3>2, <3>3
  <2> QED BY <1>9, <2>1 DEF ReopenDatabase, Unsettling
<1>10. CASE UNCHANGED storeVars
  BY <1>10 DEF storeVars, verdictVars, Unsettling
<1> QED
  BY SMTT(30), <1>1, <1>2, <1>3, <1>4, <1>5, <1>6, <1>7, <1>8, <1>9, <1>10 DEF StoreNext

-----------------------------------------------------------------------------
(* Events. *)
\* An event for a candidate's verdict is the one there is, or names the verdict.
LEMMA EventForTells ==
    ASSUME EvidenceInv, NEW c \in Candidates, NEW s \in Shares, NEW k \in VerdictKinds
    PROVE  /\ EventFor(c, s, k).candidate_id = c /\ EventFor(c, s, k).kind = AbuseKind(k)
           /\ EventFor(c, s, k) \in AbuseEvents /\ EventFor(c, s, k) # NoEvent
           /\ \A e \in abuse_events :
                 e.candidate_id = c /\ e.kind = AbuseKind(k) => e = EventFor(c, s, k)
<1>1. EventFor(c, s, k) \in AbuseEvents
  BY EventForType DEF EvidenceInv, StoreTypeOK
<1>2. EventFor(c, s, k).candidate_id = c /\ EventFor(c, s, k).kind = AbuseKind(k)
  BY DEF EventFor, EventsOf
<1>3. EventFor(c, s, k) # NoEvent
  BY SMTT(30), <1>2, NoCandidateAssumption DEF NoEvent
<1>4. ASSUME NEW e \in abuse_events, e.candidate_id = c, e.kind = AbuseKind(k)
      PROVE  e = EventFor(c, s, k)
  <2>1. e \in EventsOf(c, k)
    BY <1>4 DEF EventsOf
  <2>2. EventFor(c, s, k) \in EventsOf(c, k)
    BY <2>1 DEF EventFor
  <2> QED
    BY <1>2, <1>4, <2>2, NoCandidateAssumption DEF EventsOf, EvidenceInv, EventsAreUnique
<1> QED BY <1>1, <1>2, <1>3, <1>4

\* The kinds of verdicts have different kinds of events, none of them trusted mode's.
LEMMA KindsDiffer ==
    /\ \A k, j \in VerdictKinds : AbuseKind(k) = AbuseKind(j) => k = j
    /\ \A k \in VerdictKinds : AbuseKind(k) # "trusted_candidate_rejection"
BY DEF VerdictKinds, AbuseKind

LEMMA EvidenceInit == StoreInit => EvidenceInv
<1> SUFFICES ASSUME StoreInit PROVE EvidenceInv
  OBVIOUS
<1>1. verdicts = [v \in Verdicts |-> NoVerdict] /\ abuse_events = {}
  BY DEF StoreInit, VerdictsInit, Verdicts
<1>2. PendingOnlyWhileUnresolved /\ EventsAreTold /\ EventsAreUnique /\ EventsBackOne /\ EventsAreDeserved
  BY <1>1 DEF PendingOnlyWhileUnresolved, EventsAreTold, EventsAreUnique, EventsBackOne,
     EventsAreDeserved, Verdicts, NoVerdict
<1>3. VerdictsAreBooked
  BY <1>1 DEF VerdictsAreBooked, Verdicts, NoVerdict
<1> QED BY <1>2, <1>3, TypeInit DEF EvidenceInv

-----------------------------------------------------------------------------
(* One lemma for each kind of step. *)
LEMMA UnsettlingKeeps ==
    ASSUME EvidenceInv, StoreTypeOK', Unsettling
    PROVE  EvidenceInv'
<1>1. verdicts' = verdicts /\ abuse_events' = abuse_events
  BY DEF Unsettling, verdictVars
<1>2. PendingOnlyWhileUnresolved'
  BY <1>1 DEF Unsettling, EvidenceInv, PendingOnlyWhileUnresolved
<1>3. EventsAreDeserved'
  <2> SUFFICES ASSUME NEW e \in abuse_events, e.candidate_id # NoCandidate
               PROVE  candidates'[e.candidate_id].state = "rejected"
    BY <1>1 DEF EventsAreDeserved
  <2>1. e.candidate_id \in Candidates
    BY DEF EvidenceInv, StoreTypeOK, VerdictsTypeOK, AbuseEvents
  <2> QED BY <2>1 DEF Unsettling, EvidenceInv, EventsAreDeserved
<1>4. EventsAreTold' /\ EventsAreUnique' /\ EventsBackOne' /\ VerdictsAreBooked'
  BY <1>1 DEF EvidenceInv, EventsAreTold, EventsAreUnique, EventsBackOne, VerdictsAreBooked
<1> QED BY <1>2, <1>3, <1>4 DEF EvidenceInv

\* A candidate whose state changes without being or becoming rejected, while verdicts
\* keep their events.
LEMMA SameEventsKeep ==
    ASSUME EvidenceInv, abuse_events' = abuse_events,
           \A v \in Verdicts : verdicts'[v].abuse_event = verdicts[v].abuse_event,
           \A c \in Candidates : candidates[c].state = "rejected" => candidates'[c].state = "rejected"
    PROVE  EventsAreTold' /\ EventsAreUnique' /\ EventsBackOne' /\ EventsAreDeserved'
<1>1. EventsAreDeserved'
  <2> SUFFICES ASSUME NEW e \in abuse_events, e.candidate_id # NoCandidate
               PROVE  candidates'[e.candidate_id].state = "rejected"
    BY DEF EventsAreDeserved
  <2>1. e.candidate_id \in Candidates
    BY DEF EvidenceInv, StoreTypeOK, VerdictsTypeOK, AbuseEvents
  <2> QED BY <2>1 DEF EvidenceInv, EventsAreDeserved
<1>2. EventsAreTold' /\ EventsAreUnique' /\ EventsBackOne'
  BY SMTT(30) DEF EvidenceInv, EventsAreTold, EventsAreUnique, EventsBackOne
<1> QED BY <1>1, <1>2

LEMMA JournalKeeps ==
    ASSUME EvidenceInv, StoreTypeOK', NEW c \in Candidates, NEW r \in 1..last_round_id,
           JournalCandidate(c, r)
    PROVE  EvidenceInv'
<1>1. \A v \in Verdicts : verdicts'[v] = verdicts[v]
  <2> TAKE v \in Verdicts
  <2>1. ~(verdicts[v].candidate_id = NoCandidate /\ verdicts[v].disposition = "pending")
    BY NoCandidateAssumption DEF EvidenceInv, PendingOnlyWhileUnresolved, Verdicts
  <2> QED BY <2>1 DEF JournalCandidate, Linkable, Verdicts
<1>2. /\ candidates[c].state = "absent" /\ abuse_events' = abuse_events
      /\ \A d \in Candidates \ {c} : candidates'[d] = candidates[d]
  BY DEF JournalCandidate, EvidenceInv, StoreTypeOK
<1>3. PendingOnlyWhileUnresolved'
  BY SMTT(30), <1>1, <1>2 DEF EvidenceInv, PendingOnlyWhileUnresolved, Verdicts
<1>4. \A d \in Candidates : candidates[d].state = "rejected" => candidates'[d].state = "rejected"
  BY <1>2
<1>5. EventsAreTold' /\ EventsAreUnique' /\ EventsBackOne' /\ EventsAreDeserved'
  BY <1>1, <1>2, <1>4, SameEventsKeep
<1>6. VerdictsAreBooked'
  BY SMTT(30), <1>1, <1>2 DEF EvidenceInv, VerdictsAreBooked, Verdicts
<1> QED BY <1>3, <1>5, <1>6 DEF EvidenceInv

LEMMA AcceptKeeps ==
    ASSUME EvidenceInv, StoreTypeOK', AcceptStep
    PROVE  EvidenceInv'
<1> PICK c \in Candidates, state \in Accepted :
        CanAccept(c, Unresolved) /\ AcceptInTransaction(c, state)
  BY DEF AcceptStep
<1>1. /\ candidates[c].state \in Unresolved /\ abuse_events' = abuse_events
      /\ \A d \in Candidates \ {c} : candidates'[d] = candidates[d]
  BY DEF CanAccept, AcceptInTransaction, EvidenceInv, StoreTypeOK
<1>2. \A v \in Verdicts :
         verdicts'[v] = IF Pending(v, c) THEN [verdicts[v] EXCEPT !.disposition = "suppressed"]
                        ELSE verdicts[v]
  BY DEF AcceptInTransaction, SuppressPendingVerdicts, Verdicts
<1>3. ASSUME NEW v \in Verdicts
      PROVE  /\ verdicts'[v].abuse_event = verdicts[v].abuse_event
             /\ verdicts'[v].candidate_id = verdicts[v].candidate_id
             /\ verdicts'[v].disposition = "actionable" <=> verdicts[v].disposition = "actionable"
             /\ verdicts'[v].disposition = "pending" =>
                   verdicts'[v] = verdicts[v] /\ verdicts[v].candidate_id # c
  <2>1. verdicts[v] \in VerdictRows
    BY DEF EvidenceInv, StoreTypeOK, VerdictsTypeOK, Verdicts
  <2>2. CASE Pending(v, c)
    BY <1>2, <2>1, <2>2 DEF VerdictRows, Pending
  <2>3. CASE ~Pending(v, c)
    BY <1>2, <2>3 DEF Pending
  <2> QED BY <2>2, <2>3
<1>4. PendingOnlyWhileUnresolved'
  BY SMTT(30), <1>1, <1>3 DEF EvidenceInv, PendingOnlyWhileUnresolved, Verdicts
<1>5. \A d \in Candidates : candidates[d].state = "rejected" => candidates'[d].state = "rejected"
  BY <1>1
<1>6. EventsAreTold' /\ EventsAreUnique' /\ EventsBackOne' /\ EventsAreDeserved'
  BY <1>1, <1>3, <1>5, SameEventsKeep
<1>7. VerdictsAreBooked'
  BY SMTT(30), <1>1, <1>3 DEF EvidenceInv, VerdictsAreBooked, Verdicts
<1> QED BY <1>4, <1>6, <1>7 DEF EvidenceInv

LEMMA RejectKeeps ==
    ASSUME EvidenceInv, StoreTypeOK', NEW c \in Candidates, NEW trusted \in BOOLEAN,
           RejectStep(c, trusted)
    PROVE  EvidenceInv'
<1> DEFINE First(v) == FirstPending(c, v[2])
           Event(v) == EventFor(c, First(v), v[2])
           Charged(v) == Pending(v, c) /\ v[1] = First(v) /\ ~EventUsed(Event(v))
<1>0. ASSUME NEW v \in Verdicts PROVE v[1] \in Shares /\ v[2] \in VerdictKinds /\ v = <<v[1], v[2]>>
  BY SMTT(30) DEF Verdicts
<1>1. ASSUME NEW v \in Verdicts, Pending(v, c)
      PROVE  /\ First(v) \in Shares
             /\ Event(v).candidate_id = c /\ Event(v).kind = AbuseKind(v[2]) /\ Event(v) # NoEvent
  <2>1. SomePending(c, v[2])
    BY <1>0, <1>1 DEF SomePending
  <2>2. First(v) \in Shares
    BY <2>1, FirstPendingIsShare
  <2> QED BY SMTT(30), <1>0, <2>2, EventForTells
<1>2. ASSUME NEW v \in Verdicts
      PROVE  verdicts'[v] = IF ~Pending(v, c) THEN verdicts[v]
                            ELSE IF Charged(v)
                            THEN [verdicts[v] EXCEPT !.disposition = "actionable", !.abuse_event = Event(v)]
                            ELSE [verdicts[v] EXCEPT !.disposition = "suppressed"]
  BY DEF RejectStep, ResolveRejectedVerdicts, Verdicts
<1> HIDE DEF Charged
<1>3. ASSUME NEW v \in Verdicts
      PROVE  /\ Charged(v) => verdicts'[v].abuse_event = Event(v) /\ verdicts'[v].disposition = "actionable"
             /\ ~Charged(v) =>
                   /\ verdicts'[v].abuse_event = verdicts[v].abuse_event
                   /\ verdicts'[v].disposition = "actionable" <=> verdicts[v].disposition = "actionable"
             /\ verdicts'[v].candidate_id = verdicts[v].candidate_id
             /\ verdicts'[v].disposition = "pending" =>
                   verdicts'[v] = verdicts[v] /\ verdicts[v].candidate_id # c
  <2>1. verdicts[v] \in VerdictRows
    BY DEF EvidenceInv, StoreTypeOK, VerdictsTypeOK, Verdicts
  <2>2. CASE ~Pending(v, c)
    BY <1>2, <2>2 DEF Pending, Charged
  <2>3. CASE Pending(v, c) /\ Charged(v)
    BY <1>2, <2>1, <2>3 DEF VerdictRows
  <2>4. CASE Pending(v, c) /\ ~Charged(v)
    BY <1>2, <2>1, <2>4 DEF VerdictRows, Pending
  <2> QED BY <2>2, <2>3, <2>4
<1>4. PendingOnlyWhileUnresolved'
  BY SMTT(30), <1>3 DEF RejectStep, EvidenceInv, PendingOnlyWhileUnresolved, Verdicts
<1>5. EventsAreTold'
  <2> SUFFICES ASSUME NEW v \in Verdicts, verdicts'[v].abuse_event # NoEvent
               PROVE  /\ verdicts'[v].abuse_event.kind = AbuseKind(v[2])
                      /\ verdicts'[v].abuse_event.candidate_id = NoCandidate =>
                            verdicts'[v].abuse_event.share_id = v[1]
    BY DEF EventsAreTold
  <2>1. CASE Charged(v)
    BY SMTT(30), <1>1, <1>3, <2>1, NoCandidateAssumption DEF Charged
  <2>2. CASE ~Charged(v)
    BY <1>3, <2>2 DEF EvidenceInv, EventsAreTold
  <2> QED BY <2>1, <2>2
<1>6. EventsBackOne'
  <2> SUFFICES ASSUME NEW v \in Verdicts, NEW w \in Verdicts, verdicts'[v].abuse_event # NoEvent,
                      verdicts'[v].abuse_event = verdicts'[w].abuse_event
               PROVE  v = w
    BY DEF EventsBackOne
  <2>1. CASE Charged(v) /\ Charged(w)
    <3>1. Event(v) = Event(w) /\ Pending(v, c) /\ Pending(w, c)
      BY <1>3, <2>1 DEF Charged
    <3>2. AbuseKind(v[2]) = AbuseKind(w[2])
      BY <1>1, <3>1
    <3>3. v[2] = w[2]
      BY <1>0, <3>2, KindsDiffer
    <3>4. v[1] = w[1]
      BY <2>1, <3>3 DEF Charged
    <3> QED BY <1>0, <3>3, <3>4
  <2>2. CASE Charged(v) /\ ~Charged(w)
    BY <1>3, <2>2 DEF Charged, EventUsed, Verdicts
  <2>3. CASE ~Charged(v) /\ Charged(w)
    BY <1>3, <2>3 DEF Charged, EventUsed, Verdicts
  <2>4. CASE ~Charged(v) /\ ~Charged(w)
    BY <1>3, <2>4 DEF EvidenceInv, EventsBackOne
  <2> QED BY <2>1, <2>2, <2>3, <2>4
<1>7. \A e \in abuse_events : e.candidate_id # c
  <2> TAKE e \in abuse_events
  <2> QED BY NoCandidateAssumption DEF EvidenceInv, EventsAreDeserved, RejectStep
<1>8. ASSUME NEW e \in abuse_events'
      PROVE  \/ e \in abuse_events
             \/ e.candidate_id = c /\ \E k \in VerdictKinds :
                   SomePending(c, k) /\ e = EventFor(c, FirstPending(c, k), k) /\ e.kind = AbuseKind(k)
             \/ /\ e.candidate_id = c /\ e.kind = "trusted_candidate_rejection"
                /\ e = [candidate_id |-> c, share_id |-> OriginShare, kind |-> "trusted_candidate_rejection"]
  <2>1. CASE e \in TrustedRejectionEvents(c, trusted)
    BY SMTT(30), <2>1 DEF TrustedRejectionEvents
  <2>2. CASE e \in ResolvedEvents(c) /\ e \notin abuse_events
    <3>1. PICK k \in VerdictKinds : SomePending(c, k) /\ e = EventFor(c, FirstPending(c, k), k)
      BY <2>2 DEF ResolvedEvents
    <3>2. FirstPending(c, k) \in Shares
      BY <3>1, FirstPendingIsShare
    <3> QED BY <3>1, <3>2, EventForTells
  <2> QED BY <2>1, <2>2 DEF RejectStep
<1>9. EventsAreUnique'
  <2> SUFFICES ASSUME NEW e \in abuse_events', NEW f \in abuse_events',
                      e.candidate_id # NoCandidate, e.candidate_id = f.candidate_id, e.kind = f.kind
               PROVE  e = f
    BY DEF EventsAreUnique
  <2>1. CASE e \in abuse_events /\ f \in abuse_events
    BY <2>1 DEF EvidenceInv, EventsAreUnique
  <2>2. CASE e.candidate_id = c
    <3>1. e \notin abuse_events /\ f \notin abuse_events
      BY <1>7, <2>2
    <3>2. CASE e.kind = "trusted_candidate_rejection"
      BY <1>8, <3>1, <3>2, KindsDiffer
    <3>3. CASE e.kind # "trusted_candidate_rejection"
      <4>1. PICK k \in VerdictKinds : e = EventFor(c, FirstPending(c, k), k) /\ e.kind = AbuseKind(k)
        BY <1>8, <3>1, <3>3
      <4>2. PICK j \in VerdictKinds : f = EventFor(c, FirstPending(c, j), j) /\ f.kind = AbuseKind(j)
        BY <1>8, <3>1, <3>3
      <4>3. k = j
        BY <4>1, <4>2, KindsDiffer
      <4> QED BY <4>1, <4>2, <4>3
    <3> QED BY <3>2, <3>3
  <2> QED BY <1>8, <2>1, <2>2
<1>10. EventsAreDeserved'
  <2> SUFFICES ASSUME NEW e \in abuse_events', e.candidate_id # NoCandidate
               PROVE  candidates'[e.candidate_id].state = "rejected"
    BY DEF EventsAreDeserved
  <2>1. CASE e \in abuse_events
    <3>1. e.candidate_id \in Candidates \ {c}
      BY <1>7, <2>1 DEF EvidenceInv, StoreTypeOK, VerdictsTypeOK, AbuseEvents
    <3> QED BY <2>1, <3>1 DEF RejectStep, EvidenceInv, EventsAreDeserved
  <2>2. CASE e.candidate_id = c
    BY <2>2 DEF RejectStep
  <2> QED BY <1>8, <2>1, <2>2
<1>11. abuse_events \subseteq abuse_events'
  BY DEF RejectStep, ResolvedEvents
<1>12. ASSUME NEW v \in Verdicts, Charged(v)
       PROVE  Event(v) \in abuse_events' /\ Event(v) # NoEvent /\ Event(v).candidate_id = verdicts[v].candidate_id
  <2>1. Pending(v, c) /\ SomePending(c, v[2])
    BY <1>0, <1>12 DEF Charged, SomePending
  <2>2. Event(v) \in ResolvedEvents(c)
    BY <1>0, <2>1 DEF ResolvedEvents
  <2> QED BY <1>1, <2>1, <2>2 DEF RejectStep, Pending
<1>13. ASSUME NEW v \in Verdicts
       PROVE  /\ verdicts'[v].disposition = "actionable" <=> verdicts'[v].abuse_event # NoEvent
              /\ verdicts'[v].abuse_event # NoEvent =>
                    /\ verdicts'[v].abuse_event \in abuse_events'
                    /\ verdicts'[v].abuse_event.candidate_id = verdicts'[v].candidate_id
  <2>1. CASE Charged(v)
    BY <1>3, <1>12, <2>1
  <2>2. CASE ~Charged(v)
    BY SMTT(30), <1>3, <1>11, <2>2 DEF EvidenceInv, VerdictsAreBooked, Verdicts
  <2> QED BY <2>1, <2>2
<1>14. ASSUME NEW e \in abuse_events', e.candidate_id = NoCandidate
       PROVE  \E v \in Verdicts : verdicts'[v].abuse_event = e
  <2>1. e \in abuse_events
    BY <1>8, <1>14, NoCandidateAssumption
  <2>2. PICK v \in Verdicts : verdicts[v].abuse_event = e
    BY <1>14, <2>1 DEF EvidenceInv, VerdictsAreBooked, Verdicts
  <2>3. e # NoEvent
    <3>1. e.kind \in AbuseKinds
      BY <2>1 DEF EvidenceInv, StoreTypeOK, VerdictsTypeOK, AbuseEvents
    <3>2. "none" \notin AbuseKinds
      BY DEF AbuseKinds, AbuseKind, VerdictKinds
    <3> QED BY SMTT(30), <3>1, <3>2 DEF NoEvent
  <2>4. ~Charged(v)
    <3>1. verdicts[v].disposition = "actionable"
      BY <2>2, <2>3 DEF EvidenceInv, VerdictsAreBooked, Verdicts
    <3> QED BY <3>1 DEF Charged, Pending
  <2> QED BY <1>3, <2>2, <2>4
<1>15. VerdictsAreBooked'
  BY <1>13, <1>14 DEF VerdictsAreBooked, Verdicts
<1> QED BY <1>4, <1>5, <1>6, <1>9, <1>10, <1>15 DEF EvidenceInv

LEMMA RecordKeeps ==
    ASSUME EvidenceInv, StoreTypeOK', NEW s \in Shares, NEW k \in VerdictKinds, NEW c \in Candidates,
           RecordVerdict(s, k, c)
    PROVE  EvidenceInv'
<1> DEFINE v0 == <<s, k>>
           state == candidates[c].state
           e0 == EventFor(c, s, k)
           alone == [candidate_id |-> NoCandidate, share_id |-> s, kind |-> AbuseKind(k)]
           row == VerdictRow(s, k, c, state)
<1>1. /\ v0 \in Verdicts /\ verdicts[v0] = NoVerdict /\ candidates' = candidates
      /\ verdicts'[v0] = row /\ \A v \in Verdicts \ {v0} : verdicts'[v] = verdicts[v]
  BY DEF RecordVerdict, RecordCandidateVerdict, EvidenceInv, StoreTypeOK, VerdictsTypeOK, Verdicts
<1>2. abuse_events' = IF state = "rejected" THEN abuse_events \cup {e0}
                      ELSE IF row.abuse_event = NoEvent THEN abuse_events
                      ELSE abuse_events \cup {row.abuse_event}
  BY DEF RecordVerdict, RecordCandidateVerdict
<1>3. /\ e0.candidate_id = c /\ e0.kind = AbuseKind(k) /\ e0 # NoEvent
      /\ \A e \in abuse_events : e.candidate_id = c /\ e.kind = AbuseKind(k) => e = e0
  BY EventForTells
<1>4. alone # NoEvent
  BY AbuseKindType DEF NoEvent, AbuseKind, VerdictKinds
<1>5. state \in CandidateStates
  BY DEF EvidenceInv, StoreTypeOK, CandidateRows
<1>6. /\ state = "absent" =>
            row.disposition = "actionable" /\ row.abuse_event = alone /\ row.candidate_id = NoCandidate
      /\ state \in Accepted => row.disposition = "suppressed" /\ row.abuse_event = NoEvent
      /\ state = "rejected" /\ ~EventUsed(e0) =>
            row.disposition = "actionable" /\ row.abuse_event = e0 /\ row.candidate_id = c
      /\ state = "rejected" /\ EventUsed(e0) => row.disposition = "suppressed" /\ row.abuse_event = NoEvent
      /\ state \in Unresolved =>
            row.disposition = "pending" /\ row.candidate_id = c /\ row.abuse_event = NoEvent
  BY DEF VerdictRow
<1> HIDE DEF row, e0, state
<1>7. PendingOnlyWhileUnresolved'
  <2> SUFFICES ASSUME NEW v \in Verdicts, verdicts'[v].disposition = "pending"
               PROVE  /\ verdicts'[v].candidate_id \in Candidates
                      /\ candidates'[verdicts'[v].candidate_id].state \in Unresolved
    BY DEF PendingOnlyWhileUnresolved, Verdicts
  <2>1. CASE v = v0
    <3>1. state \in Unresolved
      BY <1>1, <1>5, <1>6, <2>1 DEF CandidateStates
    <3> QED BY <1>1, <1>6, <2>1, <3>1 DEF state
  <2>2. CASE v # v0
    BY <1>1, <2>2 DEF EvidenceInv, PendingOnlyWhileUnresolved, Verdicts
  <2> QED BY <2>1, <2>2
<1>8. \/ row.abuse_event = NoEvent
      \/ row.abuse_event = alone /\ state = "absent"
      \/ row.abuse_event = e0 /\ ~EventUsed(e0) /\ state = "rejected"
  BY <1>5, <1>6 DEF CandidateStates
<1>9. EventsAreTold'
  <2> SUFFICES ASSUME NEW v \in Verdicts, verdicts'[v].abuse_event # NoEvent
               PROVE  /\ verdicts'[v].abuse_event.kind = AbuseKind(v[2])
                      /\ verdicts'[v].abuse_event.candidate_id = NoCandidate =>
                            verdicts'[v].abuse_event.share_id = v[1]
    BY DEF EventsAreTold
  <2>1. CASE v = v0
    <3>1. v[1] = s /\ v[2] = k /\ verdicts'[v] = row
      BY <1>1, <2>1
    <3>2. CASE row.abuse_event = alone
      BY SMTT(30), <3>1, <3>2
    <3>3. CASE row.abuse_event = e0
      BY <1>3, <3>1, <3>3, NoCandidateAssumption
    <3> QED BY <1>8, <3>1, <3>2, <3>3
  <2>2. CASE v # v0
    BY <1>1, <2>2 DEF EvidenceInv, EventsAreTold
  <2> QED BY <2>1, <2>2
<1>10. ASSUME NEW v \in Verdicts \ {v0}, row.abuse_event # NoEvent
       PROVE  verdicts[v].abuse_event # row.abuse_event
  <2>1. CASE row.abuse_event = alone
    <3> SUFFICES ASSUME verdicts[v].abuse_event = alone PROVE FALSE
      BY <2>1
    <3>1. alone.kind = AbuseKind(v[2]) /\ alone.share_id = v[1]
      BY SMTT(30), <1>4 DEF EvidenceInv, EventsAreTold
    <3>2. v[1] = s /\ v[2] = k
      BY <3>1, KindsDiffer DEF Verdicts
    <3> QED BY SMTT(30), <3>2 DEF Verdicts
  <2>2. CASE row.abuse_event = e0 /\ ~EventUsed(e0)
    BY <2>2 DEF EventUsed, Verdicts
  <2> QED BY <1>8, <1>10, <2>1, <2>2
<1>11. EventsBackOne'
  <2> SUFFICES ASSUME NEW v \in Verdicts, NEW w \in Verdicts, verdicts'[v].abuse_event # NoEvent,
                      verdicts'[v].abuse_event = verdicts'[w].abuse_event, v # w
               PROVE  FALSE
    BY DEF EventsBackOne
  <2>1. CASE v = v0
    BY <1>1, <1>10, <2>1
  <2>2. CASE w = v0
    BY <1>1, <1>10, <2>2
  <2>3. CASE v # v0 /\ w # v0
    BY <1>1, <2>3 DEF EvidenceInv, EventsBackOne
  <2> QED BY <2>1, <2>2, <2>3
<1>12. \A e \in abuse_events' : \/ e \in abuse_events
                                \/ e.candidate_id = NoCandidate
                                \/ e = e0 /\ state = "rejected"
  BY SMTT(30), <1>2, <1>8
<1>13. EventsAreUnique'
  <2> SUFFICES ASSUME NEW e \in abuse_events', NEW f \in abuse_events',
                      e.candidate_id # NoCandidate, e.candidate_id = f.candidate_id, e.kind = f.kind
               PROVE  e = f
    BY DEF EventsAreUnique
  <2>1. CASE e \in abuse_events /\ f \in abuse_events
    BY <2>1 DEF EvidenceInv, EventsAreUnique
  <2>2. CASE e = e0
    BY <1>3, <1>12, <2>2
  <2>3. CASE f = e0
    BY <1>3, <1>12, <2>3
  <2> QED BY <1>12, <2>1, <2>2, <2>3
<1>14. EventsAreDeserved'
  <2> SUFFICES ASSUME NEW e \in abuse_events', e.candidate_id # NoCandidate
               PROVE  candidates[e.candidate_id].state = "rejected"
    BY <1>1 DEF EventsAreDeserved
  <2>1. CASE e \in abuse_events
    BY <2>1 DEF EvidenceInv, EventsAreDeserved
  <2>2. CASE e = e0 /\ state = "rejected"
    BY <1>3, <2>2 DEF state
  <2> QED BY <1>12, <2>1, <2>2
<1>15. abuse_events \subseteq abuse_events'
  BY <1>2
<1>16. /\ row.disposition = "actionable" <=> row.abuse_event # NoEvent
       /\ row.abuse_event # NoEvent =>
             row.abuse_event \in abuse_events' /\ row.abuse_event.candidate_id = row.candidate_id
  <2>1. alone.candidate_id = NoCandidate
    OBVIOUS
  <2> HIDE DEF alone
  <2>2. CASE state = "absent"
    BY <1>2, <1>4, <1>6, <2>1, <2>2
  <2>3. CASE state = "rejected"
    BY <1>2, <1>3, <1>6, <2>3
  <2>4. CASE state \in Accepted \cup Unresolved
    BY <1>6, <2>4
  <2> QED BY <1>5, <2>2, <2>3, <2>4 DEF CandidateStates
<1>17. ASSUME NEW v \in Verdicts
       PROVE  /\ verdicts'[v].disposition = "actionable" <=> verdicts'[v].abuse_event # NoEvent
              /\ verdicts'[v].abuse_event # NoEvent =>
                    /\ verdicts'[v].abuse_event \in abuse_events'
                    /\ verdicts'[v].abuse_event.candidate_id = verdicts'[v].candidate_id
  <2>1. CASE v = v0
    BY <1>1, <1>16, <2>1
  <2>2. CASE v # v0
    BY SMTT(30), <1>1, <1>15, <2>2 DEF EvidenceInv, VerdictsAreBooked, Verdicts
  <2> QED BY <2>1, <2>2
<1>18. ASSUME NEW e \in abuse_events', e.candidate_id = NoCandidate
       PROVE  \E v \in Verdicts : verdicts'[v].abuse_event = e
  <2>1. e # e0
    BY <1>3, <1>18, NoCandidateAssumption
  <2>2. CASE e \in abuse_events
    <3>1. PICK v \in Verdicts : verdicts[v].abuse_event = e
      BY <1>18, <2>2 DEF EvidenceInv, VerdictsAreBooked, Verdicts
    <3>2. e # NoEvent
      <4>1. e.kind \in AbuseKinds
        BY <2>2 DEF EvidenceInv, StoreTypeOK, VerdictsTypeOK, AbuseEvents
      <4>2. "none" \notin AbuseKinds
        BY DEF AbuseKinds, AbuseKind, VerdictKinds
      <4> QED BY SMTT(30), <4>1, <4>2 DEF NoEvent
    <3>3. v # v0
      BY SMTT(30), <1>1, <3>1, <3>2 DEF NoVerdict
    <3> QED BY <1>1, <3>1, <3>3
  <2>3. CASE e = row.abuse_event
    BY <1>1, <2>3
  <2> QED BY <1>2, <2>1, <2>2, <2>3
<1>19. VerdictsAreBooked'
  BY <1>17, <1>18 DEF VerdictsAreBooked, Verdicts
<1> QED BY <1>7, <1>9, <1>11, <1>13, <1>14, <1>19 DEF EvidenceInv

LEMMA EvidenceNext == EvidenceInv /\ [StoreNext]_storeVars => EvidenceInv'
<1> SUFFICES ASSUME EvidenceInv, [StoreNext]_storeVars PROVE EvidenceInv'
  OBVIOUS
<1>1. StoreTypeOK /\ StoreTypeOK'
  BY TypeNext DEF EvidenceInv
<1> QED
  BY <1>1, EvidenceSteps, UnsettlingKeeps, JournalKeeps, AcceptKeeps, RejectKeeps, RecordKeeps

\* A verdict linked to a candidate waits only as long as the candidate's outcome is open, and
\* is charged at most once per kind of evidence and only if the daemon has rejected it; a
\* verdict recorded before its key was journaled stays without a candidate and is charged for
\* its own share alone, whatever becomes of the block.  Both tables agree about all of them.
THEOREM EvidenceCorrect == StoreSpec => []VerdictsFollowOutcomes
<1>1. EvidenceInv => VerdictsFollowOutcomes
  BY DEF EvidenceInv, VerdictsFollowOutcomes, EvidenceChargedOnce, EventsAreUnique, EventsBackOne,
     EventsAreDeserved, Verdicts
<1> QED BY <1>1, EvidenceInit, EvidenceNext, PTL DEF StoreSpec

-----------------------------------------------------------------------------
(***************************************************************************)
(* The use of the database, the boundary, and rejected blocks.             *)
(***************************************************************************)

(* Tasks. *)
LEMMA TaskIdParts ==
    ASSUME NEW t \in TaskIds
    PROVE  /\ t[1] \in Candidates /\ t[2] \in 0..(MaxAttempts - 1) /\ t = <<t[1], t[2]>>
           /\ ~Quick(t) => t = Owner(t[1])
BY SMTT(30) DEF TaskIds, Quick, Owner

LEMMA OwnerIsTask ==
    ASSUME NEW c \in Candidates
    PROVE  Owner(c) \in TaskIds /\ Owner(c)[1] = c /\ ~Quick(Owner(c))
BY SMTT(30), MaxAttemptsAssumption DEF TaskIds, Quick, Owner

LEMMA NoTaskType == NoTask \in TaskRows
BY SMTT(30), MaxCycleAssumption DEF NoTask, TaskRows

LEMMA NextCycleType ==
    ASSUME NEW n \in 0..MaxCycle
    PROVE  NextCycle(n) \in 1..MaxCycle /\ NextCycle(n) \in 0..MaxCycle
BY SMTT(30), MaxCycleAssumption DEF NextCycle

LEMMA LookupRowType ==
    ASSUME TasksTypeOK, NEW t \in TaskIds
    PROVE  LookupRow(t) \in Lookups
<1>1. tasks[t].cycle \in 0..MaxCycle
  BY DEF TasksTypeOK, TaskRows
<1>2. NextCycle(tasks[t].cycle) \in Cycles
  BY <1>1, NextCycleType DEF Cycles
<1> QED BY <1>2, RuntimeAssumption DEF LookupRow, Lookups

-----------------------------------------------------------------------------
(* The runtime's steps are steps of the database or do not touch it. *)
LEMMA StepIsStoreStep ==
    ASSUME TasksTypeOK, [Next]_vars
    PROVE  [StoreNext]_storeVars
<1>1. CASE UNCHANGED storeVars
  BY <1>1
<1>2. ASSUME NEW h \in Heights, NEW c \in Candidates \cup {NoCandidate}, ProcessShare(h, c)
      PROVE  StoreNext
  BY <1>2 DEF ProcessShare, StoreNext
<1>3. ASSUME NEW c \in Candidates, NEW r \in 1..last_round_id, Journal(c, r)
      PROVE  StoreNext
  BY <1>3 DEF Journal, StoreNext
<1>4. ASSUME NEW t \in TaskIds, TaskStep(t)
      PROVE  [StoreNext]_storeVars
  <2> DEFINE c == t[1]
             n == candidates[c].attempt_count
  <2>0. c \in Candidates /\ LookupRow(t) \in Lookups
    BY TaskIdParts, LookupRowType
  <2>1. CASE UNCHANGED storeVars
    BY <2>1
  <2>2. CASE SubmitDispatch(t)
    <3>1. StartCandidateAttempt(c, n + 1)
      BY <2>2 DEF SubmitDispatch
    <3>2. n + 1 \in AttemptNumbers
      BY <3>1 DEF StartCandidateAttempt, CanStartAttempt
    <3> QED BY <2>0, <3>1, <3>2 DEF StoreNext
  <2>3. ASSUME NEW class \in AttemptClasses, FinishCandidateAttempt(c, n, class, TrustedMode)
        PROVE  StoreNext
    <3>1. n \in AttemptNumbers
      BY <2>3 DEF FinishCandidateAttempt, FinishAttemptAfterAcceptance, FinishAttemptAccepted,
         FinishAttemptFailed, ActiveAttempt
    <3> QED BY <2>0, <2>3, <3>1, RuntimeAssumption DEF StoreNext
  <2>4. CASE LookupDispatch(t)
    BY <2>0, <2>4 DEF LookupDispatch, StoreNext
  <2>5. ASSUME NEW class \in LookupClasses, LookupFinish(t, class)
        PROVE  StoreNext
    BY <2>0, <2>5 DEF LookupFinish, StoreNext
  <2>6. CASE EndExhausted(t)
    BY <2>0, <2>6 DEF EndExhausted, StoreNext
  <2>7. "indeterminate" \in AttemptClasses
    BY DEF AttemptClasses
  <2> QED
    BY <1>4, <2>1, <2>2, <2>3, <2>4, <2>5, <2>6, <2>7
    DEF TaskStep, TakeTerminal, TakeSubmit, TakeLookup, SubmitRefused, SubmitException, SubmitFinish,
        LookupFails, EndQuick, EndRequeue, RecoverLookup
<1>5. CASE Restart
  BY <1>5 DEF Restart, StoreNext
<1> QED
  BY <1>1, <1>2, <1>3, <1>4, <1>5
  DEF Next, vars, FetchTemplate, PublishTemplate, HoldTemplate, IssueJob, JournalExisting,
      DaemonHandles, DaemonHandlesLate, ChainGrows, StartWorkers

-----------------------------------------------------------------------------
(* Types of the tasks.  A step of a task replaces its row. *)
LEMMA TaskColumns ==
    ASSUME NEW row \in TaskRows
    PROVE  /\ row.pc \in TaskPcs /\ row.reconciliation_only \in BOOLEAN /\ row.resume \in BOOLEAN
           /\ row.cycle \in 0..MaxCycle /\ row.reply \in {"none", "ok", "rejection"}
BY DEF TaskRows, TaskPcs

LEMMA PcUpdate ==
    ASSUME NEW row \in TaskRows, NEW pc \in TaskPcs
    PROVE  [row EXCEPT !.pc = pc] \in TaskRows
BY DEF TaskRows, TaskPcs

LEMMA ReplyUpdate ==
    ASSUME NEW row \in TaskRows, NEW reply \in {"none", "ok", "rejection"}
    PROVE  [row EXCEPT !.reply = reply] \in TaskRows
BY DEF TaskRows

LEMMA ModeUpdate ==
    ASSUME NEW row \in TaskRows, NEW b \in BOOLEAN
    PROVE  [row EXCEPT !.reconciliation_only = b] \in TaskRows
BY DEF TaskRows

LEMMA ResumeUpdate ==
    ASSUME NEW row \in TaskRows, NEW b \in BOOLEAN
    PROVE  [row EXCEPT !.resume = b] \in TaskRows
BY DEF TaskRows

LEMMA TaskCycleUpdate ==
    ASSUME NEW row \in TaskRows, NEW n \in 0..MaxCycle
    PROVE  [row EXCEPT !.cycle = n] \in TaskRows
BY DEF TaskRows

-----------------------------------------------------------------------------
(* What ties a candidate to the daemon and to its tasks. *)
LEMMA SameKeeps ==
    ASSUME NEW c \in Candidates, CandidateInv(c), SameCandidate(c), SameSubmission(c),
           c \in in_chain' \cup wire' => c \in in_chain \cup wire
    PROVE  CandidateInv(c)'
<1> USE DEF CandidateInv, SameCandidate, SameSubmission
<1>1. DispatchIsOwned(c)'
  BY DEF DispatchIsOwned
<1>2. RefusalsAreRecorded(c)'
  BY DEF RefusalsAreRecorded, AttemptNumbers
<1>3. RejectedIsUsedUp(c)'
  BY DEF RejectedIsUsedUp
<1>4. ChainIsKnown(c)'
  BY DEF ChainIsKnown
<1> QED BY <1>1, <1>2, <1>3, <1>4

LEMMA AcceptedKeeps ==
    ASSUME NEW c \in Candidates, candidates'[c].state \in Accepted
    PROVE  CandidateInv(c)'
BY DEF CandidateInv, DispatchIsOwned, RefusalsAreRecorded, RejectedIsUsedUp, ChainIsKnown

LEMMA TaskReplaced ==
    ASSUME TasksTypeOK, QuickLooksUp, NEW t \in TaskIds, NEW row \in TaskRows,
           tasks' = [tasks EXCEPT ![t] = row],
           Quick(t) => /\ row.pc \notin {"submit", "submit_rpc"}
                       /\ row.pc # "none" => row.reconciliation_only
    PROVE  TasksTypeOK' /\ QuickLooksUp'
<1>1. TasksTypeOK'
  BY DEF TasksTypeOK
<1>2. ASSUME NEW u \in TaskIds PROVE LooksUpOnly(u)'
  <2>1. CASE u = t
    BY <2>1 DEF LooksUpOnly, TasksTypeOK, Quick
  <2>2. CASE u # t
    BY <2>2 DEF LooksUpOnly, TasksTypeOK, Quick, QuickLooksUp
  <2> QED BY <2>1, <2>2
<1> QED BY <1>1, <1>2 DEF QuickLooksUp

LEMMA LooksOnKeeps ==
    ASSUME RuntimeInv, NEW t \in TaskIds, NEW row, LooksOn(t, row),
           \A c \in Candidates : SameCandidate(c) \/ candidates'[c].state \in Accepted,
           UNCHANGED <<in_chain, wire>>
    PROVE  TasksTypeOK' /\ QuickLooksUp' /\ \A c \in Candidates : CandidateInv(c)'
<1>1. TasksTypeOK' /\ QuickLooksUp'
  BY TaskReplaced DEF RuntimeInv, LooksOn
<1>2. ASSUME NEW c \in Candidates PROVE SameSubmission(c)
  <2>1. CASE t = Owner(c)
    BY <2>1 DEF LooksOn, SameSubmission, RuntimeInv, TasksTypeOK
  <2>2. CASE t # Owner(c)
    BY <2>2, OwnerIsTask DEF LooksOn, SameSubmission, RuntimeInv, TasksTypeOK
  <2> QED BY <2>1, <2>2
<1>3. ASSUME NEW c \in Candidates PROVE CandidateInv(c)'
  BY <1>2, SameKeeps, AcceptedKeeps DEF RuntimeInv
<1> QED BY <1>1, <1>3

-----------------------------------------------------------------------------
(* The boundary. *)
LEMMA BoundarySame ==
    ASSUME BoundaryIsUnresolved, boundary' = boundary,
           \A c \in Candidates :
               candidates'[c].state \in Unresolved <=> candidates[c].state \in Unresolved
    PROVE  BoundaryIsUnresolved'
BY DEF BoundaryIsUnresolved, UnresolvedCandidates

\* After a transaction on candidate c the boundary follows its new state.
LEMMA BoundaryReleased ==
    ASSUME BoundaryIsUnresolved, NEW c \in Candidates, ReleaseByState(c, candidates'[c].state),
           candidates'[c].state \in Unresolved => candidates[c].state \in Unresolved,
           \A d \in Candidates \ {c} :
               candidates'[d].state \in Unresolved <=> candidates[d].state \in Unresolved
    PROVE  BoundaryIsUnresolved'
<1>1. CASE candidates'[c].state \in Unresolved
  BY <1>1 DEF BoundaryIsUnresolved, UnresolvedCandidates, ReleaseByState
<1>2. CASE candidates'[c].state \notin Unresolved
  <2>1. boundary' = boundary \ {c}
    BY <1>2 DEF ReleaseByState, ReleaseAccepted, ReleaseRejected
  <2> QED BY <1>2, <2>1 DEF BoundaryIsUnresolved, UnresolvedCandidates
<1> QED BY <1>1, <1>2

-----------------------------------------------------------------------------
(* Steps of a task that are no submission. *)
LEMMA UntouchedStore ==
    ASSUME UNCHANGED storeVars, NEW c \in Candidates
    PROVE  SameCandidate(c)
BY DEF SameCandidate, storeVars

LEMMA TaskTypes ==
    ASSUME RuntimeInv, NEW t \in TaskIds
    PROVE  /\ tasks[t] \in TaskRows
           /\ tasks[t].pc \in TaskPcs
           /\ Quick(t) => /\ tasks[t].pc \notin {"submit", "submit_rpc"}
                          /\ tasks[t].pc # "none" => tasks[t].reconciliation_only
           /\ t[1] \in Candidates
BY TaskIdParts, TaskColumns DEF RuntimeInv, TasksTypeOK, QuickLooksUp, LooksUpOnly

\* Steps of a task that leave the database alone.
LEMMA LocalStepKeeps ==
    ASSUME RuntimeInv, NEW t \in TaskIds,
           \/ TakeTerminal(t) \/ TakeSubmit(t) \/ TakeLookup(t) \/ SubmitRefused(t)
           \/ LookupFails(t) \/ EndQuick(t) \/ EndRequeue(t) \/ RecoverLookup(t)
    PROVE  RuntimeInv'
<1> USE DEF TaskPcs
<1>0. /\ tasks[t] \in TaskRows /\ tasks[t].pc \in TaskPcs
      /\ Quick(t) => /\ tasks[t].pc \notin {"submit", "submit_rpc"}
                     /\ tasks[t].pc # "none" => tasks[t].reconciliation_only
      /\ t[1] \in Candidates
  BY TaskTypes
<1>1. UNCHANGED <<storeVars, in_chain, wire>>
  BY DEF TakeTerminal, TakeSubmit, TakeLookup, SubmitRefused, LookupFails, EndQuick, EndRequeue,
     RecoverLookup, daemonVars
<1>2. StoreTypeOK'
  BY <1>1, TypeNext DEF RuntimeInv
<1>3. \A c \in Candidates : SameCandidate(c)
  BY <1>1, UntouchedStore
<1>4. BoundaryIsUnresolved'
  <2>1. CASE TakeTerminal(t)
    BY <1>0, <1>1, <2>1, BoundaryReleased DEF TakeTerminal, storeVars, RuntimeInv
  <2>2. CASE boundary' = boundary
    BY <1>1, <2>2, BoundarySame DEF storeVars, RuntimeInv
  <2> QED BY <2>1, <2>2 DEF TakeSubmit, TakeLookup, SubmitRefused, LookupFails, EndQuick, EndRequeue,
     RecoverLookup, publicationVars
<1>5. \A pc \in TaskPcs : /\ [tasks[t] EXCEPT !.pc = pc] \in TaskRows
                          /\ [tasks[t] EXCEPT !.pc = pc].pc = pc
                          /\ [tasks[t] EXCEPT !.pc = pc].reconciliation_only
                                = tasks[t].reconciliation_only
  <2> SUFFICES ASSUME NEW pc \in TaskPcs
               PROVE  /\ [tasks[t] EXCEPT !.pc = pc] \in TaskRows
                      /\ [tasks[t] EXCEPT !.pc = pc].pc = pc
                      /\ [tasks[t] EXCEPT !.pc = pc].reconciliation_only
                            = tasks[t].reconciliation_only
    OBVIOUS
  <2>1. [tasks[t] EXCEPT !.pc = pc] \in TaskRows
    BY <1>0, PcUpdate
  <2>2. [tasks[t] EXCEPT !.pc = pc].pc = pc
    BY <1>0 DEF TaskRows
  <2>3. [tasks[t] EXCEPT !.pc = pc].reconciliation_only = tasks[t].reconciliation_only
    BY <1>0 DEF TaskRows
  <2> QED BY <2>1, <2>2, <2>3
<1>6. \E row : LooksOn(t, row)
  <2>1. CASE Drop(t) /\ tasks[t].pc \in {"queued", "ended"}
    <3>1. NoTask \in TaskRows /\ NoTask.pc = "none"
      BY NoTaskType DEF NoTask
    <3>2. LooksOn(t, NoTask)
      BY <2>1, <3>1 DEF LooksOn, Drop
    <3> QED BY <3>2
  <2>2. ASSUME NEW pc \in {"submit", "expected_hash", "queued", "ended"},
               tasks' = [tasks EXCEPT ![t].pc = pc],
               tasks[t].pc \notin {"none", "submit_rpc"}, Quick(t) => pc # "submit"
        PROVE  \E row : LooksOn(t, row)
    <3>1. tasks' = [tasks EXCEPT ![t] = [tasks[t] EXCEPT !.pc = pc]]
      BY <2>2
    <3>2. LooksOn(t, [tasks[t] EXCEPT !.pc = pc])
      BY SMTT(30), <1>0, <1>5, <2>2, <3>1 DEF LooksOn
    <3> QED BY <3>2
  <2>3. CASE EndRequeue(t)
    <3> DEFINE row == [tasks[t] EXCEPT !.pc = "queued",
                    !.cycle = NextCycle(tasks[t].cycle),
                    !.reconciliation_only = ~tasks[t].resume,
                    !.resume = FALSE]
    <3>1. tasks[t].cycle \in 0..MaxCycle /\ NextCycle(tasks[t].cycle) \in 0..MaxCycle
      BY <1>0, TaskColumns, NextCycleType
    <3>2. (~tasks[t].resume) \in BOOLEAN
      OBVIOUS
    <3>3. \A b \in BOOLEAN, n \in 0..MaxCycle :
             [tasks[t] EXCEPT !.pc = "queued", !.cycle = n, !.reconciliation_only = b,
                              !.resume = FALSE] \in TaskRows
      BY <1>0 DEF TaskRows
    <3>4. row \in TaskRows
      BY <3>1, <3>2, <3>3
    <3>5. row.pc = "queued"
      BY <1>0 DEF TaskRows
    <3>6. LooksOn(t, row)
      BY <2>3, <3>4, <3>5 DEF LooksOn, EndRequeue
    <3> QED BY <3>6
  <2>4. CASE TakeTerminal(t)
    BY <2>1, <2>4 DEF TakeTerminal, CanTake
  <2>5. CASE EndQuick(t)
    BY <2>1, <2>5 DEF EndQuick
  <2>6. CASE TakeSubmit(t)
    BY <1>0, <2>2, <2>6 DEF TakeSubmit, CanTake
  <2>7. CASE TakeLookup(t)
    BY <2>2, <2>7 DEF TakeLookup, CanTake
  <2>8. CASE SubmitRefused(t)
    BY <2>2, <2>8 DEF SubmitRefused, Requeue
  <2>9. CASE LookupFails(t)
    BY <2>2, <2>9 DEF LookupFails, AtBarrier
  <2>10. CASE RecoverLookup(t)
    BY <2>2, <2>10 DEF RecoverLookup
  <2> QED BY <2>3, <2>4, <2>5, <2>6, <2>7, <2>8, <2>9, <2>10
<1>7. TasksTypeOK' /\ QuickLooksUp' /\ \A c \in Candidates : CandidateInv(c)'
  BY <1>1, <1>3, <1>6, LooksOnKeeps
<1> QED BY <1>2, <1>4, <1>7 DEF RuntimeInv

-----------------------------------------------------------------------------
(* Lookups: they touch no attempt and at most accept the candidate. *)
LEMMA RowReplaced ==
    ASSUME NEW t \in TaskIds, NEW pc \in TaskPcs, tasks[t] \in TaskRows,
           tasks' = [tasks EXCEPT ![t].pc = pc], tasks[t].pc # "submit_rpc",
           pc \notin {"submit", "submit_rpc"}, Quick(t) => tasks[t].reconciliation_only
    PROVE  \E row : LooksOn(t, row)
<1> DEFINE row == [tasks[t] EXCEPT !.pc = pc]
<1>1. row \in TaskRows
  BY PcUpdate
<1>2. row.pc = pc
  BY DEF TaskRows
<1>3. row.reconciliation_only = tasks[t].reconciliation_only
  BY DEF TaskRows
<1>4. tasks' = [tasks EXCEPT ![t] = row]
  OBVIOUS
<1>5. LooksOn(t, row)
  BY <1>1, <1>2, <1>3, <1>4 DEF LooksOn
<1> QED BY <1>5

LEMMA RowDropped ==
    ASSUME NEW t \in TaskIds, Drop(t), tasks[t].pc # "submit_rpc"
    PROVE  \E row : LooksOn(t, row)
<1>1. NoTask \in TaskRows /\ NoTask.pc = "none"
  BY NoTaskType DEF NoTask
<1>2. LooksOn(t, NoTask)
  BY <1>1 DEF LooksOn, Drop
<1> QED BY <1>2

LEMMA LookupDispatchKeeps ==
    ASSUME RuntimeInv, NEW t \in TaskIds, LookupDispatch(t)
    PROVE  RuntimeInv'
<1>0. /\ tasks[t] \in TaskRows /\ t[1] \in Candidates
      /\ Quick(t) /\ tasks[t].pc # "none" => tasks[t].reconciliation_only
  BY TaskTypes
<1>1. StoreTypeOK'
  BY StepIsStoreStep, TypeNext DEF RuntimeInv, Next, TaskStep
<1>2. ASSUME NEW c \in Candidates PROVE SameCandidate(c)
  BY SMTT(30), <1>0 DEF LookupDispatch, StartCandidateReconciliation, SameCandidate, RuntimeInv, StoreTypeOK,
     CandidateRows
<1>3. BoundaryIsUnresolved'
  BY <1>2, BoundarySame DEF LookupDispatch, publicationVars, RuntimeInv, SameCandidate
<1>4. \E row : LooksOn(t, row)
  <2> DEFINE pc == IF tasks[t].pc = "height" THEN "height_rpc" ELSE "expected_hash_rpc"
  <2>1. tasks' = [tasks EXCEPT ![t].pc = pc] /\ tasks[t].pc \in {"expected_hash", "height"}
    BY DEF LookupDispatch, AtBarrier
  <2>2. pc \in TaskPcs /\ pc \notin {"submit", "submit_rpc"}
    BY DEF TaskPcs
  <2> HIDE DEF pc
  <2> QED BY <1>0, <2>1, <2>2, RowReplaced
<1>5. UNCHANGED <<in_chain, wire>>
  BY DEF LookupDispatch, daemonVars
<1> QED BY <1>1, <1>2, <1>3, <1>4, <1>5, LooksOnKeeps DEF RuntimeInv

LEMMA EndExhaustedKeeps ==
    ASSUME RuntimeInv, NEW t \in TaskIds, EndExhausted(t)
    PROVE  RuntimeInv'
<1>0. t[1] \in Candidates
  BY TaskTypes
<1>1. StoreTypeOK'
  BY StepIsStoreStep, TypeNext DEF RuntimeInv, Next, TaskStep
<1>2. ASSUME NEW c \in Candidates PROVE SameCandidate(c)
  BY SMTT(30), <1>0 DEF EndExhausted, ExhaustCandidateReconciliation, SameCandidate, RuntimeInv, StoreTypeOK,
     CandidateRows
<1>3. BoundaryIsUnresolved'
  BY <1>2, BoundarySame DEF EndExhausted, publicationVars, RuntimeInv, SameCandidate
<1>4. \E row : LooksOn(t, row)
  BY RowDropped DEF EndExhausted
<1>5. UNCHANGED <<in_chain, wire>>
  BY DEF EndExhausted, daemonVars
<1> QED BY <1>1, <1>2, <1>3, <1>4, <1>5, LooksOnKeeps DEF RuntimeInv

LEMMA LookupFinishKeeps ==
    ASSUME RuntimeInv, NEW t \in TaskIds, NEW class \in LookupClasses, LookupFinish(t, class)
    PROVE  RuntimeInv'
<1> DEFINE c == t[1]
<1>0. /\ tasks[t] \in TaskRows /\ c \in Candidates
      /\ Quick(t) /\ tasks[t].pc # "none" => tasks[t].reconciliation_only
  BY TaskTypes
<1>1. StoreTypeOK'
  BY StepIsStoreStep, TypeNext DEF RuntimeInv, Next, TaskStep
<1>2. attempts' = attempts
  BY DEF LookupFinish, FinishCandidateReconciliation, FinishReconciliationPositive,
     FinishReconciliationOther
<1>3. \/ candidates' = candidates
      \/ /\ candidates' = [candidates EXCEPT ![c].state = "accepted_by_reconciliation"]
         /\ candidates[c].state \in Unresolved
  BY DEF LookupFinish, FinishCandidateReconciliation, FinishReconciliationPositive,
     FinishReconciliationOther, AcceptInTransaction, CanAccept
<1>4. ASSUME NEW d \in Candidates
      PROVE  /\ SameCandidate(d) \/ candidates'[d].state \in Accepted
             /\ d # c => candidates'[d] = candidates[d]
  BY SMTT(30), <1>0, <1>2, <1>3 DEF SameCandidate, RuntimeInv, StoreTypeOK, CandidateRows
<1>5. candidates'[c].state \in Unresolved => candidates[c].state \in Unresolved
  BY <1>3
<1>6. UNCHANGED <<in_chain, wire>>
  BY DEF LookupFinish, daemonVars
<1>7. CASE candidates'[c].state \in Accepted
  <2>1. BoundaryIsUnresolved'
    BY <1>0, <1>4, <1>5, <1>7, BoundaryReleased DEF LookupFinish, RuntimeInv
  <2>2. \E row : LooksOn(t, row)
    BY <1>7, RowDropped DEF LookupFinish
  <2> QED BY <1>1, <1>4, <1>6, <2>1, <2>2, LooksOnKeeps DEF RuntimeInv
<1>8. CASE candidates'[c].state \notin Accepted
  <2>0. candidates' = candidates
    <3>1. [candidates EXCEPT ![c].state = "accepted_by_reconciliation"][c].state \in Accepted
      BY SMTT(30), <1>0 DEF RuntimeInv, StoreTypeOK, CandidateRows
    <3> QED BY <1>3, <1>8, <3>1
  <2>1. BoundaryIsUnresolved'
    BY <1>8, <2>0, BoundarySame DEF LookupFinish, publicationVars, RuntimeInv
  <2> DEFINE pc == IF tasks[t].pc = "height_rpc" THEN "ended" ELSE "height"
  <2>2. tasks' = [tasks EXCEPT ![t].pc = pc] /\ tasks[t].pc \in {"expected_hash_rpc", "height_rpc"}
    BY <1>8 DEF LookupFinish
  <2>3. pc \in TaskPcs /\ pc \notin {"submit", "submit_rpc"}
    BY DEF TaskPcs
  <2>4. \E row : LooksOn(t, row)
    <3> HIDE DEF pc
    <3> QED BY <1>0, <2>2, <2>3, RowReplaced
  <2> QED BY <1>1, <1>4, <1>6, <2>1, <2>4, LooksOnKeeps DEF RuntimeInv
<1> QED BY <1>7, <1>8

-----------------------------------------------------------------------------
(* Submissions.  Only the owner submits, so they touch one candidate. *)
LEMMA SubmitterIsOwner ==
    ASSUME RuntimeInv, NEW t \in TaskIds, tasks[t].pc \in {"submit", "submit_rpc"}
    PROVE  ~Quick(t) /\ t = Owner(t[1]) /\ t[1] \in Candidates
BY TaskTypes, TaskIdParts

LEMMA OthersKeep ==
    ASSUME RuntimeInv, NEW c \in Candidates, NEW d \in Candidates \ {c},
           candidates'[d] = candidates[d], attempts'[d] = attempts[d],
           tasks'[Owner(d)] = tasks[Owner(d)],
           in_chain' \cup wire' \subseteq in_chain \cup wire \cup {c}
    PROVE  CandidateInv(d)'
<1>1. SameCandidate(d) /\ SameSubmission(d)
  BY DEF SameCandidate, SameSubmission
<1>2. d \in in_chain' \cup wire' => d \in in_chain \cup wire
  OBVIOUS
<1> QED BY <1>1, <1>2, SameKeeps DEF RuntimeInv

LEMMA SubmitDispatchKeeps ==
    ASSUME RuntimeInv, NEW t \in TaskIds, SubmitDispatch(t)
    PROVE  RuntimeInv'
<1> DEFINE c == t[1]
           n == candidates[c].attempt_count + 1
           row == [tasks[t] EXCEPT !.pc = "submit_rpc"]
<1>0. ~Quick(t) /\ t = Owner(c) /\ c \in Candidates /\ tasks[t] \in TaskRows
  BY SubmitterIsOwner, TaskTypes DEF SubmitDispatch
<1>1. StoreTypeOK'
  BY StepIsStoreStep, TypeNext DEF RuntimeInv, Next, TaskStep
<1>2. row \in TaskRows /\ row.pc = "submit_rpc" /\ tasks' = [tasks EXCEPT ![t] = row]
  <2>1. row \in TaskRows
    BY <1>0, PcUpdate DEF TaskPcs
  <2>2. row.pc = "submit_rpc"
    BY <1>0 DEF TaskRows
  <2>3. tasks' = [tasks EXCEPT ![t] = row]
    BY DEF SubmitDispatch
  <2> QED BY <2>1, <2>2, <2>3
<1>3. TasksTypeOK' /\ QuickLooksUp' /\ tasks'[t] = row
  BY <1>0, <1>2, TaskReplaced DEF RuntimeInv, TasksTypeOK
<1>4. /\ candidates[c].state \in Dispatchable /\ n \in AttemptNumbers
      /\ attempts' = [attempts EXCEPT ![c][n] = "dispatching"]
      /\ candidates' = [candidates EXCEPT ![c].state = "dispatching", ![c].attempt_count = n]
  BY DEF SubmitDispatch, StartCandidateAttempt, CanStartAttempt
<1>5. /\ candidates'[c].state = "dispatching" /\ candidates'[c].attempt_count = n
      /\ candidates'[c].had_indeterminate = candidates[c].had_indeterminate
      /\ candidates[c].attempt_count \in Nat
      /\ \A m \in AttemptNumbers : m # n => attempts'[c][m] = attempts[c][m]
      /\ \A d \in Candidates \ {c} : candidates'[d] = candidates[d] /\ attempts'[d] = attempts[d]
  BY SMTT(30), <1>0, <1>4 DEF RuntimeInv, StoreTypeOK, CandidateRows
<1>6. UNCHANGED <<in_chain, wire, boundary>>
  BY DEF SubmitDispatch, daemonVars, publicationVars
<1>7. BoundaryIsUnresolved'
  BY <1>4, <1>5, <1>6, BoundarySame DEF RuntimeInv
<1>8. tasks[Owner(c)].pc = "submit"
  BY <1>0 DEF SubmitDispatch
<1>9. CandidateInv(c) /\ candidates[c].state \notin {"dispatching"} \cup Accepted
  BY <1>0, <1>4, <1>8 DEF RuntimeInv, CandidateInv, DispatchIsOwned
<1>10. CandidateInv(c)'
  <2>1. DispatchIsOwned(c)'
    BY <1>0, <1>2, <1>3, <1>5 DEF DispatchIsOwned
  <2>2. RefusalsAreRecorded(c)'
    <3> SUFFICES ASSUME ~candidates[c].had_indeterminate, NEW m \in AttemptNumbers, m < n
                 PROVE  attempts'[c][m] = "explicit_rejection"
      BY <1>5 DEF RefusalsAreRecorded, AttemptNumbers
    <3>1. m <= candidates[c].attempt_count /\ m # n /\ m \in Nat
      BY SMTT(30), <1>5 DEF AttemptNumbers
    <3> QED BY SMTT(30), <1>5, <1>9, <3>1 DEF CandidateInv, RefusalsAreRecorded
  <2>3. RejectedIsUsedUp(c)' /\ ~(candidates'[c].state = "absent")
    BY <1>5 DEF RejectedIsUsedUp
  <2>4. ChainIsKnown(c)'
    BY <1>5, <1>6, <1>8, <1>9 DEF CandidateInv, ChainIsKnown
  <2> QED BY <2>1, <2>2, <2>3, <2>4 DEF CandidateInv
<1>11. ASSUME NEW d \in Candidates \ {c} PROVE CandidateInv(d)'
  <2>1. tasks'[Owner(d)] = tasks[Owner(d)]
    BY <1>2, OwnerIsTask DEF RuntimeInv, TasksTypeOK
  <2> QED BY <1>0, <1>5, <1>6, <2>1, OthersKeep
<1> QED BY <1>1, <1>3, <1>7, <1>10, <1>11 DEF RuntimeInv

\* The end of an attempt, whatever the task does next.
LEMMA AttemptEndKeeps ==
    ASSUME RuntimeInv, NEW t \in TaskIds, NEW class \in AttemptClasses,
           tasks[t].pc = "submit_rpc", class \in Observations(t),
           FinishCandidateAttempt(t[1], candidates[t[1]].attempt_count, class, TrustedMode),
           ReleaseByState(t[1], candidates'[t[1]].state),
           KeepOnWire(t), UNCHANGED in_chain, tasks'[t].pc # "submit_rpc",
           \A d \in Candidates \ {t[1]} : tasks'[Owner(d)] = tasks[Owner(d)]
    PROVE  BoundaryIsUnresolved' /\ \A d \in Candidates : CandidateInv(d)'
<1> DEFINE c == t[1]
           n == candidates[c].attempt_count
<1>0. t = Owner(c) /\ c \in Candidates /\ CandidateInv(c)
  BY SubmitterIsOwner DEF RuntimeInv
<1>1. n \in AttemptNumbers /\ attempts' = [attempts EXCEPT ![c][n] = class]
  BY DEF FinishCandidateAttempt, FinishAttemptAfterAcceptance, FinishAttemptAccepted,
     FinishAttemptFailed, ActiveAttempt, ClassifyAttempt
<1>2. \/ candidates[c].state \in Accepted /\ candidates' = candidates
      \/ /\ candidates' = [candidates EXCEPT ![c].state = "accepted"]
         /\ candidates[c].state \in Unresolved
      \/ /\ candidates[c].state = "dispatching"
         /\ class \in {"explicit_rejection", "indeterminate"}
         /\ candidates' = [candidates EXCEPT
                           ![c].state = StateAfterFailure(c, n, class),
                           ![c].had_indeterminate = @ \/ class = "indeterminate"]
  BY DEF FinishCandidateAttempt, FinishAttemptAfterAcceptance, FinishAttemptAccepted,
     FinishAttemptFailed, AcceptInTransaction, CanAccept, StillDispatching
<1>3. ASSUME NEW d \in Candidates \ {c}
      PROVE  candidates'[d] = candidates[d] /\ attempts'[d] = attempts[d]
  BY <1>0, <1>1, <1>2 DEF RuntimeInv, StoreTypeOK
<1>4. BoundaryIsUnresolved'
  <2>1. candidates'[c].state \in Unresolved => candidates[c].state \in Unresolved
    BY <1>2
  <2> QED BY <1>0, <1>3, <2>1, BoundaryReleased DEF RuntimeInv
<1>5. in_chain' \cup wire' \subseteq in_chain \cup wire \cup {c}
  BY DEF KeepOnWire
<1>6. ASSUME NEW d \in Candidates \ {c} PROVE CandidateInv(d)'
  BY <1>0, <1>3, <1>5, <1>6, OthersKeep
<1>7. CandidateInv(c)'
  <2>1. CASE candidates[c].state \in Accepted /\ candidates' = candidates
    BY <1>0, <2>1, AcceptedKeeps
  <2>2. CASE candidates' = [candidates EXCEPT ![c].state = "accepted"]
    <3>1. candidates'[c].state = "accepted"
      BY SMTT(30), <1>0, <2>2 DEF RuntimeInv, StoreTypeOK, CandidateRows
    <3> QED BY <1>0, <3>1, AcceptedKeeps
  <2>3. CASE /\ candidates[c].state = "dispatching"
             /\ class \in {"explicit_rejection", "indeterminate"}
             /\ candidates' = [candidates EXCEPT
                           ![c].state = StateAfterFailure(c, n, class),
                           ![c].had_indeterminate = @ \/ class = "indeterminate"]
    <3>1. candidates'[c].state = StateAfterFailure(c, n, class)
      BY SMTT(30), <1>0, <2>3 DEF RuntimeInv, StoreTypeOK, CandidateRows
    <3>2. candidates'[c].attempt_count = n /\ n \in 0..MaxAttempts
      BY SMTT(30), <1>0, <2>3 DEF RuntimeInv, StoreTypeOK, CandidateRows
    <3>3. candidates'[c].had_indeterminate
             = (candidates[c].had_indeterminate \/ class = "indeterminate")
      BY SMTT(30), <1>0, <2>3 DEF RuntimeInv, StoreTypeOK, CandidateRows
    <3>4. /\ attempts'[c][n] = class
          /\ \A m \in AttemptNumbers : m # n => attempts'[c][m] = attempts[c][m]
      BY <1>0, <1>1 DEF RuntimeInv, StoreTypeOK
    <3>5. candidates'[c].state \in {"retry_wait", "ambiguous", "rejected"}
      BY <3>1 DEF StateAfterFailure
    <3>6. DispatchIsOwned(c)'
      BY <1>0, <3>5 DEF DispatchIsOwned
    <3>7. RefusalsAreRecorded(c)'
      <4>0. \A m \in AttemptNumbers : (m < n \/ m = n) => m <= n
        BY SMTT(30), <3>2 DEF AttemptNumbers
      <4> HIDE DEF c, n
      <4> SUFFICES ASSUME ~candidates'[c].had_indeterminate, NEW m \in AttemptNumbers, m <= n
                   PROVE  attempts'[c][m] = "explicit_rejection"
        BY <3>2, <4>0 DEF RefusalsAreRecorded
      <4> USE DEF c, n
      <4>1. class = "explicit_rejection" /\ ~candidates[c].had_indeterminate
        BY <2>3, <3>3
      <4>2. m = n \/ m < n
        BY SMTT(30), <3>2 DEF AttemptNumbers
      <4>3. m < n => attempts[c][m] = "explicit_rejection" /\ m # n
        BY SMTT(30), <1>0, <2>3, <3>2, <4>1 DEF CandidateInv, RefusalsAreRecorded, AttemptNumbers
      <4> QED BY <3>4, <4>1, <4>2, <4>3
    <3>8. RejectedIsUsedUp(c)'
      <4>1. candidates'[c].state = "rejected" =>
               ~(n < MaxAttempts) /\ ~(candidates[c].had_indeterminate \/ class = "indeterminate")
        BY <3>1 DEF StateAfterFailure
      <4>2. ~(n < MaxAttempts) => n = MaxAttempts
        BY SMTT(30), <3>2, MaxAttemptsAssumption
      <4> QED BY <3>2, <3>3, <4>1, <4>2 DEF RejectedIsUsedUp
    <3>9. ChainIsKnown(c)'
      <4>1. CASE class = "indeterminate"
        BY <3>3, <4>1 DEF ChainIsKnown
      <4>2. CASE class = "explicit_rejection"
        <5>1. tasks[t].reply = "rejection" /\ wire' = wire
          BY <4>2 DEF Observations, KeepOnWire
        <5>2. c \in in_chain \cup wire => candidates[c].had_indeterminate
          BY <1>0, <2>3, <5>1 DEF CandidateInv, ChainIsKnown
        <5> QED BY <3>3, <5>1, <5>2 DEF ChainIsKnown
      <4> QED BY <2>3, <4>1, <4>2
    <3> QED BY <3>5, <3>6, <3>7, <3>8, <3>9 DEF CandidateInv
  <2> QED BY <1>2, <2>1, <2>2, <2>3
<1> QED BY <1>4, <1>6, <1>7

LEMMA SubmitExceptionKeeps ==
    ASSUME RuntimeInv, NEW t \in TaskIds, SubmitException(t)
    PROVE  RuntimeInv'
<1> DEFINE c == t[1]
           n == candidates[c].attempt_count
           again == (candidates'[c].state # "ambiguous" /\ n < MaxAttempts)
           row == [tasks[t] EXCEPT !.pc = "queued", !.reply = "none",
                                   !.reconciliation_only = TRUE, !.resume = again]
<1>0. ~Quick(t) /\ t = Owner(c) /\ c \in Candidates /\ tasks[t] \in TaskRows
  BY SubmitterIsOwner, TaskTypes DEF SubmitException
<1>1. StoreTypeOK'
  BY StepIsStoreStep, TypeNext DEF RuntimeInv, Next, TaskStep
<1>2. row \in TaskRows /\ row.pc = "queued"
  <2>1. again \in BOOLEAN
    OBVIOUS
  <2>2. \A b \in BOOLEAN : [tasks[t] EXCEPT !.pc = "queued", !.reply = "none",
                               !.reconciliation_only = TRUE, !.resume = b] \in TaskRows
    BY <1>0 DEF TaskRows
  <2>3. row \in TaskRows
    BY <2>1, <2>2
  <2>4. row.pc = "queued"
    BY <1>0 DEF TaskRows
  <2> QED BY <2>3, <2>4
<1>3. NoTask \in TaskRows /\ NoTask.pc = "none"
  BY NoTaskType DEF NoTask
<1>4. \E new \in {NoTask, row} : tasks' = [tasks EXCEPT ![t] = new]
  BY DEF SubmitException
<1>5. PICK new \in {NoTask, row} : tasks' = [tasks EXCEPT ![t] = new]
  BY <1>4
<1>6. TasksTypeOK' /\ QuickLooksUp'
  <2> HIDE DEF row
  <2> QED BY <1>0, <1>2, <1>3, <1>5, TaskReplaced DEF RuntimeInv
<1>7. tasks'[t].pc # "submit_rpc"
  <2> HIDE DEF row
  <2> QED BY <1>0, <1>2, <1>3, <1>5 DEF RuntimeInv, TasksTypeOK
<1>8. \A d \in Candidates \ {c} : tasks'[Owner(d)] = tasks[Owner(d)]
  <2> HIDE DEF row
  <2> QED BY <1>0, <1>5, OwnerIsTask DEF RuntimeInv, TasksTypeOK
<1>9. "indeterminate" \in Observations(t) /\ "indeterminate" \in AttemptClasses
  BY DEF Observations, AttemptClasses
<1>10. BoundaryIsUnresolved' /\ \A d \in Candidates : CandidateInv(d)'
  <2> HIDE DEF row
  <2> QED BY <1>7, <1>8, <1>9, AttemptEndKeeps DEF SubmitException
<1> QED BY <1>1, <1>6, <1>10 DEF RuntimeInv

LEMMA SubmitFinishKeeps ==
    ASSUME RuntimeInv, NEW t \in TaskIds, NEW class \in AttemptClasses, SubmitFinish(t, class)
    PROVE  RuntimeInv'
<1> DEFINE c == t[1]
           n == candidates[c].attempt_count
           state == candidates'[c].state
           owner == [tasks[t] EXCEPT !.pc = "queued", !.reply = "none"]
           quick == [NoTask EXCEPT !.pc = "queued", !.cycle = owner.cycle,
                                   !.reconciliation_only = TRUE]
           later == [owner EXCEPT !.cycle = CycleAfterQuick(owner.cycle)]
<1>0. ~Quick(t) /\ t = Owner(c) /\ c \in Candidates /\ tasks[t] \in TaskRows
  BY SubmitterIsOwner, TaskTypes DEF SubmitFinish
<1>1. StoreTypeOK'
  BY StepIsStoreStep, TypeNext DEF RuntimeInv, Next, TaskStep
<1>2. owner \in TaskRows /\ owner.pc = "queued"
  BY <1>0 DEF TaskRows
<1>3. NoTask \in TaskRows /\ NoTask.pc = "none"
  BY NoTaskType DEF NoTask
<1>4. AmbiguousOwner(owner) \in TaskRows /\ AmbiguousOwner(owner).pc = "queued"
  <2> HIDE DEF owner
  <2>1. AmbiguousOwner(owner) \in TaskRows
    BY <1>2, ModeUpdate DEF AmbiguousOwner
  <2>2. AmbiguousOwner(owner).pc = "queued"
    BY <1>2 DEF AmbiguousOwner, TaskRows
  <2> QED BY <2>1, <2>2
<1>5. owner.cycle \in 0..MaxCycle /\ CycleAfterQuick(owner.cycle) \in 0..MaxCycle
  <2> HIDE DEF owner
  <2> QED BY <1>2, TaskColumns, NextCycleType DEF CycleAfterQuick
<1>6. later \in TaskRows /\ later.pc = "queued"
  <2> HIDE DEF owner
  <2>1. later \in TaskRows
    BY <1>2, <1>5, TaskCycleUpdate
  <2>2. later.pc = "queued"
    BY <1>2 DEF TaskRows
  <2> QED BY <2>1, <2>2
<1>7. quick \in TaskRows /\ quick.pc = "queued" /\ quick.reconciliation_only
  <2> HIDE DEF owner
  <2>1. quick \in TaskRows
    BY <1>3, <1>5 DEF TaskRows
  <2>2. quick.pc = "queued" /\ quick.reconciliation_only
    BY DEF NoTask
  <2> QED BY <2>1, <2>2
<1>8. n \in AttemptNumbers /\ (state = "retry_wait" => n \in 1..(MaxAttempts - 1))
  <2>1. n \in AttemptNumbers
    BY DEF SubmitFinish, FinishCandidateAttempt, FinishAttemptAfterAcceptance,
       FinishAttemptAccepted, FinishAttemptFailed, ActiveAttempt
  <2>2. state = "retry_wait" => n < MaxAttempts
    <3>1. CASE candidates[c].state \in Accepted /\ candidates' = candidates
      BY <3>1
    <3>2. CASE candidates' = [candidates EXCEPT ![c].state = "accepted"]
      BY SMTT(30), <1>0, <3>2 DEF RuntimeInv, StoreTypeOK, CandidateRows
    <3>3. CASE candidates' = [candidates EXCEPT
                           ![c].state = StateAfterFailure(c, n, class),
                           ![c].had_indeterminate = @ \/ class = "indeterminate"]
      <4>1. state = StateAfterFailure(c, n, class)
        BY <1>0, <3>3 DEF RuntimeInv, StoreTypeOK, CandidateRows
      <4> QED BY <4>1 DEF StateAfterFailure
    <3> QED
      BY <3>1, <3>2, <3>3
      DEF SubmitFinish, FinishCandidateAttempt, FinishAttemptAfterAcceptance, FinishAttemptAccepted,
          FinishAttemptFailed, AcceptInTransaction
  <2> QED BY SMTT(30), <2>1, <2>2, MaxAttemptsAssumption DEF AttemptNumbers
<1>9. \/ \E new \in {NoTask, AmbiguousOwner(owner), owner} : tasks' = [tasks EXCEPT ![t] = new]
      \/ /\ state = "retry_wait"
         /\ tasks' = [tasks EXCEPT ![t] = later, ![<<c, n>>] = quick]
  BY DEF SubmitFinish, AfterAttempt
<1> HIDE DEF owner, later, quick
<1>10. CASE \E new \in {NoTask, AmbiguousOwner(owner), owner} : tasks' = [tasks EXCEPT ![t] = new]
  <2>1. PICK new \in {NoTask, AmbiguousOwner(owner), owner} : tasks' = [tasks EXCEPT ![t] = new]
    BY <1>10
  <2>2. new \in TaskRows /\ new.pc # "submit_rpc"
    BY <1>2, <1>3, <1>4
  <2>3. TasksTypeOK' /\ QuickLooksUp'
    BY <1>0, <2>1, <2>2, TaskReplaced DEF RuntimeInv
  <2>4. tasks'[t].pc # "submit_rpc"
    BY <2>1, <2>2 DEF RuntimeInv, TasksTypeOK
  <2>5. \A d \in Candidates \ {c} : tasks'[Owner(d)] = tasks[Owner(d)]
    BY <1>0, <2>1, OwnerIsTask DEF RuntimeInv, TasksTypeOK
  <2>6. BoundaryIsUnresolved' /\ \A d \in Candidates : CandidateInv(d)'
    BY <2>4, <2>5, AttemptEndKeeps DEF SubmitFinish
  <2> QED BY <1>1, <2>3, <2>6 DEF RuntimeInv
<1>11. CASE /\ state = "retry_wait"
            /\ tasks' = [tasks EXCEPT ![t] = later, ![<<c, n>>] = quick]
  <2>1. <<c, n>> \in TaskIds /\ Quick(<<c, n>>) /\ <<c, n>> # t /\ <<c, n>>[1] = c
    BY SMTT(30), <1>0, <1>8, <1>11 DEF TaskIds, Quick, Owner
  <2>2. TasksTypeOK'
    BY <1>6, <1>7, <1>11, <2>1 DEF RuntimeInv, TasksTypeOK
  <2>3. /\ tasks'[t] = later /\ tasks'[<<c, n>>] = quick
        /\ \A u \in TaskIds \ {t, <<c, n>>} : tasks'[u] = tasks[u]
    BY <1>11, <2>1 DEF RuntimeInv, TasksTypeOK
  <2>4. ASSUME NEW u \in TaskIds PROVE LooksUpOnly(u)'
    BY <1>0, <1>7, <2>3 DEF LooksUpOnly, RuntimeInv, QuickLooksUp, Quick
  <2>5. tasks'[t].pc # "submit_rpc"
    BY <1>6, <2>3
  <2>6. \A d \in Candidates \ {c} : tasks'[Owner(d)] = tasks[Owner(d)]
    BY <1>0, <2>1, <2>3, OwnerIsTask
  <2>7. BoundaryIsUnresolved' /\ \A d \in Candidates : CandidateInv(d)'
    BY <2>5, <2>6, AttemptEndKeeps DEF SubmitFinish
  <2> QED BY <1>1, <2>2, <2>4, <2>7 DEF RuntimeInv, QuickLooksUp
<1> QED BY <1>9, <1>10, <1>11

-----------------------------------------------------------------------------
(* The daemon. *)
LEMMA DaemonHandlesKeeps ==
    ASSUME RuntimeInv, NEW t \in TaskIds, DaemonHandles(t)
    PROVE  RuntimeInv'
<1> DEFINE c == t[1]
<1>0. ~Quick(t) /\ t = Owner(c) /\ c \in Candidates /\ tasks[t] \in TaskRows /\ CandidateInv(c)
  BY SubmitterIsOwner, TaskTypes DEF DaemonHandles, RuntimeInv
<1>1. UNCHANGED storeVars /\ boundary' = boundary /\ wire' = wire
  BY DEF DaemonHandles, publicationVars
<1>2. StoreTypeOK' /\ BoundaryIsUnresolved'
  BY <1>1, TypeNext, BoundarySame DEF RuntimeInv, storeVars
<1>3. PICK reply \in {"ok", "rejection"} :
          /\ tasks' = [tasks EXCEPT ![t].reply = reply]
          /\ reply = "ok" => in_chain' \subseteq in_chain \cup {c}
          /\ reply = "rejection" => in_chain' = in_chain
  BY DEF DaemonHandles, DaemonAccepts
<1> DEFINE row == [tasks[t] EXCEPT !.reply = reply]
<1>4. row \in TaskRows
  BY <1>0, ReplyUpdate
<1>5. row.pc = "submit_rpc" /\ row.reply = reply
  BY <1>0 DEF TaskRows, DaemonHandles
<1>6. tasks' = [tasks EXCEPT ![t] = row]
  BY <1>3
<1> HIDE DEF row
<1>7. TasksTypeOK' /\ QuickLooksUp' /\ tasks'[t] = row
  BY <1>0, <1>4, <1>6, TaskReplaced DEF RuntimeInv, TasksTypeOK
<1>8. ASSUME NEW d \in Candidates \ {c} PROVE CandidateInv(d)'
  <2>1. tasks'[Owner(d)] = tasks[Owner(d)]
    BY <1>0, <1>6, OwnerIsTask DEF RuntimeInv, TasksTypeOK
  <2>2. candidates'[d] = candidates[d] /\ attempts'[d] = attempts[d]
    BY <1>1 DEF storeVars
  <2>3. in_chain' \cup wire' \subseteq in_chain \cup wire \cup {c}
    BY <1>1, <1>3
  <2> QED BY <1>0, <2>1, <2>2, <2>3, OthersKeep
<1>9. CandidateInv(c)'
  <2>1. UNCHANGED <<candidates, attempts>>
    BY <1>1 DEF storeVars
  <2>2. tasks'[Owner(c)].pc = "submit_rpc" /\ tasks'[Owner(c)].reply = reply
    BY <1>0, <1>5, <1>7
  <2>3. tasks[Owner(c)].pc = "submit_rpc" /\ tasks[Owner(c)].reply = "none"
    BY <1>0 DEF DaemonHandles
  <2>4. DispatchIsOwned(c)' /\ RefusalsAreRecorded(c)' /\ RejectedIsUsedUp(c)'
    BY <1>0, <2>1, <2>2, <2>3
    DEF CandidateInv, DispatchIsOwned, RefusalsAreRecorded, RejectedIsUsedUp, AttemptNumbers
  <2>5. ChainIsKnown(c)'
    <3>1. CASE reply = "ok"
      BY <2>2, <3>1 DEF ChainIsKnown
    <3>2. CASE reply = "rejection"
      BY <1>0, <1>1, <1>3, <2>1, <2>3, <3>2 DEF CandidateInv, ChainIsKnown
    <3> QED BY <3>1, <3>2
  <2> QED BY <1>0, <2>1, <2>4, <2>5 DEF CandidateInv
<1> QED BY <1>2, <1>7, <1>8, <1>9 DEF RuntimeInv

\* Steps that touch neither the database nor the tasks, and at most move
\* submissions from the wire into the chain.
LEMMA OutsideKeeps ==
    ASSUME RuntimeInv, UNCHANGED <<storeVars, tasks>>, boundary' = boundary,
           in_chain' \cup wire' \subseteq in_chain \cup wire
    PROVE  RuntimeInv'
<1>1. StoreTypeOK' /\ BoundaryIsUnresolved'
  BY TypeNext, BoundarySame DEF RuntimeInv, storeVars
<1>2. TasksTypeOK' /\ QuickLooksUp'
  BY DEF RuntimeInv, TasksTypeOK, QuickLooksUp, LooksUpOnly
<1>3. ASSUME NEW c \in Candidates PROVE CandidateInv(c)'
  <2>1. SameCandidate(c) /\ SameSubmission(c)
    BY UntouchedStore DEF SameSubmission
  <2> QED BY <2>1, SameKeeps DEF RuntimeInv
<1> QED BY <1>1, <1>2, <1>3 DEF RuntimeInv

-----------------------------------------------------------------------------
(* Shares, journaling, restart. *)
LEMMA ProcessShareKeeps ==
    ASSUME RuntimeInv, NEW h \in Heights, NEW c \in Candidates \cup {NoCandidate},
           ProcessShare(h, c)
    PROVE  RuntimeInv'
<1>1. StoreTypeOK'
  BY StepIsStoreStep, TypeNext DEF RuntimeInv, Next
<1>2. UNCHANGED <<candidates, attempts, tasks, boundary, in_chain, wire>>
  BY DEF ProcessShare, InsertShare, processVars, daemonVars
<1>3. BoundaryIsUnresolved' /\ TasksTypeOK' /\ QuickLooksUp'
  BY <1>2, BoundarySame DEF RuntimeInv, TasksTypeOK, QuickLooksUp, LooksUpOnly
<1>4. ASSUME NEW d \in Candidates PROVE CandidateInv(d)'
  <2>1. SameCandidate(d) /\ SameSubmission(d)
    BY <1>2 DEF SameCandidate, SameSubmission
  <2> QED BY <1>2, <2>1, SameKeeps DEF RuntimeInv
<1> QED BY <1>1, <1>3, <1>4 DEF RuntimeInv

LEMMA JournalingKeeps ==
    ASSUME RuntimeInv, NEW c \in Candidates, NEW r \in 1..last_round_id, Journal(c, r)
    PROVE  RuntimeInv'
<1> DEFINE row == [NoTask EXCEPT !.pc = "queued"]
           new == [AbsentRow EXCEPT !.state = "journaled", !.round_id = r]
<1>0. Owner(c) \in TaskIds /\ ~Quick(Owner(c)) /\ CandidateInv(c)
  BY OwnerIsTask DEF RuntimeInv
<1>1. StoreTypeOK'
  BY StepIsStoreStep, TypeNext DEF RuntimeInv, Next
<1>2. row \in TaskRows
  BY NoTaskType, PcUpdate DEF TaskPcs
<1>3. row.pc = "queued"
  BY DEF NoTask
<1>4. /\ candidates[c].state = "absent" /\ candidates' = [candidates EXCEPT ![c] = new]
      /\ attempts' = attempts /\ tasks' = [tasks EXCEPT ![Owner(c)] = row]
      /\ boundary' = boundary \cup {c} /\ in_chain' = in_chain /\ wire' = wire
  BY DEF Journal, JournalCandidate, RegisterBoundary, daemonVars
<1>5. /\ new.state = "journaled" /\ new.attempt_count = 0 /\ new.had_indeterminate = FALSE
  BY DEF AbsentRow
<1> HIDE DEF row, new
<1>6. TasksTypeOK' /\ QuickLooksUp' /\ tasks'[Owner(c)] = row
  BY <1>0, <1>2, <1>3, <1>4, TaskReplaced DEF RuntimeInv, TasksTypeOK
<1>7. candidates'[c] = new /\ \A d \in Candidates \ {c} : candidates'[d] = candidates[d]
  BY <1>4 DEF RuntimeInv, StoreTypeOK
<1>8. BoundaryIsUnresolved'
  BY <1>4, <1>5, <1>7 DEF RuntimeInv, BoundaryIsUnresolved, UnresolvedCandidates
<1>9. ASSUME NEW d \in Candidates \ {c} PROVE CandidateInv(d)'
  <2>1. tasks'[Owner(d)] = tasks[Owner(d)]
    BY <1>4, OwnerIsTask DEF RuntimeInv, TasksTypeOK
  <2> QED BY <1>4, <1>7, <2>1, OthersKeep
<1>10. CandidateInv(c)'
  <2>1. c \notin in_chain \cup wire
    BY <1>0, <1>4 DEF CandidateInv, ChainIsKnown, DispatchIsOwned
  <2>2. ChainIsKnown(c)'
    BY <1>4, <2>1 DEF ChainIsKnown
  <2>3. DispatchIsOwned(c)' /\ RejectedIsUsedUp(c)' /\ candidates'[c].state # "absent"
    BY <1>3, <1>5, <1>6, <1>7 DEF DispatchIsOwned, RejectedIsUsedUp
  <2>4. RefusalsAreRecorded(c)'
    BY SMTT(30), <1>5, <1>7 DEF RefusalsAreRecorded, AttemptNumbers
  <2> QED BY <2>2, <2>3, <2>4 DEF CandidateInv
<1> QED BY <1>1, <1>6, <1>8, <1>9, <1>10 DEF RuntimeInv

LEMMA RestartKeeps ==
    ASSUME RuntimeInv, Restart
    PROVE  RuntimeInv'
<1>1. StoreTypeOK'
  BY StepIsStoreStep, TypeNext DEF RuntimeInv, Next
<1>2. ASSUME NEW c \in Candidates
      PROVE  /\ candidates[c] \in CandidateRows
             /\ candidates[c].state # "dispatching" => candidates'[c] = candidates[c]
             /\ candidates[c].state = "dispatching" =>
                   /\ candidates'[c].state \in {"retry_wait", "ambiguous"}
                   /\ candidates'[c].had_indeterminate = TRUE
             /\ \A n \in AttemptNumbers :
                   attempts[c][n] = "explicit_rejection" =>
                       attempts'[c][n] = "explicit_rejection"
  <2>1. candidates[c] \in CandidateRows /\ candidates'[c] = RecoveredRow(c)
    BY DEF RuntimeInv, StoreTypeOK, Restart, ReopenDatabase
  <2>2. candidates[c].state # "dispatching" => candidates'[c] = candidates[c]
    BY <2>1 DEF RecoveredRow
  <2>3. ASSUME candidates[c].state = "dispatching"
        PROVE  /\ candidates'[c].state \in {"retry_wait", "ambiguous"}
               /\ candidates'[c].had_indeterminate = TRUE
    BY <2>1, <2>3 DEF RecoveredRow, CandidateRows
  <2>4. \A n \in AttemptNumbers : attempts'[c][n] = RecoveredAttempt(c, n)
    BY DEF Restart, ReopenDatabase
  <2> QED BY <2>1, <2>2, <2>3, <2>4 DEF RecoveredAttempt
<1>3. BoundaryIsUnresolved'
  BY <1>2 DEF Restart, BoundaryIsUnresolved, UnresolvedCandidates
<1>4. ASSUME NEW t \in TaskIds
      PROVE  /\ tasks'[t] \in TaskRows /\ tasks'[t].pc \in {"none", "recover"}
             /\ Quick(t) => tasks'[t].pc = "none"
  <2> DEFINE again == (candidates'[t[1]].state # "ambiguous"
                          /\ candidates'[t[1]].attempt_count < MaxAttempts)
  <2>1. NoTask \in TaskRows /\ NoTask.pc = "none"
    BY NoTaskType DEF NoTask
  <2>2. \A b \in BOOLEAN, n \in 0..MaxCycle :
           [pc |-> "recover", reconciliation_only |-> TRUE, resume |-> b, cycle |-> n,
            reply |-> "none"] \in TaskRows
    BY DEF TaskRows
  <2>3. candidates[t[1]].cycle_count \in 0..MaxCycle /\ again \in BOOLEAN
    BY <1>2, TaskIdParts, RowColumns
  <2>4. RecoveredTask(t[1]) \in TaskRows
    BY <2>2, <2>3 DEF RecoveredTask
  <2>5. RecoveredTask(t[1]).pc = "recover"
    BY DEF RecoveredTask
  <2>6. tasks'[t] = IF ~Quick(t) /\ t[1] \in UnresolvedCandidates
                    THEN RecoveredTask(t[1]) ELSE NoTask
    BY DEF Restart
  <2> QED BY <2>1, <2>4, <2>5, <2>6
<1>5. TasksTypeOK' /\ QuickLooksUp'
  BY <1>4 DEF Restart, TasksTypeOK, QuickLooksUp, LooksUpOnly, Quick
<1>6. ASSUME NEW c \in Candidates PROVE CandidateInv(c)'
  <2>1. CandidateInv(c) /\ tasks'[Owner(c)].pc # "submit_rpc"
    BY <1>4, OwnerIsTask DEF RuntimeInv
  <2>2. CASE candidates[c].state = "dispatching"
    BY <1>2, <2>1, <2>2
    DEF CandidateInv, DispatchIsOwned, RefusalsAreRecorded, RejectedIsUsedUp, ChainIsKnown
  <2>3. CASE candidates[c].state # "dispatching"
    <3>1. candidates'[c] = candidates[c]
      BY <1>2, <2>3
    <3>2. CASE candidates[c].state \in Accepted
      BY <3>1, <3>2, AcceptedKeeps
    <3>3. CASE candidates[c].state \notin Accepted
      <4>1. tasks[Owner(c)].pc # "submit_rpc"
        BY <2>1, <2>3, <3>3 DEF CandidateInv, DispatchIsOwned
      <4>2. ASSUME NEW u \in TaskIds, tasks[u].pc = "submit_rpc" PROVE u[1] # c
        BY <4>1, <4>2, SubmitterIsOwner
      <4>3. c \in in_chain' \cup wire' => c \in in_chain \cup wire
        BY <4>2 DEF Restart
      <4>4. ChainIsKnown(c)'
        BY <2>1, <3>1, <4>1, <4>3 DEF CandidateInv, ChainIsKnown
      <4>5. DispatchIsOwned(c)' /\ RejectedIsUsedUp(c)'
        BY <2>1, <2>3, <3>1 DEF CandidateInv, DispatchIsOwned, RejectedIsUsedUp
      <4>6. RefusalsAreRecorded(c)'
        BY <1>2, <2>1, <2>3, <3>1 DEF CandidateInv, RefusalsAreRecorded, AttemptNumbers
      <4> QED BY <2>1, <3>1, <4>4, <4>5, <4>6 DEF CandidateInv
    <3> QED BY <3>2, <3>3
  <2> QED BY <2>2, <2>3
<1> QED BY <1>1, <1>3, <1>5, <1>6 DEF RuntimeInv

-----------------------------------------------------------------------------
(* The theorems. *)
LEMMA RuntimeInit == Init => RuntimeInv
<1> SUFFICES ASSUME Init PROVE RuntimeInv
  OBVIOUS
<1>1. StoreTypeOK
  BY TypeInit DEF Init
<1>2. TasksTypeOK
  BY NoTaskType DEF Init, TasksTypeOK
<1>3. \A t \in TaskIds : tasks[t].pc = "none"
  BY DEF Init, NoTask
<1>4. \A c \in Candidates : /\ candidates[c].state = "absent" /\ candidates[c].attempt_count = 0
                            /\ candidates[c].had_indeterminate = FALSE
  BY DEF Init, StoreInit, AbsentRow
<1>5. QuickLooksUp
  BY <1>3 DEF QuickLooksUp, LooksUpOnly
<1>6. BoundaryIsUnresolved
  BY <1>4 DEF Init, BoundaryIsUnresolved, UnresolvedCandidates
<1>7. ASSUME NEW c \in Candidates PROVE CandidateInv(c)
  <2>1. tasks[Owner(c)].pc = "none"
    BY <1>3, OwnerIsTask
  <2>2. \A n \in AttemptNumbers : ~(n < 0) /\ n # 0
    BY SMTT(30), MaxAttemptsAssumption DEF AttemptNumbers
  <2>3. RefusalsAreRecorded(c)
    BY <1>4, <2>2 DEF RefusalsAreRecorded
  <2> QED BY <1>4, <2>1, <2>3 DEF Init, CandidateInv, DispatchIsOwned, RejectedIsUsedUp, ChainIsKnown
<1> QED BY <1>1, <1>2, <1>5, <1>6, <1>7 DEF RuntimeInv

LEMMA RuntimeStep == RuntimeInv /\ [Next]_vars => RuntimeInv'
<1> SUFFICES ASSUME RuntimeInv, [Next]_vars PROVE RuntimeInv'
  OBVIOUS
<1>1. CASE FetchTemplate \/ PublishTemplate \/ HoldTemplate \/ IssueJob \/ StartWorkers \/ ChainGrows
  BY <1>1, OutsideKeeps
  DEF FetchTemplate, PublishTemplate, HoldTemplate, IssueJob, StartWorkers, ChainGrows, daemonVars,
      processVars, publicationVars
<1>2. ASSUME NEW c \in Candidates, JournalExisting(c) PROVE RuntimeInv'
  <2>1. boundary' = boundary
    BY <1>2 DEF JournalExisting, RegisterBoundary, RuntimeInv, BoundaryIsUnresolved
  <2> QED BY <1>2, <2>1, OutsideKeeps DEF JournalExisting, daemonVars
<1>3. ASSUME NEW c \in Candidates, DaemonHandlesLate(c) PROVE RuntimeInv'
  <2>1. in_chain' \cup wire' \subseteq in_chain \cup wire
    BY <1>3 DEF DaemonHandlesLate, DaemonAccepts
  <2> QED BY <1>3, <2>1, OutsideKeeps DEF DaemonHandlesLate, processVars
<1>4. ASSUME NEW t \in TaskIds, TaskStep(t) PROVE RuntimeInv'
  BY <1>4, LocalStepKeeps, LookupDispatchKeeps, LookupFinishKeeps, EndExhaustedKeeps,
     SubmitDispatchKeeps, SubmitFinishKeeps, SubmitExceptionKeeps
  DEF TaskStep
<1>5. CASE UNCHANGED vars
  BY <1>5, OutsideKeeps DEF vars, processVars, daemonVars
<1> QED
  BY <1>1, <1>2, <1>3, <1>4, <1>5, ProcessShareKeeps, JournalingKeeps, DaemonHandlesKeeps, RestartKeeps
  DEF Next

\* The facts about boundary, tasks, table and daemon hold in every state of the runtime,
\* whatever the workers, the daemon and crashes do.
THEOREM RuntimeCorrect == Spec => []RuntimeInv
BY RuntimeInit, RuntimeStep, PTL DEF Spec

\* The publication boundary of the runtime (unresolved_candidate_heights_) holds exactly the
\* candidates the database has unresolved.
THEOREM BoundaryIsExact == Spec => []BoundaryIsUnresolved
<1>1. RuntimeInv => BoundaryIsUnresolved
  BY DEF RuntimeInv
<1> QED BY <1>1, RuntimeCorrect, PTL

\* finish_candidate_attempt gives a block up as rejected only when no submission of it can have
\* reached the chain or still reach it.
THEOREM RejectionsAreSafe == Spec => []RejectedIsNeverInChain
<1>1. RuntimeInv => RejectedIsNeverInChain
  <2> SUFFICES ASSUME RuntimeInv, NEW c \in Candidates, candidates[c].state = "rejected"
               PROVE  /\ c \notin in_chain \cup wire
                      /\ \A n \in AttemptNumbers : attempts[c][n] = "explicit_rejection"
    BY DEF RejectedIsNeverInChain
  <2>1. CandidateInv(c)
    BY DEF RuntimeInv
  <2>2. ~candidates[c].had_indeterminate /\ candidates[c].attempt_count = MaxAttempts
    BY <2>1 DEF CandidateInv, RejectedIsUsedUp
  <2>3. c \notin in_chain \cup wire
    BY <2>1, <2>2 DEF CandidateInv, ChainIsKnown, DispatchIsOwned
  <2>4. \A n \in AttemptNumbers : attempts[c][n] = "explicit_rejection"
    BY SMTT(30), <2>1, <2>2, MaxAttemptsAssumption DEF CandidateInv, RefusalsAreRecorded, AttemptNumbers
  <2> QED BY <2>3, <2>4
<1> QED BY <1>1, RuntimeCorrect, PTL

\* The runtime calls the database only as CandidateStore allows any caller to.
THEOREM RuntimeImplementsStore == Spec => StoreSpec
<1>1. Init => StoreInit
  BY DEF Init
<1>2. RuntimeInv /\ [Next]_vars => [StoreNext]_storeVars
  BY StepIsStoreStep DEF RuntimeInv
<1> QED BY <1>1, <1>2, RuntimeCorrect, PTL DEF Spec, StoreSpec

-----------------------------------------------------------------------------
(***************************************************************************)
(* What is published is useful.                                            *)
(***************************************************************************)

(* What a step does to the parts the invariant relates. *)
LEMMA PublicationFacts ==
    ASSUME PublicationInv
    PROVE  /\ StoreTypeOK /\ TasksTypeOK
           /\ \A c \in Candidates : CandidateHeight[c] \in Nat \ {0}
           /\ \A c \in Candidates :
                 candidates[c].state # "absent" =>
                     /\ candidates[c].round_id \in 1..last_round_id
                     /\ candidates[c].round_id \in Nat
                     /\ rounds[candidates[c].round_id].max_share_height \in Nat
           /\ last_round_id \in Nat \ {0}
<1>1. StoreTypeOK /\ TasksTypeOK /\ HeightsInv
  BY DEF PublicationInv, RuntimeInv
<1>2. \A c \in Candidates : CandidateHeight[c] \in Nat \ {0}
  BY HeightsAssumption
<1>3. \A c \in Candidates :
         candidates[c].state # "absent" =>
             /\ candidates[c].round_id \in 1..last_round_id
             /\ rounds[candidates[c].round_id].max_share_height \in Nat
  BY <1>1, HeightFacts DEF HeightsInv, CandidatesFit
<1> QED BY SMTT(30), <1>1, <1>2, <1>3, HeightFacts

-----------------------------------------------------------------------------
(* Replies. *)
LEMMA RepliesNext ==
    ASSUME PublicationInv, [Next]_vars
    PROVE  RepliesAreTrue' /\ in_chain \subseteq in_chain'
<1>0. RepliesAreTrue /\ TasksTypeOK /\ \A t \in TaskIds : tasks[t] \in TaskRows
  BY PublicationFacts DEF PublicationInv, TasksTypeOK
<1>1. in_chain \subseteq in_chain'
  BY DEF Next, vars, FetchTemplate, PublishTemplate, HoldTemplate, IssueJob, ProcessShare, Journal,
     JournalExisting, TaskStep, TakeTerminal, TakeSubmit, TakeLookup, SubmitDispatch, SubmitRefused,
     SubmitException, SubmitFinish, LookupDispatch, LookupFails, LookupFinish, EndQuick, EndRequeue,
     EndExhausted, RecoverLookup, DaemonHandles, DaemonHandlesLate, DaemonAccepts, ChainGrows,
     Restart, StartWorkers, daemonVars
<1>2. NoTask.reply = "none"
  BY DEF NoTask
<1>3. CASE UNCHANGED tasks
  BY <1>0, <1>1, <1>3 DEF RepliesAreTrue
<1>4. ASSUME NEW t \in TaskIds, NEW row, tasks' = [tasks EXCEPT ![t] = row],
             row.reply \in {"none", tasks[t].reply, "rejection"}
      PROVE  RepliesAreTrue'
  <2>1. ASSUME NEW u \in TaskIds, tasks'[u].reply = "ok" PROVE u[1] \in in_chain'
    <3>1. CASE u = t
      BY <1>0, <1>1, <1>4, <2>1, <3>1 DEF RepliesAreTrue, TasksTypeOK
    <3>2. CASE u # t
      BY <1>0, <1>1, <1>4, <2>1, <3>2 DEF RepliesAreTrue, TasksTypeOK
    <3> QED BY <3>1, <3>2
  <2> QED BY <2>1 DEF RepliesAreTrue
<1>5. ASSUME NEW t \in TaskIds, NEW pc, tasks' = [tasks EXCEPT ![t].pc = pc]
      PROVE  RepliesAreTrue'
  <2>1. [tasks[t] EXCEPT !.pc = pc].reply = tasks[t].reply
    BY <1>0 DEF TaskRows
  <2> QED BY <1>4, <1>5, <2>1
<1>6. ASSUME NEW t \in TaskIds, TaskStep(t) PROVE RepliesAreTrue'
  <2>1. CASE TakeTerminal(t) \/ EndQuick(t) \/ EndExhausted(t)
    BY <1>2, <1>4, <2>1 DEF TakeTerminal, EndQuick, EndExhausted, Drop
  <2>2. CASE TakeSubmit(t) \/ TakeLookup(t) \/ SubmitDispatch(t) \/ SubmitRefused(t)
             \/ LookupDispatch(t) \/ LookupFails(t) \/ RecoverLookup(t)
    BY <1>5, <2>2
    DEF TakeSubmit, TakeLookup, SubmitDispatch, SubmitRefused, LookupDispatch, LookupFails,
        RecoverLookup, Requeue
  <2>3. ASSUME NEW class \in LookupClasses, LookupFinish(t, class) PROVE RepliesAreTrue'
    BY <1>2, <1>4, <1>5, <2>3 DEF LookupFinish, Drop
  <2>4. CASE EndRequeue(t)
    <3> DEFINE row == [tasks[t] EXCEPT !.pc = "queued",
                    !.cycle = NextCycle(tasks[t].cycle),
                    !.reconciliation_only = ~tasks[t].resume,
                    !.resume = FALSE]
    <3>1. row.reply = tasks[t].reply
      BY <1>0 DEF TaskRows
    <3>2. tasks' = [tasks EXCEPT ![t] = row]
      BY <2>4 DEF EndRequeue
    <3> HIDE DEF row
    <3> QED BY <1>4, <3>1, <3>2
  <2>5. CASE SubmitException(t)
    <3> DEFINE row == [tasks[t] EXCEPT !.pc = "queued", !.reply = "none",
                          !.reconciliation_only = TRUE,
                          !.resume = candidates'[t[1]].state # "ambiguous"
                                        /\ candidates[t[1]].attempt_count < MaxAttempts]
    <3>1. row.reply = "none"
      BY <1>0 DEF TaskRows
    <3>2. \E new \in {row, NoTask} : tasks' = [tasks EXCEPT ![t] = new]
      BY <2>5 DEF SubmitException
    <3> HIDE DEF row
    <3> QED BY <1>2, <1>4, <3>1, <3>2
  <2>6. ASSUME NEW class \in AttemptClasses, SubmitFinish(t, class) PROVE RepliesAreTrue'
    <3> DEFINE c == t[1]
               n == candidates[c].attempt_count
               owner == [tasks[t] EXCEPT !.pc = "queued", !.reply = "none"]
               quick == [NoTask EXCEPT !.pc = "queued", !.cycle = owner.cycle,
                                       !.reconciliation_only = TRUE]
               later == [owner EXCEPT !.cycle = CycleAfterQuick(owner.cycle)]
    <3>1. owner \in TaskRows /\ owner.reply = "none"
      BY <1>0 DEF TaskRows
    <3>2. \/ \E new \in {NoTask, AmbiguousOwner(owner), owner} : tasks' = [tasks EXCEPT ![t] = new]
          \/ tasks' = [tasks EXCEPT ![t] = later, ![<<c, n>>] = quick]
      BY <2>6 DEF SubmitFinish, AfterAttempt
    <3> HIDE DEF owner
    <3>3. AmbiguousOwner(owner).reply = "none"
      BY <3>1 DEF AmbiguousOwner, TaskRows
    <3>4. later.reply = "none"
      BY <3>1 DEF TaskRows
    <3>5. quick.reply = "none"
      BY DEF NoTask
    <3> HIDE DEF later, quick
    <3>6. CASE tasks' = [tasks EXCEPT ![t] = later, ![<<c, n>>] = quick]
      <4>1. \A u \in TaskIds : tasks'[u] \in {tasks[u], later, quick}
        BY <1>0, <3>6 DEF TasksTypeOK
      <4> QED BY <1>0, <1>1, <3>4, <3>5, <4>1 DEF RepliesAreTrue
    <3> QED BY <1>2, <1>4, <3>1, <3>2, <3>3, <3>6
  <2> QED BY <1>6, <2>1, <2>2, <2>3, <2>4, <2>5, <2>6 DEF TaskStep
<1>7. ASSUME NEW t \in TaskIds, DaemonHandles(t) PROVE RepliesAreTrue'
  <2>1. CASE DaemonAccepts(t[1]) /\ tasks' = [tasks EXCEPT ![t].reply = "ok"]
    <3>1. t[1] \in in_chain'
      BY <2>1 DEF DaemonAccepts
    <3>2. \A u \in TaskIds \ {t} : tasks'[u] = tasks[u]
      BY <1>0, <2>1 DEF TasksTypeOK
    <3> QED BY <1>0, <1>1, <3>1, <3>2 DEF RepliesAreTrue
  <2>2. CASE tasks' = [tasks EXCEPT ![t].reply = "rejection"]
    <3>1. [tasks[t] EXCEPT !.reply = "rejection"].reply = "rejection"
      BY <1>0 DEF TaskRows
    <3> QED BY <1>4, <2>2, <3>1
  <2> QED BY <1>7, <2>1, <2>2 DEF DaemonHandles
<1>8. ASSUME NEW c \in Candidates, NEW r \in 1..last_round_id, Journal(c, r) PROVE RepliesAreTrue'
  <2>1. [NoTask EXCEPT !.pc = "queued"].reply = "none"
    BY DEF NoTask
  <2> QED BY <1>4, <1>8, <2>1, OwnerIsTask DEF Journal
<1>9. CASE Restart
  <2>1. \A t \in TaskIds : tasks'[t].reply = "none"
    BY <1>9 DEF Restart, RecoveredTask, NoTask
  <2> QED BY <1>1, <2>1 DEF RepliesAreTrue
<1>10. CASE \/ FetchTemplate \/ PublishTemplate \/ HoldTemplate \/ IssueJob \/ ChainGrows
            \/ StartWorkers \/ UNCHANGED vars
            \/ \E h \in Heights, c \in Candidates \cup {NoCandidate} : ProcessShare(h, c)
            \/ \E c \in Candidates : JournalExisting(c) \/ DaemonHandlesLate(c)
  <2>1. UNCHANGED tasks
    BY <1>10
    DEF FetchTemplate, PublishTemplate, HoldTemplate, IssueJob, ChainGrows, StartWorkers,
        ProcessShare, JournalExisting, DaemonHandlesLate, processVars, vars
  <2> QED BY <1>3, <2>1
<1> QED BY <1>1, <1>6, <1>7, <1>8, <1>9, <1>10 DEF Next

-----------------------------------------------------------------------------
(* Every step of a task records a block or leaves the outcomes alone. *)
LEMMA UntouchedSettles ==
    ASSUME UNCHANGED storeVars
    PROVE  Settles
BY DEF Settles, LeavesHeights, storeVars

LEMMA AttemptSettles ==
    ASSUME StoreTypeOK, NEW c \in Candidates, NEW n, NEW class,
           FinishCandidateAttempt(c, n, class, TrustedMode)
    PROVE  \/ Settles
           \/ class = "accepted" /\ CanAccept(c, Unresolved) /\ AcceptInTransaction(c, "accepted")
<1>1. CASE FinishAttemptAfterAcceptance(c, n, class)
  BY <1>1 DEF FinishAttemptAfterAcceptance, Settles, LeavesHeights
<1>2. CASE class = "accepted" /\ FinishAttemptAccepted(c, n)
  BY <1>2 DEF FinishAttemptAccepted, CanAccept
<1>3. CASE FinishAttemptFailed(c, n, class, TrustedMode)
  <2> DEFINE state == StateAfterFailure(c, n, class)
             had == (candidates[c].had_indeterminate \/ class = "indeterminate")
  <2>1. /\ candidates[c].state = "dispatching"
        /\ candidates' = [candidates EXCEPT ![c].state = state, ![c].had_indeterminate = had]
        /\ UNCHANGED <<rounds, last_round_id, origin_rounds>>
    BY <1>3 DEF FinishAttemptFailed, StillDispatching
  <2>2. state \in {"retry_wait", "ambiguous", "rejected"}
    BY DEF StateAfterFailure
  <2> HIDE DEF state, had
  <2>3. /\ candidates'[c].state = state /\ candidates'[c].round_id = candidates[c].round_id
        /\ \A d \in Candidates \ {c} : candidates'[d] = candidates[d]
    BY SMTT(30), <2>1 DEF StoreTypeOK, CandidateRows
  <2> QED BY <2>1, <2>2, <2>3 DEF Settles, LeavesHeights
<1> QED BY <1>1, <1>2, <1>3 DEF FinishCandidateAttempt

LEMMA ReleaseWithholds ==
    ASSUME ClocksInOrder, NEW c \in Candidates, NEW state, ReleaseByState(c, state)
    PROVE  Withholds
<1>1. CandidateHeight[c] \in Nat
  BY HeightsAssumption
<1>2. UNCHANGED <<current_height, fetched>>
  BY DEF ReleaseByState
<1>3. fence' \in Nat /\ fence <= fence' /\ (issuance' => issuance)
  <2>1. CASE ReleaseAccepted(c)
    <3>1. fence' \in Nat /\ fence <= fence'
      BY SMTT(30), <1>1, <2>1 DEF ReleaseAccepted, Higher, ClocksInOrder
    <3>2. issuance' => issuance
      BY <2>1 DEF ReleaseAccepted
    <3> QED BY <3>1, <3>2
  <2>2. CASE UNCHANGED <<fence, issuance>>
    <3>1. fence' \in Nat /\ fence <= fence'
      BY SMTT(30), <2>2 DEF ClocksInOrder
    <3>2. issuance' => issuance
      BY <2>2
    <3> QED BY <3>1, <3>2
  <2> QED BY <2>1, <2>2 DEF ReleaseByState, ReleaseRejected
<1> QED BY <1>2, <1>3 DEF Withholds

LEMMA UnchangedWithholds ==
    ASSUME ClocksInOrder, UNCHANGED <<current_height, fetched, fence>>, issuance' => issuance
    PROVE  Withholds
BY SMTT(30) DEF Withholds, ClocksInOrder

LEMMA TaskStepKinds ==
    ASSUME PublicationInv, NEW t \in TaskIds, TaskStep(t)
    PROVE  Records(t[1]) \/ (Settles /\ Withholds /\ ChainStays)
<1> DEFINE c == t[1]
<1>0. c \in Candidates /\ StoreTypeOK /\ ClocksInOrder
  BY PublicationFacts, TaskIdParts DEF PublicationInv, PublicationOK
<1>1. ChainStays
  BY DEF TaskStep, TakeTerminal, TakeSubmit, TakeLookup, SubmitDispatch, SubmitRefused,
     SubmitException, SubmitFinish, LookupDispatch, LookupFails, LookupFinish, EndQuick, EndRequeue,
     EndExhausted, RecoverLookup, daemonVars, ChainStays
<1>2. UNCHANGED publicationVars => Withholds
  BY SMTT(30), <1>0, UnchangedWithholds DEF publicationVars
<1>3. CASE TakeTerminal(t)
  BY <1>0, <1>1, <1>3, UntouchedSettles, ReleaseWithholds DEF TakeTerminal
<1>4. CASE \/ TakeSubmit(t) \/ TakeLookup(t) \/ SubmitRefused(t) \/ LookupFails(t) \/ EndQuick(t)
           \/ EndRequeue(t) \/ RecoverLookup(t)
  BY <1>1, <1>2, <1>4, UntouchedSettles
  DEF TakeSubmit, TakeLookup, SubmitRefused, LookupFails, EndQuick, EndRequeue, RecoverLookup
<1>5. CASE SubmitDispatch(t)
  <2>1. Settles
    BY SMTT(30), <1>0, <1>5 DEF SubmitDispatch, StartCandidateAttempt, CanStartAttempt, Settles, LeavesHeights,
       StoreTypeOK, CandidateRows
  <2> QED BY <1>1, <1>2, <1>5, <2>1 DEF SubmitDispatch
<1>6. CASE LookupDispatch(t)
  <2>1. Settles
    BY SMTT(30), <1>0, <1>6 DEF LookupDispatch, StartCandidateReconciliation, Settles, LeavesHeights,
       StoreTypeOK, CandidateRows
  <2> QED BY <1>1, <1>2, <1>6, <2>1 DEF LookupDispatch
<1>7. CASE EndExhausted(t)
  <2>1. Settles
    BY SMTT(30), <1>0, <1>7 DEF EndExhausted, ExhaustCandidateReconciliation, Settles, LeavesHeights,
       StoreTypeOK, CandidateRows
  <2> QED BY <1>1, <1>2, <1>7, <2>1 DEF EndExhausted
<1>8. ASSUME NEW state \in Accepted, CanAccept(c, Unresolved), AcceptInTransaction(c, state),
             ReleaseByState(c, candidates'[c].state), c \in in_chain
      PROVE  Records(c)
  <2>1. candidates'[c].state = state
    BY SMTT(30), <1>0, <1>8 DEF AcceptInTransaction, StoreTypeOK, CandidateRows
  <2>2. ReleaseAccepted(c) /\ UNCHANGED <<current_height, fetched>>
    BY <1>8, <2>1 DEF ReleaseByState
  <2> QED BY <1>1, <1>8, <2>2 DEF Records
<1>9. CASE SubmitException(t)
  <2>1. Settles
    BY SMTT(30), <1>0, <1>9, AttemptSettles DEF SubmitException
  <2>2. Withholds
    BY <1>0, <1>9, ReleaseWithholds DEF SubmitException
  <2> QED BY <1>1, <2>1, <2>2
<1>10. ASSUME NEW class \in AttemptClasses, SubmitFinish(t, class)
       PROVE  Records(c) \/ (Settles /\ Withholds /\ ChainStays)
  <2>1. Withholds
    BY <1>0, <1>10, ReleaseWithholds DEF SubmitFinish
  <2>2. class = "accepted" => c \in in_chain
    BY <1>10 DEF SubmitFinish, Observations, PublicationInv, RepliesAreTrue
  <2>3. \/ Settles
        \/ class = "accepted" /\ CanAccept(c, Unresolved) /\ AcceptInTransaction(c, "accepted")
    BY <1>0, <1>10, AttemptSettles DEF SubmitFinish
  <2>4. ReleaseByState(c, candidates'[c].state)
    BY <1>10 DEF SubmitFinish
  <2> QED BY <1>1, <1>8, <2>1, <2>2, <2>3, <2>4
<1>11. ASSUME NEW class \in LookupClasses, LookupFinish(t, class)
       PROVE  Records(c) \/ (Settles /\ Withholds /\ ChainStays)
  <2>1. Withholds
    BY <1>0, <1>2, <1>11, ReleaseWithholds DEF LookupFinish
  <2>2. CASE UNCHANGED <<candidates, rounds, last_round_id, origin_rounds>>
    <3>1. Settles
      BY <2>2 DEF Settles, LeavesHeights
    <3> QED BY <1>1, <2>1, <3>1
  <2>3. CASE /\ class = "positive" /\ CanAccept(c, Unresolved)
             /\ AcceptInTransaction(c, "accepted_by_reconciliation")
    <3>1. candidates'[c].state \in Accepted
      BY <1>0, <2>3 DEF AcceptInTransaction, StoreTypeOK, CandidateRows
    <3>2. ReleaseByState(c, candidates'[c].state) /\ c \in in_chain
      BY <1>11, <2>3, <3>1 DEF LookupFinish
    <3> QED BY <1>8, <2>3, <3>2
  <2> QED
    BY <1>11, <2>2, <2>3
    DEF LookupFinish, FinishCandidateReconciliation, FinishReconciliationPositive,
        FinishReconciliationOther
<1> QED BY <1>3, <1>4, <1>5, <1>6, <1>7, <1>9, <1>10, <1>11 DEF TaskStep

-----------------------------------------------------------------------------
(* Each kind of step keeps the invariant. *)
LEMMA SettlingKeeps ==
    ASSUME PublicationInv, Settles, Withholds, ChainStays \/ ChainMoves
    PROVE  PublicationOK'
<1> USE DEF PublicationInv, PublicationOK
<1>0. /\ \A c \in Candidates : CandidateHeight[c] \in Nat \ {0}
      /\ in_chain \subseteq in_chain'
      /\ chain_height \in Nat /\ chain_height' \in Nat /\ chain_height <= chain_height'
  BY SMTT(30), PublicationFacts DEF ChainStays, ChainMoves, ClocksInOrder
<1>1. /\ \A c \in Candidates :
            /\ candidates'[c].state \in Accepted <=> candidates[c].state \in Accepted
            /\ candidates'[c].state \in Unresolved => candidates[c].state \in Unresolved
            /\ candidates'[c].state # "absent" => candidates[c].state # "absent"
            /\ candidates'[c].round_id = candidates[c].round_id
      /\ rounds' = rounds
  BY DEF Settles, LeavesHeights
<1>2. ClocksInOrder'
  BY SMTT(30), <1>0 DEF ClocksInOrder, Withholds
<1>3. AcceptedIsInChain'
  BY <1>0, <1>1 DEF AcceptedIsInChain
<1>4. ChainIsLinear'
  <2>1. CASE in_chain' = in_chain
    BY SMTT(30), <1>0, <2>1 DEF ChainIsLinear
  <2>2. ASSUME NEW c \in Candidates, CandidateHeight[c] = chain_height,
               in_chain' = in_chain \cup {c}, chain_height' = chain_height + 1
        PROVE  ChainIsLinear'
    BY SMTT(30), <1>0, <2>2 DEF ChainIsLinear
  <2> QED BY <2>1, <2>2 DEF ChainStays, ChainMoves
<1>5. BlocksRise'
  <2> SUFFICES ASSUME NEW c \in Candidates, NEW d \in Candidates,
                      candidates'[d].state \in Accepted, candidates'[c].state # "absent",
                      candidates'[d].round_id < candidates'[c].round_id, c \in in_chain'
               PROVE  CandidateHeight[d] < CandidateHeight[c]
    BY DEF BlocksRise
  <2>1. CASE c \in in_chain
    BY <1>1, <2>1 DEF BlocksRise
  <2>2. CASE c \notin in_chain
    <3>1. CandidateHeight[c] = chain_height
      BY <2>2 DEF ChainStays, ChainMoves
    <3>2. CandidateHeight[d] < chain_height
      BY <1>1 DEF AcceptedIsInChain, ChainIsLinear
    <3> QED BY <3>1, <3>2
  <2> QED BY <2>1, <2>2
<1>6. FenceHolds'
  <2> SUFFICES ASSUME NEW c \in Candidates, candidates'[c].state \in Accepted
               PROVE  CandidateHeight[c] < current_height' \/ CandidateHeight[c] <= fence'
    BY DEF FenceHolds
  <2>1. CandidateHeight[c] < current_height \/ CandidateHeight[c] <= fence
    BY <1>1 DEF FenceHolds
  <2> QED BY SMTT(30), <1>0, <2>1 DEF Withholds, ClocksInOrder
<1>7. NoLaterShare'
  BY <1>1 DEF NoLaterShare
<1>8. PublishedWorkIsUseful'
  <2>1. issuance' /\ current_height' # 0 => issuance /\ current_height # 0
    BY DEF Withholds
  <2>2. current_height' = current_height
    BY DEF Withholds
  <2> QED BY <1>1, <2>1, <2>2 DEF PublishedWorkIsUseful
<1> QED BY <1>2, <1>3, <1>4, <1>5, <1>6, <1>7, <1>8

LEMMA RecordingKeeps ==
    ASSUME PublicationInv, NEW c \in Candidates, Records(c)
    PROVE  PublicationOK'
<1> USE DEF PublicationInv, PublicationOK
<1> DEFINE last == last_round_id
<1>0. /\ \A d \in Candidates : CandidateHeight[d] \in Nat \ {0}
      /\ StoreTypeOK /\ HeightsInv
      /\ last \in Nat \ {0}
  BY PublicationFacts
<1>1. PICK state \in Accepted : AcceptInTransaction(c, state)
  BY DEF Records
<1>2. /\ candidates[c].state \in Unresolved /\ candidates[c].round_id = last
      /\ c \in in_chain /\ ReleaseAccepted(c)
      /\ UNCHANGED <<current_height, fetched, chain_height, in_chain>>
  BY <1>0, HeightFacts DEF Records, CanAccept, ChainStays
<1>3. /\ candidates'[c].state \in Accepted /\ candidates'[c].round_id = last
      /\ \A d \in Candidates \ {c} : candidates'[d] = candidates[d]
  BY SMTT(30), <1>0, <1>1, <1>2 DEF AcceptInTransaction, StoreTypeOK, CandidateRows
<1>4. /\ rounds'[last] = ClosedBy(c, last)
      /\ \A r \in 1..(last - 1) : rounds'[r] = rounds[r]
  BY SMTT(30), <1>0, <1>1, <1>2 DEF AcceptInTransaction
<1>5. \A r \in 1..last : rounds'[r].max_share_height = rounds[r].max_share_height
  <2> TAKE r \in 1..last
  <2>1. CASE r = last
    BY <1>0, <1>4, <2>1, HeightFacts DEF ClosedBy, RoundRows
  <2>2. CASE r # last
    <3>1. r \in 1..(last - 1)
      BY SMTT(30), <1>0, <2>2
    <3> QED BY <1>4, <3>1
  <2> QED BY <2>1, <2>2
<1>6. /\ fence' \in Nat /\ fence <= fence'
      /\ CandidateHeight[c] < current_height \/ CandidateHeight[c] <= fence'
  BY SMTT(30), <1>0, <1>2 DEF ReleaseAccepted, Higher, ClocksInOrder
<1>7. issuance' => issuance /\ current_height > CandidateHeight[c]
  BY <1>2 DEF ReleaseAccepted
<1>8. ClocksInOrder'
  BY <1>2, <1>6 DEF ClocksInOrder
<1>9. AcceptedIsInChain' /\ ChainIsLinear'
  BY <1>2, <1>3 DEF AcceptedIsInChain, ChainIsLinear
<1>10. BlocksRise'
  <2> SUFFICES ASSUME NEW x \in Candidates, NEW d \in Candidates,
                      candidates'[d].state \in Accepted, candidates'[x].state # "absent",
                      candidates'[d].round_id < candidates'[x].round_id, x \in in_chain
               PROVE  CandidateHeight[d] < CandidateHeight[x]
    BY <1>2 DEF BlocksRise
  <2>1. candidates[x].state # "absent" /\ candidates'[x].round_id = candidates[x].round_id
    BY <1>2, <1>3
  <2>2. candidates[x].round_id \in 1..last
    BY <2>1, PublicationFacts
  <2>3. d # c
    BY SMTT(30), <1>0, <1>3, <2>1, <2>2
  <2> QED BY <1>3, <2>1, <2>3 DEF BlocksRise
<1>11. FenceHolds'
  <2> SUFFICES ASSUME NEW d \in Candidates, candidates'[d].state \in Accepted
               PROVE  CandidateHeight[d] < current_height \/ CandidateHeight[d] <= fence'
    BY <1>2 DEF FenceHolds
  <2>1. CASE d = c
    BY <1>6, <2>1
  <2>2. CASE d # c
    <3>1. CandidateHeight[d] < current_height \/ CandidateHeight[d] <= fence
      BY <1>3, <2>2 DEF FenceHolds
    <3> QED BY SMTT(30), <1>0, <1>6, <3>1 DEF ClocksInOrder
  <2> QED BY <2>1, <2>2
<1>12. NoLaterShare'
  <2> SUFFICES ASSUME NEW d \in Candidates, candidates'[d].state \in Unresolved
               PROVE  rounds'[candidates'[d].round_id].max_share_height <= CandidateHeight[d]
    BY DEF NoLaterShare
  <2>1. d # c /\ candidates'[d] = candidates[d]
    BY <1>3
  <2>2. candidates[d].round_id \in 1..last
    BY <2>1, PublicationFacts
  <2> QED BY <1>5, <2>1, <2>2 DEF NoLaterShare
<1>13. PublishedWorkIsUseful'
  BY <1>2, <1>3, <1>7 DEF PublishedWorkIsUseful
<1> QED BY <1>8, <1>9, <1>10, <1>11, <1>12, <1>13

LEMMA FetchKeeps ==
    ASSUME PublicationInv, FetchTemplate
    PROVE  PublicationOK'
<1> USE DEF PublicationInv, PublicationOK
<1>1. /\ UNCHANGED <<candidates, rounds, in_chain, chain_height, current_height, fence, issuance>>
      /\ fetched' = chain_height
  BY DEF FetchTemplate, storeVars, daemonVars
<1>2. ClocksInOrder'
  BY SMTT(30), <1>1 DEF ClocksInOrder
<1>3. AcceptedIsInChain' /\ ChainIsLinear' /\ BlocksRise' /\ FenceHolds' /\ NoLaterShare'
  BY <1>1 DEF AcceptedIsInChain, ChainIsLinear, BlocksRise, FenceHolds, NoLaterShare
<1>4. PublishedWorkIsUseful'
  BY <1>1 DEF PublishedWorkIsUseful
<1> QED BY <1>2, <1>3, <1>4

LEMMA PublishKeeps ==
    ASSUME PublicationInv, PublishTemplate
    PROVE  PublicationOK'
<1> USE DEF PublicationInv, PublicationOK
<1>0. \A c \in Candidates : CandidateHeight[c] \in Nat \ {0}
  BY PublicationFacts
<1>1. /\ UNCHANGED <<candidates, rounds, in_chain, chain_height>>
      /\ fetched # 0 /\ fetched' = 0 /\ current_height' = fetched /\ fence' = 0
      /\ HeightAllowed(fetched)
  BY DEF PublishTemplate, storeVars, daemonVars
<1>2. ClocksInOrder'
  BY SMTT(30), <1>1 DEF ClocksInOrder
<1>3. AcceptedIsInChain' /\ ChainIsLinear' /\ BlocksRise' /\ NoLaterShare'
  BY <1>1 DEF AcceptedIsInChain, ChainIsLinear, BlocksRise, NoLaterShare
<1>4. ASSUME NEW c \in Candidates, candidates[c].state \in Accepted
      PROVE  CandidateHeight[c] < fetched
  <2>1. CASE CandidateHeight[c] < current_height
    BY SMTT(30), <1>0, <1>1, <2>1 DEF ClocksInOrder
  <2>2. CASE CandidateHeight[c] <= fence
    BY SMTT(30), <1>0, <1>1, <2>2 DEF ClocksInOrder, HeightAllowed
  <2> QED BY <1>4, <2>1, <2>2 DEF FenceHolds
<1>5. FenceHolds'
  BY <1>1, <1>4 DEF FenceHolds
<1>6. ASSUME NEW c \in Candidates, candidates[c].state \in Unresolved
      PROVE  fetched <= CandidateHeight[c]
  BY <1>1, <1>6 DEF HeightAllowed, RuntimeInv, BoundaryIsUnresolved, UnresolvedCandidates
<1>7. PublishedWorkIsUseful'
  BY <1>0, <1>1, <1>4, <1>6 DEF PublishedWorkIsUseful, ClocksInOrder
<1> QED BY <1>2, <1>3, <1>5, <1>7

LEMMA ShareKeeps ==
    ASSUME PublicationInv, NEW h \in Heights, NEW c \in Candidates \cup {NoCandidate},
           ProcessShare(h, c)
    PROVE  PublicationOK'
<1> USE DEF PublicationInv, PublicationOK
<1> DEFINE last == last_round_id
           max == Higher(rounds[last].max_share_height, h)
<1>0. StoreTypeOK /\ h \in Nat /\ last \in 1..last /\ rounds[last] \in RoundRows
  BY PublicationFacts, HeightsAssumption, HeightFacts
<1>1. /\ UNCHANGED <<candidates, in_chain, chain_height, current_height, fetched, fence, issuance>>
      /\ HeightAllowed(h) /\ rounds' = [rounds EXCEPT ![last].max_share_height = max]
  BY HeightFacts DEF ProcessShare, InsertShare, processVars, daemonVars
<1>2. ClocksInOrder' /\ AcceptedIsInChain' /\ ChainIsLinear' /\ BlocksRise' /\ FenceHolds'
  BY <1>1 DEF ClocksInOrder, AcceptedIsInChain, ChainIsLinear, BlocksRise, FenceHolds
<1>3. PublishedWorkIsUseful'
  BY <1>1 DEF PublishedWorkIsUseful
<1>4. /\ rounds'[last].max_share_height = max
      /\ \A r \in 1..last : r # last => rounds'[r] = rounds[r]
  BY <1>0, <1>1 DEF StoreTypeOK, RoundRows
<1>5. NoLaterShare'
  <2> SUFFICES ASSUME NEW d \in Candidates, candidates[d].state \in Unresolved
               PROVE  rounds'[candidates[d].round_id].max_share_height <= CandidateHeight[d]
    BY <1>1 DEF NoLaterShare
  <2>1. /\ candidates[d].round_id \in 1..last
        /\ rounds[candidates[d].round_id].max_share_height <= CandidateHeight[d]
    BY PublicationFacts DEF NoLaterShare
  <2>2. h <= CandidateHeight[d]
    BY <1>1 DEF HeightAllowed, RuntimeInv, BoundaryIsUnresolved, UnresolvedCandidates
  <2>3. CASE candidates[d].round_id = last
    BY <1>4, <2>1, <2>2, <2>3 DEF Higher
  <2>4. CASE candidates[d].round_id # last
    BY <1>4, <2>1, <2>4
  <2> QED BY <2>3, <2>4
<1> QED BY <1>2, <1>3, <1>5

LEMMA NewBlockKeeps ==
    ASSUME PublicationInv, NEW c \in Candidates, NEW r \in 1..last_round_id, Journal(c, r)
    PROVE  PublicationOK'
<1> USE DEF PublicationInv, PublicationOK
<1>0. StoreTypeOK /\ \A d \in Candidates : CandidateHeight[d] \in Nat \ {0}
  BY PublicationFacts
<1>1. /\ UNCHANGED <<rounds, in_chain, chain_height, current_height, fetched, fence>>
      /\ candidates[c].state = "absent" /\ rounds[r].state = "open"
      /\ ~(rounds[r].max_share_height > CandidateHeight[c])
  BY DEF Journal, JournalCandidate, Uncontaminated, HasHigherShare, daemonVars
<1>2. issuance' => issuance /\ current_height <= CandidateHeight[c]
  BY DEF Journal, RegisterBoundary
<1>3. /\ candidates'[c].state = "journaled" /\ candidates'[c].round_id = r
      /\ \A d \in Candidates \ {c} : candidates'[d] = candidates[d]
  BY <1>0 DEF Journal, JournalCandidate, StoreTypeOK, AbsentRow
<1>4. c \notin in_chain
  <2>1. CandidateInv(c)
    BY DEF RuntimeInv
  <2> QED BY <1>1, <2>1 DEF CandidateInv, ChainIsKnown, DispatchIsOwned
<1>5. ClocksInOrder' /\ AcceptedIsInChain' /\ ChainIsLinear' /\ FenceHolds'
  BY <1>1, <1>3 DEF ClocksInOrder, AcceptedIsInChain, ChainIsLinear, FenceHolds
<1>6. BlocksRise'
  BY <1>1, <1>3, <1>4 DEF BlocksRise
<1>7. NoLaterShare'
  <2>1. rounds[r].max_share_height \in Nat
    BY HeightFacts
  <2> QED BY SMTT(30), <1>0, <1>1, <1>3, <2>1 DEF NoLaterShare
<1>8. PublishedWorkIsUseful'
  BY <1>1, <1>2, <1>3 DEF PublishedWorkIsUseful
<1> QED BY <1>5, <1>6, <1>7, <1>8

LEMMA RestartPublishes ==
    ASSUME PublicationInv, Restart
    PROVE  PublicationOK'
<1> USE DEF PublicationInv, PublicationOK
<1> DEFINE last == last_round_id
<1>0. /\ StoreTypeOK /\ last \in Nat \ {0} /\ \A d \in Candidates : CandidateHeight[d] \in Nat \ {0}
      /\ OpenRounds = {last} /\ last \in 1..last
  BY PublicationFacts, HeightFacts
<1>1. /\ UNCHANGED <<in_chain, chain_height, last_round_id>>
      /\ current_height' = 0 /\ fetched' = 0 /\ fence' = LatestAcceptedHeight
  BY DEF Restart, ReopenDatabase
<1>2. ASSUME NEW c \in Candidates
      PROVE  /\ candidates'[c].state \in Accepted <=> candidates[c].state \in Accepted
             /\ candidates'[c].state \in Unresolved => candidates[c].state \in Unresolved
             /\ candidates'[c].state # "absent" => candidates[c].state # "absent"
             /\ candidates'[c].round_id = candidates[c].round_id
  <2>1. candidates'[c] = RecoveredRow(c) /\ candidates[c] \in CandidateRows
    BY <1>0 DEF Restart, ReopenDatabase, StoreTypeOK
  <2>2. CASE candidates[c].state # "dispatching"
    BY <2>1, <2>2 DEF RecoveredRow
  <2>3. CASE candidates[c].state = "dispatching"
    <3>1. PICK state \in {"retry_wait", "ambiguous"} :
             candidates'[c] = [candidates[c] EXCEPT !.had_indeterminate = TRUE, !.state = state]
      BY <2>1, <2>3 DEF RecoveredRow
    <3>2. candidates'[c].state = state /\ candidates'[c].round_id = candidates[c].round_id
      BY <2>1, <3>1 DEF CandidateRows
    <3> QED BY <2>3, <3>2
  <2> QED BY <2>2, <2>3
<1>3. ASSUME last # 1
      PROVE  /\ last - 1 \in 1..last /\ rounds[last - 1].state = "closed"
             /\ rounds[last - 1].accepted_candidate \in Candidates
             /\ candidates[rounds[last - 1].accepted_candidate].state \in Accepted
             /\ candidates[rounds[last - 1].accepted_candidate].round_id = last - 1
  <2>1. last - 1 \in 1..last /\ last - 1 # last
    BY SMTT(30), <1>0, <1>3
  <2>2. rounds[last - 1].state = "closed"
    BY <1>0, <2>1 DEF OpenRounds, StoreTypeOK, RoundRows
  <2> QED BY <2>1, <2>2 DEF HeightsInv, RoundsInv, RoundsMatchAcceptances
<1>4. ASSUME NEW d \in Candidates, candidates[d].state \in Accepted
      PROVE  CandidateHeight[d] <= LatestAcceptedHeight
  <2> DEFINE q == candidates[d].round_id
  <2>1. q \in 1..last /\ rounds[q].state = "closed" /\ rounds[q].accepted_candidate = d
    BY <1>4 DEF HeightsInv, RoundsInv, RoundsMatchAcceptances
  <2>2. q # last
    BY <1>0, <2>1 DEF OpenRounds
  <2>3. last # 1 /\ (q = last - 1 \/ q < last - 1)
    BY SMTT(30), <1>0, <2>1, <2>2
  <2> DEFINE c == rounds[last - 1].accepted_candidate
  <2>4. c \in Candidates /\ candidates[c].state \in Accepted /\ candidates[c].round_id = last - 1
    BY <1>3, <2>3
  <2>5. CASE q = last - 1
    BY SMTT(30), <1>0, <2>1, <2>3, <2>5 DEF LatestAcceptedHeight
  <2>6. CASE q < last - 1
    <3>1. c \in in_chain
      BY <2>4 DEF AcceptedIsInChain
    <3>2. CandidateHeight[d] < CandidateHeight[c]
      BY <1>4, <2>4, <2>6, <3>1 DEF BlocksRise
    <3> QED BY SMTT(30), <1>0, <2>3, <2>4, <3>2 DEF LatestAcceptedHeight
  <2> QED BY <2>3, <2>5, <2>6
<1>5. LatestAcceptedHeight \in Nat
  BY <1>0, <1>3 DEF LatestAcceptedHeight
<1>6. ClocksInOrder'
  BY SMTT(30), <1>1, <1>5 DEF ClocksInOrder
<1>7. AcceptedIsInChain' /\ ChainIsLinear'
  BY <1>1, <1>2 DEF AcceptedIsInChain, ChainIsLinear
<1>8. BlocksRise'
  BY <1>1, <1>2 DEF BlocksRise
<1>9. FenceHolds'
  BY <1>1, <1>2, <1>4 DEF FenceHolds
<1>10. NoLaterShare'
  <2>1. PICK h \in Heights \cup {0} :
           h \in SurvivingHeights(last) /\ rounds' = [rounds EXCEPT ![last].max_share_height = h]
    BY <1>0 DEF Restart, ReopenDatabase
  <2>2. /\ rounds'[last].max_share_height = h /\ h <= rounds[last].max_share_height
        /\ h \in Nat /\ rounds[last].max_share_height \in Nat
        /\ \A r \in 1..last : r # last => rounds'[r] = rounds[r]
    BY <1>0, <2>1, HeightFacts DEF StoreTypeOK, RoundRows, SurvivingHeights
  <2> SUFFICES ASSUME NEW d \in Candidates, candidates'[d].state \in Unresolved
               PROVE  rounds'[candidates'[d].round_id].max_share_height <= CandidateHeight[d]
    BY DEF NoLaterShare
  <2>3. /\ candidates'[d].round_id = candidates[d].round_id /\ candidates[d].round_id \in 1..last
        /\ rounds[candidates[d].round_id].max_share_height <= CandidateHeight[d]
    BY <1>2, PublicationFacts DEF NoLaterShare
  <2>4. CASE candidates[d].round_id = last
    BY SMTT(30), <1>0, <2>2, <2>3, <2>4
  <2>5. CASE candidates[d].round_id # last
    BY <2>2, <2>3, <2>5
  <2> QED BY <2>4, <2>5
<1>11. PublishedWorkIsUseful'
  BY <1>1 DEF PublishedWorkIsUseful
<1> QED BY <1>6, <1>7, <1>8, <1>9, <1>10, <1>11

-----------------------------------------------------------------------------
(* The theorems. *)
LEMMA PublicationInit == Init => PublicationInv
<1> SUFFICES ASSUME Init PROVE PublicationInv
  OBVIOUS
<1>1. RuntimeInv /\ HeightsInv
  BY RuntimeInit, HeightsInit DEF Init
<1>2. \A c \in Candidates : candidates[c].state = "absent"
  BY DEF Init, StoreInit, AbsentRow
<1>3. RepliesAreTrue
  BY DEF Init, RepliesAreTrue, NoTask
<1>4. PublicationOK
  BY SMTT(30), <1>2 DEF Init, PublicationOK, ClocksInOrder, AcceptedIsInChain, ChainIsLinear, BlocksRise,
     FenceHolds, NoLaterShare, PublishedWorkIsUseful
<1> QED BY <1>1, <1>3, <1>4 DEF PublicationInv

LEMMA PublicationStep == PublicationInv /\ [Next]_vars => PublicationInv'
<1> SUFFICES ASSUME PublicationInv, [Next]_vars PROVE PublicationInv'
  OBVIOUS
<1>1. RuntimeInv'
  BY RuntimeStep DEF PublicationInv
<1>2. HeightsInv'
  BY StepIsStoreStep, HeightsNext DEF PublicationInv, RuntimeInv
<1>3. RepliesAreTrue'
  BY RepliesNext
<1>4. PublicationOK'
  <2>0. ClocksInOrder
    BY DEF PublicationInv, PublicationOK
  <2>1. CASE UNCHANGED vars \/ IssueJob \/ StartWorkers
    <3>1. UNCHANGED storeVars /\ ChainStays
      BY <2>1 DEF vars, IssueJob, StartWorkers, daemonVars, ChainStays
    <3>2. UNCHANGED <<current_height, fetched, fence, issuance>>
      BY <2>1 DEF vars, IssueJob, StartWorkers, processVars, publicationVars
    <3> QED BY <2>0, <3>1, <3>2, UntouchedSettles, UnchangedWithholds, SettlingKeeps
  <2>2. CASE HoldTemplate
    <3>1. UNCHANGED storeVars /\ ChainStays
      BY <2>2 DEF HoldTemplate, daemonVars, ChainStays
    <3>2. Withholds
      BY SMTT(30), <2>0, <2>2 DEF HoldTemplate, Withholds, ClocksInOrder
    <3> QED BY <3>1, <3>2, UntouchedSettles, SettlingKeeps
  <2>3. ASSUME NEW c \in Candidates, JournalExisting(c) PROVE PublicationOK'
    <3>1. UNCHANGED storeVars /\ ChainStays
      BY <2>3 DEF JournalExisting, daemonVars, ChainStays
    <3>2. UNCHANGED <<current_height, fetched, fence>>
      BY <2>3 DEF JournalExisting
    <3>3. issuance' => issuance
      BY <2>3 DEF JournalExisting, RegisterBoundary
    <3> QED BY <2>0, <3>1, <3>2, <3>3, UntouchedSettles, UnchangedWithholds, SettlingKeeps
  <2>4. ASSUME NEW t \in TaskIds, TaskStep(t) PROVE PublicationOK'
    BY <2>4, TaskStepKinds, SettlingKeeps, RecordingKeeps, TaskIdParts
  <2>5. ASSUME \/ ChainGrows
               \/ \E t \in TaskIds : DaemonHandles(t)
               \/ \E c \in Candidates : DaemonHandlesLate(c)
        PROVE PublicationOK'
    <3>1. UNCHANGED storeVars
      BY <2>5 DEF ChainGrows, DaemonHandles, DaemonHandlesLate
    <3>2. UNCHANGED <<current_height, fetched, fence, issuance>>
      BY <2>5 DEF ChainGrows, DaemonHandles, DaemonHandlesLate, processVars, publicationVars
    <3>3. ChainStays \/ ChainMoves
      BY <2>5, TaskIdParts
      DEF ChainGrows, DaemonHandles, DaemonHandlesLate, DaemonAccepts, ChainStays, ChainMoves
    <3> QED BY <2>0, <3>1, <3>2, <3>3, UntouchedSettles, UnchangedWithholds, SettlingKeeps
  <2> QED
    BY <2>1, <2>2, <2>3, <2>4, <2>5, FetchKeeps, PublishKeeps, ShareKeeps, NewBlockKeeps,
       RestartPublishes
    DEF Next
<1> QED BY <1>1, <1>2, <1>3, <1>4 DEF PublicationInv

\* refresh_template and make_job hand out work above every block the database has accepted and
\* not above a block it has unresolved, across races of fetched templates with acceptances,
\* siblings of one height, late answers and restarts.
THEOREM PublicationsAreUseful == Spec => []PublishedWorkIsUseful
<1>1. PublicationInv => PublishedWorkIsUseful
  BY DEF PublicationInv, PublicationOK
<1> QED BY <1>1, PublicationInit, PublicationStep, PTL DEF Spec

\* The require()s of accept_candidate_in_transaction never refuse a block that is in the chain:
\* its round is still open and holds no later work.
THEOREM BlocksAreRecordable == Spec => []BlockInChainIsRecordable
<1>1. PublicationInv => BlockInChainIsRecordable
  <2> SUFFICES ASSUME PublicationInv, NEW c \in in_chain, candidates[c].state \in Unresolved,
                      c \in Candidates
               PROVE  CanAccept(c, Unresolved)
    BY DEF BlockInChainIsRecordable, PublicationInv, PublicationOK, ChainIsLinear
  <2> DEFINE r == candidates[c].round_id
             d == rounds[r].accepted_candidate
  <2>1. /\ r \in 1..last_round_id /\ CandidateHeight[c] \in Nat
        /\ rounds[r].max_share_height = CandidateHeight[c]
    <3>1. r \in 1..last_round_id /\ rounds[r].max_share_height \in Nat /\ CandidateHeight[c] \in Nat
      BY PublicationFacts
    <3>2. CandidateHeight[c] <= rounds[r].max_share_height
      BY DEF PublicationInv, HeightsInv, CandidatesFit
    <3>3. rounds[r].max_share_height <= CandidateHeight[c]
      BY DEF PublicationInv, PublicationOK, NoLaterShare
    <3> QED BY SMTT(30), <3>1, <3>2, <3>3
  <2>2. rounds[r].state # "closed"
    <3> SUFFICES ASSUME rounds[r].state = "closed" PROVE FALSE
      OBVIOUS
    <3>1. d \in Candidates /\ candidates[d].state \in Accepted
      BY <2>1 DEF PublicationInv, HeightsInv, RoundsInv, RoundsMatchAcceptances
    <3>2. CandidateHeight[d] = CandidateHeight[c]
      BY <2>1 DEF PublicationInv, HeightsInv, ClosedRoundEndsAtItsBlock
    <3>3. d = c
      BY <3>1, <3>2 DEF PublicationInv, PublicationOK, AcceptedIsInChain, ChainIsLinear
    <3> QED BY <3>1, <3>3
  <2>3. OpenRounds = {r}
    <3>1. r \in OpenRounds
      BY <2>1, <2>2, PublicationFacts DEF OpenRounds, StoreTypeOK, RoundRows
    <3> QED BY <3>1, HeightFacts DEF PublicationInv
  <2> QED BY SMTT(30), <2>1, <2>3 DEF CanAccept, HasHigherShare
<1> QED BY <1>1, PublicationInit, PublicationStep, PTL DEF Spec

\* So what holds of the database for every caller holds in the running server: rounds match
\* accepted blocks, verdicts follow outcomes, outcomes are final.
THEOREM RuntimeKeepsRounds ==
    Spec => /\ []RoundsAreSound
            /\ []ClosedRoundEndsAtItsBlock
            /\ []VerdictsFollowOutcomes
            /\ OutcomesAreFinal
BY RuntimeImplementsStore, RoundsCorrect, RoundsEndAtTheirBlocks, EvidenceCorrect, Finality, PTL

===============================================================================
