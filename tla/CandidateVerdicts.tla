-------------------------- MODULE CandidateVerdicts --------------------------
(***************************************************************************)
(* The tables candidate_verdicts and abuse_events of src/src/db: what the  *)
(* verifier said of a share that claimed (or turned out) to be a block,    *)
(* and the durable evidence it becomes.  A verdict on an unresolved        *)
(* candidate waits for the daemon's outcome; the outcome makes it          *)
(* actionable (one abuse event per candidate and kind) or suppresses it.   *)
(*                                                                         *)
(* The operators of this module are the verdict parts of larger            *)
(* transactions: each gives the next value of the two tables.              *)
(***************************************************************************)
EXTENDS Naturals

CONSTANTS
    Candidates,   \* candidate keys (hashes of frozen blocks)
    NoCandidate,  \* SQL NULL in a candidate_id column
    Shares        \* ids of persisted share rows

ASSUME SharesAssumption == Shares \subseteq Nat \ {0}
ASSUME NoCandidateAssumption == NoCandidate \notin Candidates

VARIABLES
    verdicts,     \* candidate_verdicts, by (share_id, kind)
    abuse_events  \* abuse_events rows that come from candidates

VerdictKinds == {"false_candidate", "candidate_mismatch"}

\* Share id 0 stands for the candidate's own first share (no verdict row).
OriginShare == 0

AbuseKind(k) ==
    IF k = "false_candidate" THEN "verified_false_candidate" ELSE k

AbuseKinds == {AbuseKind(k) : k \in VerdictKinds}
                  \cup {"trusted_candidate_rejection"}

AbuseEvents == [candidate_id : Candidates \cup {NoCandidate},
                share_id : Shares \cup {OriginShare},
                kind : AbuseKinds]

\* SQL NULL in candidate_verdicts.abuse_event_id.
NoEvent == [candidate_id |-> NoCandidate, share_id |-> OriginShare, kind |-> "none"]

VerdictRows ==
    [disposition : {"none", "pending", "actionable", "suppressed"},
     candidate_key : Candidates \cup {NoCandidate},
     candidate_id : Candidates \cup {NoCandidate},
     abuse_event : AbuseEvents \cup {NoEvent}]

NoVerdict == [disposition |-> "none", candidate_key |-> NoCandidate,
              candidate_id |-> NoCandidate, abuse_event |-> NoEvent]

VerdictsTypeOK ==
    /\ verdicts \in [Shares \X VerdictKinds -> VerdictRows]
    /\ abuse_events \subseteq AbuseEvents

VerdictsInit ==
    /\ verdicts = [v \in Shares \X VerdictKinds |-> NoVerdict]
    /\ abuse_events = {}

-----------------------------------------------------------------------------
Pending(v, c) ==
    verdicts[v].disposition = "pending" /\ verdicts[v].candidate_id = c

\* Mutant: the acceptance forgets the verdicts.
SuppressNothing(c) == [v \in Shares \X VerdictKinds |-> verdicts[v]]

\* The acceptance transaction suppresses every pending verdict of c.
SuppressPendingVerdicts(c) ==
    [v \in Shares \X VerdictKinds |->
        IF Pending(v, c)
        THEN [verdicts[v] EXCEPT !.disposition = "suppressed"]
        ELSE verdicts[v]]

EventsOf(c, k) ==
    {e \in abuse_events : e.candidate_id = c /\ e.kind = AbuseKind(k)}

\* The event already backs a verdict.
EventUsed(e) == \E v \in Shares \X VerdictKinds : verdicts[v].abuse_event = e

\* Mutant: every actionable verdict writes an event of its own.
EventForEachShare(c, s, k) == [candidate_id |-> c, share_id |-> s, kind |-> AbuseKind(k)]

\* The event that the next actionable verdict (s, k) of candidate c points to.
EventFor(c, s, k) ==
    IF EventsOf(c, k) # {}
    THEN CHOOSE e \in EventsOf(c, k) : TRUE
    ELSE [candidate_id |-> c, share_id |-> s, kind |-> AbuseKind(k)]

FirstPending(c, k) ==
    CHOOSE s \in Shares :
        /\ Pending(<<s, k>>, c)
        /\ \A t \in Shares : Pending(<<t, k>>, c) => s <= t

SomePending(c, k) == \E s \in Shares : Pending(<<s, k>>, c)

\* The rejection of c: of each kind, the pending verdict with the lowest share
\* id becomes actionable unless the kind's event is used; the rest are
\* suppressed.
ResolveRejectedVerdicts(c) ==
    [v \in Shares \X VerdictKinds |->
        IF ~Pending(v, c) THEN verdicts[v]
        ELSE LET s == FirstPending(c, v[2])
                 e == EventFor(c, s, v[2])
             IN IF v[1] = s /\ ~EventUsed(e)
                THEN [verdicts[v] EXCEPT !.disposition = "actionable",
                                         !.abuse_event = e]
                ELSE [verdicts[v] EXCEPT !.disposition = "suppressed"]]

ResolvedEvents(c) ==
    abuse_events \cup
        {EventFor(c, FirstPending(c, k), k) : k \in {j \in VerdictKinds : SomePending(c, j)}}

\* The extra event of a rejection in trusted mode, at most one per candidate.
TrustedRejectionEvents(c, trusted) ==
    IF trusted
    THEN {[candidate_id |-> c, share_id |-> OriginShare,
           kind |-> "trusted_candidate_rejection"]}
    ELSE {}

-----------------------------------------------------------------------------
\* The row a verdict on candidate key c gets, by the state of c's row ("absent"
\* when the key is not journaled).
VerdictRow(s, k, c, state) ==
    LET e == EventFor(c, s, k)
        standalone == [candidate_id |-> NoCandidate, share_id |-> s, kind |-> AbuseKind(k)]
        row(d, id, event) == [disposition |-> d, candidate_key |-> c,
                              candidate_id |-> id, abuse_event |-> event]
    IN CASE state = "absent" -> row("actionable", NoCandidate, standalone)
         [] state \in {"accepted", "accepted_by_reconciliation"} -> row("suppressed", c, NoEvent)
         [] state = "rejected" /\ ~EventUsed(e) -> row("actionable", c, e)
         [] state = "rejected" /\ EventUsed(e) -> row("suppressed", c, NoEvent)
         [] OTHER -> row("pending", c, NoEvent)

\* Database::record_candidate_verdict; a repeated call finds the prior row and
\* changes nothing.
RecordCandidateVerdict(s, k, c, state) ==
    /\ verdicts[<<s, k>>] = NoVerdict
    /\ LET row == VerdictRow(s, k, c, state)
       IN /\ verdicts' = [verdicts EXCEPT ![<<s, k>>] = row]
          /\ abuse_events' =
                 IF state = "rejected" THEN abuse_events \cup {EventFor(c, s, k)}
                 ELSE IF row.abuse_event = NoEvent THEN abuse_events
                 ELSE abuse_events \cup {row.abuse_event}
=============================================================================
