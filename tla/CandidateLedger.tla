---------------------------- MODULE CandidateLedger ----------------------------
(***************************************************************************)
(* What the database promises of found blocks, without attempts, lookups,  *)
(* restarts or tables: a candidate is opened once, gets at most one        *)
(* outcome, and each acceptance closes exactly one round, names its winner *)
(* and owes the block hook exactly one delivery.  CandidateStore           *)
(* implements this specification.                                          *)
(***************************************************************************)
EXTENDS Naturals

CONSTANTS Candidates, BlocknotifyEnabled

VARIABLES
    outcome,  \* of each candidate
    closed,   \* number of closed rounds
    winner,   \* the candidate that closed each of them
    hook      \* what the block hook is owed for each candidate

ledgerVars == <<outcome, closed, winner, hook>>

LedgerInit ==
    /\ outcome = [c \in Candidates |-> "unknown"]
    /\ closed = 0
    /\ winner = [r \in 1..0 |-> {}]
    /\ hook = [c \in Candidates |-> "nothing"]

\* A found block becomes durable before anything is sent to the daemon.
Open(c) ==
    /\ outcome[c] = "unknown"
    /\ outcome' = [outcome EXCEPT ![c] = "open"]
    /\ UNCHANGED <<closed, winner, hook>>

Accept(c) ==
    /\ outcome[c] = "open"
    /\ outcome' = [outcome EXCEPT ![c] = "accepted"]
    /\ closed' = closed + 1
    /\ winner' = [r \in 1..(closed + 1) |-> IF r = closed + 1 THEN c ELSE winner[r]]
    /\ hook' = [hook EXCEPT ![c] = IF BlocknotifyEnabled THEN "owed" ELSE @]

Reject(c) ==
    /\ outcome[c] = "open"
    /\ outcome' = [outcome EXCEPT ![c] = "rejected"]
    /\ UNCHANGED <<closed, winner, hook>>

Deliver(c) ==
    /\ hook[c] = "owed"
    /\ hook' = [hook EXCEPT ![c] = "delivered"]
    /\ UNCHANGED <<outcome, closed, winner>>

LedgerNext == \E c \in Candidates : Open(c) \/ Accept(c) \/ Reject(c) \/ Deliver(c)

LedgerSpec == LedgerInit /\ [][LedgerNext]_ledgerVars
=============================================================================
