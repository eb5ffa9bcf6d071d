------------------------- MODULE CandidateRuntimeInv --------------------------
(***************************************************************************)
(* The inductive invariant of CandidateRuntime and the parts it is made    *)
(* of, with the shapes of steps that CandidateProofs and                   *)
(* CandidateTrackingProofs reason about.                                   *)
(***************************************************************************)
EXTENDS CandidateRuntime, CandidateStoreInv

-----------------------------------------------------------------------------
TasksTypeOK == tasks \in [TaskIds -> TaskRows]

TaskPcs == {"none", "queued", "recover", "expected_hash", "expected_hash_rpc", "height",
            "height_rpc", "ended", "submit", "submit_rpc"}

\* A quick lookup never submits.
LooksUpOnly(t) ==
    Quick(t) => /\ tasks[t].pc \notin {"submit", "submit_rpc"}
                /\ tasks[t].pc # "none" => tasks[t].reconciliation_only

QuickLooksUp == \A t \in TaskIds : LooksUpOnly(t)

\* A candidate is dispatching only while its owner waits for the daemon, and
\* then a lookup may at most have accepted it meanwhile.
DispatchIsOwned(c) ==
    /\ candidates[c].state = "dispatching" => tasks[Owner(c)].pc = "submit_rpc"
    /\ tasks[Owner(c)].pc = "submit_rpc" => candidates[c].state \in {"dispatching"} \cup Accepted

\* Without an indeterminate attempt all attempts but the active one were refused.
RefusalsAreRecorded(c) ==
    ~candidates[c].had_indeterminate /\ candidates[c].state \notin Accepted =>
        \A n \in AttemptNumbers :
            /\ n < candidates[c].attempt_count => attempts[c][n] = "explicit_rejection"
            /\ n = candidates[c].attempt_count /\ candidates[c].state # "dispatching" =>
                  attempts[c][n] = "explicit_rejection"

RejectedIsUsedUp(c) ==
    candidates[c].state = "rejected" =>
        ~candidates[c].had_indeterminate /\ candidates[c].attempt_count = MaxAttempts

\* The daemon has, or may still get, only blocks that the table accepted, holds
\* for uncertain, or is just being told of.
ChainIsKnown(c) ==
    c \in in_chain \cup wire =>
        \/ candidates[c].had_indeterminate
        \/ candidates[c].state \in Accepted
        \/ tasks[Owner(c)].pc = "submit_rpc" /\ tasks[Owner(c)].reply = "ok"

CandidateInv(c) ==
    /\ DispatchIsOwned(c)
    /\ RefusalsAreRecorded(c)
    /\ RejectedIsUsedUp(c)
    /\ candidates[c].state = "absent" => ~candidates[c].had_indeterminate
    /\ ChainIsKnown(c)

RuntimeInv ==
    /\ StoreTypeOK
    /\ TasksTypeOK
    /\ QuickLooksUp
    /\ BoundaryIsUnresolved
    /\ \A c \in Candidates : CandidateInv(c)

\* A step that leaves alone what the invariant reads of a candidate.
SameCandidate(c) ==
    /\ candidates'[c].state = candidates[c].state
    /\ candidates'[c].attempt_count = candidates[c].attempt_count
    /\ candidates'[c].had_indeterminate = candidates[c].had_indeterminate
    /\ attempts'[c] = attempts[c]

SameSubmission(c) ==
    /\ tasks'[Owner(c)].pc = "submit_rpc" <=> tasks[Owner(c)].pc = "submit_rpc"
    /\ tasks[Owner(c)].pc = "submit_rpc" => tasks'[Owner(c)].reply = tasks[Owner(c)].reply

\* A step of task t that is no submission: it replaces the task's row and
\* at most accepts the candidate.
LooksOn(t, row) ==
    /\ row \in TaskRows
    /\ tasks' = [tasks EXCEPT ![t] = row]
    /\ tasks[t].pc # "submit_rpc" /\ row.pc # "submit_rpc"
    /\ Quick(t) => row.pc # "submit" /\ (row.pc # "none" => row.reconciliation_only)

-----------------------------------------------------------------------------
\* Templates come from the daemon in the order of its chain.
ClocksInOrder ==
    /\ chain_height \in Nat /\ current_height \in Nat /\ fetched \in Nat /\ fence \in Nat
    /\ current_height <= chain_height
    /\ fetched <= chain_height
    /\ fetched # 0 => current_height <= fetched

RepliesAreTrue == \A t \in TaskIds : tasks[t].reply = "ok" => t[1] \in in_chain

AcceptedIsInChain == \A c \in Candidates : candidates[c].state \in Accepted => c \in in_chain

\* The chain holds one block per height.
ChainIsLinear ==
    /\ in_chain \subseteq Candidates
    /\ \A c \in in_chain :
          /\ CandidateHeight[c] < chain_height
          /\ \A d \in in_chain : CandidateHeight[d] = CandidateHeight[c] => d = c

\* A block found in a later round is in the chain above the block of an earlier one.
BlocksRise ==
    \A c, d \in Candidates :
        /\ candidates[d].state \in Accepted
        /\ candidates[c].state # "absent"
        /\ candidates[d].round_id < candidates[c].round_id
        /\ c \in in_chain
        => CandidateHeight[d] < CandidateHeight[c]

\* An accepted block is below the published template or behind the fence.
FenceHolds ==
    \A c \in Candidates :
        candidates[c].state \in Accepted =>
            CandidateHeight[c] < current_height \/ CandidateHeight[c] <= fence

\* No share above an unresolved candidate enters its round.
NoLaterShare ==
    \A c \in Candidates :
        candidates[c].state \in Unresolved =>
            rounds[candidates[c].round_id].max_share_height <= CandidateHeight[c]

PublicationOK ==
    /\ ClocksInOrder
    /\ AcceptedIsInChain
    /\ ChainIsLinear
    /\ BlocksRise
    /\ FenceHolds
    /\ NoLaterShare
    /\ PublishedWorkIsUseful

PublicationInv == RuntimeInv /\ HeightsInv /\ RepliesAreTrue /\ PublicationOK

\* The database records no new block, outcome or share height.
Settles ==
    /\ LeavesHeights
    /\ \A c \in Candidates :
          /\ candidates'[c].state \in Accepted <=> candidates[c].state \in Accepted
          /\ candidates'[c].state \in Unresolved => candidates[c].state \in Unresolved

\* No work is published; issuance may end and the fence may rise.
Withholds ==
    /\ current_height' = current_height
    /\ fetched' \in {fetched, 0}
    /\ fence' \in Nat /\ fence <= fence'
    /\ issuance' => issuance

ChainStays == UNCHANGED <<chain_height, in_chain>>

\* The chain grows by a block, which may be ours.
ChainMoves ==
    /\ chain_height' = chain_height + 1
    /\ \/ in_chain' = in_chain
       \/ \E c \in Candidates : CandidateHeight[c] = chain_height /\ in_chain' = in_chain \cup {c}

\* A block in the chain is recorded, and the fence set, in one step.
Records(c) ==
    /\ CanAccept(c, Unresolved)
    /\ \E state \in Accepted : AcceptInTransaction(c, state)
    /\ c \in in_chain
    /\ ReleaseAccepted(c)
    /\ UNCHANGED <<current_height, fetched>>
    /\ ChainStays

-----------------------------------------------------------------------------
\* The cycle a task looks up next.
Upcoming(t) == NextCycle(tasks[t].cycle)

BeforeHash == {"queued", "recover", "submit", "submit_rpc", "expected_hash"}
BeforeHeight == BeforeHash \cup {"expected_hash_rpc", "height"}
Asking == {"expected_hash_rpc", "height_rpc"}

\* The last cycle stands for all later ones, and its rows are used again.
IsFree(c, n, kind) == n = MaxCycle \/ reconciliations[c][<<n, kind>>] = "none"

\* The lookups that a task has before it in its cycle were never started.
RowsAhead(t) ==
    /\ tasks[t].pc \in BeforeHash => IsFree(t[1], Upcoming(t), "expected_hash")
    /\ tasks[t].pc \in BeforeHeight => IsFree(t[1], Upcoming(t), "height")

\* Two tasks of a candidate do not share a cycle, and the owner's is the later one.
TasksApart(t, u) ==
    t # u /\ t[1] = u[1] /\ tasks[t].pc # "none" /\ tasks[u].pc # "none" =>
        /\ Upcoming(t) # Upcoming(u) \/ Upcoming(t) = MaxCycle
        /\ ~Quick(u) => Upcoming(t) < Upcoming(u) \/ Upcoming(u) = MaxCycle

\* No row is ahead of the owner or of the count that a restart resumes from.
OwnerAhead(c) ==
    tasks[Owner(c)].pc # "none" =>
        \A l \in Lookups : l[1] > Upcoming(Owner(c)) => reconciliations[c][l] = "none"

RowsAreCounted(c) ==
    \A l \in Lookups : l[1] > candidates[c].cycle_count => reconciliations[c][l] = "none"

\* A lookup that is under way is that of a task.
QueriesAreAsked(c) ==
    \A l \in Lookups :
        reconciliations[c][l] = "querying" =>
            \E t \in TaskIds : t[1] = c /\ tasks[t].pc \in Asking /\ LookupRow(t) = l

CyclesInv ==
    /\ \A t \in TaskIds : RowsAhead(t)
    /\ \A t, u \in TaskIds : TasksApart(t, u)
    /\ \A c \in Candidates : OwnerAhead(c) /\ RowsAreCounted(c) /\ QueriesAreAsked(c)

\* One task of a candidate looks up at a time.
OneLookup ==
    \A t, u \in TaskIds :
        t[1] = u[1] /\ tasks[t].pc \in Lookup /\ tasks[u].pc \in Lookup => t = u

\* A quick lookup is that of an attempt that ended.
QuickFollows(t) ==
    Quick(t) /\ tasks[t].pc # "none" =>
        /\ t[2] <= candidates[t[1]].attempt_count
        /\ candidates[t[1]].state = "dispatching" => t[2] # candidates[t[1]].attempt_count

\* The owner submits, or will resume to submit, unless the candidate is ambiguous.
OwnerMode(row, state) ==
    /\ row.pc \in Lookup \cup {"recover"} => row.reconciliation_only
    /\ row.pc \in {"submit", "submit_rpc"} => ~row.reconciliation_only
    /\ ~row.reconciliation_only => ~row.resume
    /\ row.pc \notin {"none", "submit_rpc"} /\ state \in Unresolved =>
          (state = "ambiguous" <=> row.reconciliation_only /\ ~row.resume)

OwnerInv(c) ==
    /\ OwnerMode(tasks[Owner(c)], candidates[c].state)
    /\ database_operational /\ candidates[c].state \in Unresolved =>
          candidates[c].exhausted \/ tasks[Owner(c)].pc # "none"
    /\ candidates[c].state \in {"journaled", "retry_wait"} => candidates[c].attempt_count < MaxAttempts
    /\ candidates[c].state = "absent" =>
          /\ candidates[c].cycle_count = 0
          /\ \A t \in TaskIds : t[1] = c => tasks[t].pc = "none"

Tracked ==
    /\ CyclesInv
    /\ OneLookup
    /\ \A t \in TaskIds : QuickFollows(t)
    /\ \A c \in Candidates : OwnerInv(c)

TrackInv == PublicationInv /\ TypeOK /\ Tracked

\* A task goes on in its cycle, or ends.
GoesOn(t) ==
    tasks'[t].pc # "none" =>
        /\ tasks[t].pc # "none"
        /\ tasks'[t].cycle = tasks[t].cycle
        /\ tasks'[t].pc \in BeforeHash => tasks[t].pc \in BeforeHash
        /\ tasks'[t].pc \in BeforeHeight => tasks[t].pc \in BeforeHeight

\* No lookup starts, and one that ends is answered.
StartsNoLookup ==
    /\ \A c \in Candidates : candidates'[c].cycle_count = candidates[c].cycle_count
    /\ \A c \in Candidates : \A l \in Lookups :
          /\ reconciliations[c][l] = "none" => reconciliations'[c][l] = "none"
          /\ reconciliations'[c][l] = "querying" => reconciliations[c][l] = "querying"
    /\ \A t \in TaskIds :
          tasks[t].pc \in Asking =>
              \/ tasks'[t].pc = tasks[t].pc /\ tasks'[t].cycle = tasks[t].cycle
              \/ reconciliations'[t[1]][LookupRow(t)] # "querying"

\* The attempts of a candidate go on; the number of the active one is new.
AttemptsGoOn(c) ==
    /\ candidates[c].attempt_count <= candidates'[c].attempt_count
    /\ candidates'[c].state = "dispatching" =>
          \/ candidates[c].attempt_count < candidates'[c].attempt_count
          \/ candidates[c].state = "dispatching"

===============================================================================
