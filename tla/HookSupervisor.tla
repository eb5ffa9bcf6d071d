--------------------------- MODULE HookSupervisor ---------------------------
(***************************************************************************)
(* BlockNotifySupervisor in src/src/notify/blocknotify.cpp: the thread     *)
(* that claims a row of blocknotify_deliveries, runs the hook for it as a  *)
(* process group of its own, and records the result.                       *)
(*                                                                         *)
(* The rows are those of CandidateStore; here they also have their delay.  *)
(* The hook's processes are external: they end as they like, may ignore    *)
(* SIGTERM, and may leave descendants, which stay in the group.  The pause *)
(* of the loop ends after a second or by wake(): both are one step.        *)
(***************************************************************************)
EXTENDS Integers

CONSTANTS
    Blocks,         \* candidate ids of accepted blocks
    Broken,         \* those whose hook never succeeds
    LastDelay,      \* attempts after which the delay no longer grows; attempts above
                    \* are alike, and a hook that is not broken fails in none of them
    MaxRestarts     \* bound on crashes and stops

ASSUME HookAssumption ==
    Blocks \subseteq Nat /\ Broken \subseteq Blocks /\ LastDelay \in Nat /\ MaxRestarts \in Nat

VARIABLES
    rows,        \* state and attempt_count of each delivery
    hook,        \* the supervisor: where it is, its row, the group it runs and the result
    succeeded,   \* history: blocks whose hook exited 0 in time
    restarts

hookVars == <<rows, hook, succeeded, restarts>>

NoBlock == -1
IdleHook == [pc |-> "claim", row |-> NoBlock, leader |-> "none", others |-> FALSE,
             timed_out |-> FALSE, delivered |-> FALSE]

HookInit ==
    /\ rows = [b \in Blocks |-> [state |-> "none", attempts |-> 0]]
    /\ hook = IdleHook
    /\ succeeded = {} /\ restarts = 0

\* accept_candidate_in_transaction inserts the row.
AcceptBlock(b) ==
    /\ rows[b].state = "none"
    /\ rows' = [rows EXCEPT ![b].state = "pending"]
    /\ UNCHANGED <<hook, succeeded, restarts>>

RowsIn(states) == {b \in Blocks : rows[b].state \in states}

\* The delay of a failed delivery is over.  The last one, an hour, outlasts what other
\* deliveries are due.
DelayIsOver(b) ==
    /\ rows[b].state = "retry_wait"
    /\ rows[b].attempts < LastDelay \/ RowsIn({"pending", "due", "running"}) = {}
    /\ rows' = [rows EXCEPT ![b].state = "due"]
    /\ UNCHANGED <<hook, succeeded, restarts>>

\* claim_next_blocknotify: the lowest candidate id that is due; nothing is due, or the
\* database fails: the loop pauses.
ClaimRow(b) ==
    /\ hook.pc = "claim"
    /\ b \in RowsIn({"pending", "due"}) /\ \A c \in RowsIn({"pending", "due"}) : b <= c
    /\ rows' = [rows EXCEPT ![b].state = "running",
                            ![b].attempts = IF @ > LastDelay THEN @ ELSE @ + 1]
    /\ hook' = [IdleHook EXCEPT !.pc = "launch", !.row = b]
    /\ UNCHANGED <<succeeded, restarts>>

ClaimNothing ==
    /\ hook.pc = "claim" /\ RowsIn({"pending", "due"}) = {}
    /\ hook' = [hook EXCEPT !.pc = "pause"]
    /\ UNCHANGED <<rows, succeeded, restarts>>

EndPause ==
    /\ hook.pc = "pause"
    /\ hook' = [hook EXCEPT !.pc = "claim"]
    /\ UNCHANGED <<rows, succeeded, restarts>>

MayFail == hook.row \in Broken \/ rows[hook.row].attempts <= LastDelay

\* execute: validation and fork, which may fail.
Launch(ok) ==
    /\ hook.pc = "launch" /\ (ok \/ MayFail)
    /\ hook' = IF ok THEN [hook EXCEPT !.pc = "watch", !.leader = "runs"]
               ELSE [hook EXCEPT !.pc = "complete"]
    /\ UNCHANGED <<rows, succeeded, restarts>>

\* The hook itself: it leaves a descendant, or its leader ends.
Spawn ==
    /\ hook.leader = "runs"
    /\ hook' = [hook EXCEPT !.others = TRUE]
    /\ UNCHANGED <<rows, succeeded, restarts>>

LeaderEnds(how) ==
    /\ hook.leader = "runs" /\ hook.pc \in {"watch", "grace"}
    /\ IF how = "exit0" THEN hook.pc = "watch" => hook.row \notin Broken ELSE MayFail
    /\ hook' = [hook EXCEPT !.leader = how]
    /\ succeeded' = IF how = "exit0" /\ hook.pc = "watch" THEN succeeded \cup {hook.row} ELSE succeeded
    /\ UNCHANGED <<rows, restarts>>

\* waitpid finds the leader ended, before or after the deadline.
ReapLeader ==
    /\ hook.pc \in {"watch", "grace"} /\ hook.leader \notin {"runs", "none"}
    /\ hook' = [hook EXCEPT !.pc = "sweep"]
    /\ UNCHANGED <<rows, succeeded, restarts>>

\* The deadline passes, or waitpid fails: SIGTERM to the group.
Deadline(othersEnd) ==
    /\ hook.pc = "watch" /\ MayFail
    /\ hook' = [hook EXCEPT !.pc = "grace", !.timed_out = TRUE, !.others = @ /\ ~othersEnd]
    /\ UNCHANGED <<rows, succeeded, restarts>>

\* SIGKILL to a leader that outlives the grace period; it is reaped.
GraceIsOver ==
    /\ hook.pc = "grace" /\ hook.leader = "runs"
    /\ hook' = [hook EXCEPT !.pc = "sweep", !.leader = "killed"]
    /\ UNCHANGED <<rows, succeeded, restarts>>

\* Mutant: descendants of a leader that ended by itself are left.
OthersAfterSweepKept == hook.others /\ ~hook.timed_out

\* SIGKILL to the group, whatever became of its leader.
OthersAfterSweep == FALSE

\* Mutant: an exit after the deadline counts.
IsDeliveredLate == hook.leader = "exit0"

IsDelivered == hook.leader = "exit0" /\ ~hook.timed_out

Sweep ==
    /\ hook.pc = "sweep"
    /\ hook' = [hook EXCEPT !.pc = "complete", !.leader = "none", !.others = OthersAfterSweep,
                            !.delivered = IsDelivered]
    /\ UNCHANGED <<rows, succeeded, restarts>>

\* finish_blocknotify; it is tried again while it fails.
FinishRow ==
    /\ hook.pc = "complete" /\ rows[hook.row].state = "running"
    /\ rows' = [rows EXCEPT ![hook.row].state = IF hook.delivered THEN "delivered" ELSE "retry_wait"]
    /\ hook' = [IdleHook EXCEPT !.others = hook.others]
    /\ UNCHANGED <<succeeded, restarts>>

\* Mutant: a running delivery is not taken up again.
RecoveredRowsNone == rows

\* recover_blocknotify_deliveries
RecoveredRows ==
    [b \in Blocks |-> IF rows[b].state = "running" THEN [rows[b] EXCEPT !.state = "pending"] ELSE rows[b]]

\* A stop joins the thread when no hook runs, with the result recorded or not; a crash may
\* come at any moment, after which nobody supervises the group.  The next start recovers.
RestartServer(crash) ==
    /\ restarts < MaxRestarts
    /\ crash \/ hook.pc \in {"claim", "pause", "complete"}
    /\ hook' = [IdleHook EXCEPT !.others = hook.others /\ ~crash]
    /\ rows' = RecoveredRows
    /\ restarts' = restarts + 1
    /\ UNCHANGED succeeded

Supervise ==
    \/ \E b \in Blocks : ClaimRow(b)
    \/ ClaimNothing \/ EndPause \/ Launch(TRUE) \/ ReapLeader \/ GraceIsOver \/ Sweep \/ FinishRow

HookNext ==
    \/ \E b \in Blocks : AcceptBlock(b) \/ DelayIsOver(b)
    \/ Supervise \/ Launch(FALSE) \/ Spawn
    \/ \E how \in {"exit0", "other"} : LeaderEnds(how)
    \/ \E othersEnd \in BOOLEAN : Deadline(othersEnd)
    \/ \E crash \in BOOLEAN : RestartServer(crash)

\* The thread runs, delays end, and so does a hook that is not broken, or its deadline
\* passes.
HookFairness ==
    /\ WF_hookVars(Supervise) /\ WF_hookVars(\E othersEnd \in BOOLEAN : Deadline(othersEnd))
    /\ WF_hookVars(hook.pc = "watch" /\ LeaderEnds("exit0"))
    /\ \A b \in Blocks : SF_hookVars(DelayIsOver(b))

HookSpec == HookInit /\ [][HookNext]_hookVars /\ HookFairness
-----------------------------------------------------------------------------
\* Outside execute() no process of a hook started since the last crash is alive, however
\* its leader ended: hooks never overlap, and a stop leaves none behind.
HookRunsAlone ==
    hook.pc \notin {"watch", "grace", "sweep"} => hook.leader = "none" /\ ~hook.others

\* A delivery recorded as delivered was one: its hook exited with 0 before its deadline,
\* in this or an earlier life of the server.
DeliveredMeansDone == RowsIn({"delivered"}) \subseteq succeeded

\* Since the last crash hooks run one at a time and leave no process of their group
\* behind; and only a success is recorded as one.
HooksAreSupervised == HookRunsAlone /\ DeliveredMeansDone

\* Every accepted block's hook that can succeed is delivered in the end, past failing
\* deliveries of other blocks, stops and crashes.
BlocksAreNotified ==
    \A b \in Blocks \ Broken : rows[b].state = "pending" ~> rows[b].state = "delivered"
=============================================================================
