--------------------------- MODULE CandidateRuntime ---------------------------
(***************************************************************************)
(* The life of a found block in src/src/runtime/runtime.cpp: shares enter  *)
(* the open round, a share that meets the network target is journaled,     *)
(* candidate workers submit it, retry it and look it up, the publication   *)
(* boundary holds templates back meanwhile, and a restart recovers what    *)
(* was in flight.  The durable tables are CandidateStore's; everything     *)
(* declared here dies with the process, except the daemon's chain.  The    *)
(* block hook and the verdicts, which no step here reads, move in          *)
(* CandidateStore only.                                                    *)
(*                                                                         *)
(* A step of this module is one critical section of the runtime (a         *)
(* database transaction, with the boundary mutex where the code holds it)  *)
(* or one event at the daemon.                                             *)
(***************************************************************************)
EXTENDS CandidateStore, FiniteSets

CONSTANTS
    Workers,              \* candidate worker threads (6)
    ReconciliationSlots,  \* reconciliation cycles at a time (4)
    MaxPendingRequests,   \* daemon.max_pending_requests
    ExhaustDepth,         \* depth after which reconciliation gives up (60)
    TrustedMode,          \* ~verifier.enabled
    MaxHeight,            \* bound on the chain
    MaxCrashes            \* bound on crashes

ASSUME RuntimeAssumption ==
    /\ Workers \in Nat \ {0}
    /\ ReconciliationSlots \in Nat \ {0}
    /\ MaxPendingRequests \in Nat \ {0, 1}
    /\ ExhaustDepth \in Nat \ {0}
    /\ TrustedMode \in BOOLEAN
    /\ MaxHeight \in Nat \ {0}
    /\ Heights = 1..MaxHeight
    /\ LookupKinds = {"expected_hash", "height"}
    /\ MaxCrashes \in Nat

VARIABLES
    phase,                 \* "recovering" in start(), then "running"
    database_operational,  \* FALSE once mark_database_unavailable ran
    boundary,              \* unresolved_candidate_heights_ (its keys)
    fence,                 \* accepted_candidate_height_fence_, 0 when unset
    current_height,        \* current_height_ of the published template, or 0
    issuance,              \* job_issuance_allowed_
    fetched,               \* height of a template answer not yet applied, or 0
    jobs,                  \* heights of the jobs miners may still submit to
    tasks,                 \* CandidateTask of each owner and quick lookup
    chain_height,          \* daemon: height of the next block
    in_chain,              \* daemon: candidates in the main chain
    wire,                  \* submissions the daemon may still receive
    crashes                \* number of crashes so far

processVars == <<phase, database_operational, boundary, fence, current_height, issuance,
                 fetched, jobs, tasks>>
publicationVars == <<boundary, fence, current_height, issuance, fetched, jobs>>
daemonVars == <<chain_height, in_chain, wire>>
vars == <<storeVars, processVars, daemonVars, crashes>>

\* Task <<c, 0>> owns candidate c; <<c, n>> is the quick lookup queued when
\* attempt n was indeterminate.
TaskIds == Candidates \X (0..(MaxAttempts - 1))

Owner(c) == <<c, 0>>
Quick(t) == t[2] # 0

Lookup == {"expected_hash", "expected_hash_rpc", "height", "height_rpc", "ended"}
Waiting == {"expected_hash_rpc", "height_rpc", "submit_rpc"}
Active == Lookup \cup {"submit", "submit_rpc"}

TaskRows ==
    [pc : {"none", "queued", "recover", "expected_hash", "expected_hash_rpc", "height",
           "height_rpc", "ended", "submit", "submit_rpc"},
     reconciliation_only : BOOLEAN, resume : BOOLEAN, cycle : 0..MaxCycle,
     reply : {"none", "ok", "rejection"}]

NoTask == [pc |-> "none", reconciliation_only |-> FALSE, resume |-> FALSE,
           cycle |-> 0, reply |-> "none"]

\* The type of every variable.
TypeOK ==
    /\ StoreTypeOK
    /\ phase \in {"recovering", "running"}
    /\ database_operational \in BOOLEAN
    /\ boundary \subseteq Candidates
    /\ fence \in Heights \cup {0}
    /\ current_height \in Heights \cup {0}
    /\ issuance \in BOOLEAN
    /\ fetched \in Heights \cup {0}
    /\ jobs \subseteq Heights
    /\ tasks \in [TaskIds -> TaskRows]
    /\ chain_height \in Heights
    /\ in_chain \subseteq Candidates
    /\ wire \subseteq Candidates
    /\ crashes \in 0..MaxCrashes

Init ==
    /\ StoreInit
    /\ phase = "running"
    /\ database_operational = TRUE
    /\ boundary = {}
    /\ fence = 0
    /\ current_height = 0
    /\ issuance = TRUE
    /\ fetched = 0
    /\ jobs = {}
    /\ tasks = [t \in TaskIds |-> NoTask]
    /\ chain_height = 1
    /\ in_chain = {}
    /\ wire = {}
    /\ crashes = 0

-----------------------------------------------------------------------------
(* The publication boundary. *)

UnresolvedCandidates == {c \in Candidates : candidates[c].state \in Unresolved}

\* Mutant: only the fence is checked.
HeightAllowedByFence(h) == fence # 0 => h > fence

\* candidate_height_allowed_unlocked
HeightAllowed(h) ==
    /\ fence # 0 => h > fence
    /\ \A c \in boundary : h <= CandidateHeight[c]

\* Mutant: issuance goes on at the published height.
RegisterBoundaryOnly(c) == boundary' = boundary \cup {c} /\ issuance' = issuance

\* register_candidate_boundary_unlocked
RegisterBoundary(c) ==
    /\ boundary' = boundary \cup {c}
    /\ issuance' = (issuance /\ current_height <= CandidateHeight[c])

\* Mutant: the fence is set and the boundary entry stays.
ReleaseAcceptedKeepsEntry(c) ==
    /\ UNCHANGED boundary
    /\ fence' = Higher(fence, CandidateHeight[c])
    /\ issuance' = FALSE

\* Mutant: the boundary is released without the fence.
ReleaseAcceptedNoFence(c) == boundary' = boundary \ {c} /\ UNCHANGED <<fence, issuance>>

\* activate_accepted_candidate_fence_unlocked, release_candidate_boundary_unlocked.
\* The refresh they request only hastens the template loop's next poll.
ReleaseAccepted(c) ==
    /\ boundary' = boundary \ {c}
    /\ fence' = IF current_height > CandidateHeight[c] THEN fence
                ELSE Higher(fence, CandidateHeight[c])
    /\ issuance' = (issuance /\ current_height > CandidateHeight[c])

\* Mutant: a rejection leaves the boundary entry.
ReleaseRejectedNot(c) == UNCHANGED <<boundary, fence, issuance>>

ReleaseRejected(c) ==
    /\ boundary' = boundary \ {c}
    /\ UNCHANGED <<fence, issuance>>

\* The boundary after a transaction that left candidate c in the given state.
ReleaseByState(c, state) ==
    /\ \/ state \in Accepted /\ ReleaseAccepted(c)
       \/ state = "rejected" /\ ReleaseRejected(c)
       \/ state \in Unresolved /\ UNCHANGED <<boundary, fence, issuance>>
    /\ UNCHANGED <<current_height, fetched, jobs>>

\* refresh_template asks the daemon before it takes the boundary mutex ...
FetchTemplate ==
    /\ phase = "running"
    /\ fetched = 0
    /\ fetched' = chain_height
    /\ UNCHANGED <<storeVars, phase, database_operational, boundary, fence, current_height,
                   issuance, jobs, tasks, daemonVars, crashes>>

\* ... and checks the answer under it: publish, or hold.
PublishTemplate ==
    /\ fetched # 0
    /\ HeightAllowed(fetched)
    /\ current_height' = fetched
    /\ fence' = 0
    /\ issuance' = TRUE
    /\ fetched' = 0
    /\ UNCHANGED <<storeVars, phase, database_operational, boundary, jobs, tasks, daemonVars,
                   crashes>>

HoldTemplate ==
    /\ fetched # 0
    /\ ~HeightAllowed(fetched)
    /\ fetched' = 0
    /\ UNCHANGED <<storeVars, phase, database_operational, boundary, fence, current_height,
                   issuance, jobs, tasks, daemonVars, crashes>>

\* make_job: a miner gets work of the published template.
IssueJob ==
    /\ phase = "running"
    /\ issuance
    /\ current_height # 0
    /\ jobs' = jobs \cup {current_height}
    /\ UNCHANGED <<storeVars, phase, database_operational, boundary, fence, current_height,
                   issuance, fetched, tasks, daemonVars, crashes>>

-----------------------------------------------------------------------------
(* Shares and journaling. *)

\* process_share checks the boundary and inserts the share under its mutex.
ProcessShare(h, c) ==
    /\ h \in jobs
    /\ HeightAllowed(h)
    /\ InsertShare(h, c)
    /\ UNCHANGED <<processVars, daemonVars, crashes>>

\* Runtime::journal_candidate for a new key: the row, the boundary and the
\* owner task.  A refused admission or a contaminated round changes nothing.
Journal(c, r) ==
    /\ JournalCandidate(c, r)
    /\ RegisterBoundary(c)
    /\ tasks' = [tasks EXCEPT ![Owner(c)] = [NoTask EXCEPT !.pc = "queued"]]
    /\ UNCHANGED <<phase, database_operational, fence, current_height, fetched, jobs,
                   daemonVars, crashes>>

\* Runtime::journal_candidate for a key that is already journaled.
JournalExisting(c) ==
    /\ phase = "running"
    /\ CandidateHeight[c] \in jobs
    /\ c \in UnresolvedCandidates
    /\ RegisterBoundary(c)
    /\ UNCHANGED <<storeVars, phase, database_operational, fence, current_height, fetched, jobs,
                   tasks, daemonVars, crashes>>

-----------------------------------------------------------------------------
(* Candidate workers. *)

NextCycle(n) == IF n < MaxCycle THEN n + 1 ELSE MaxCycle

TasksIn(pcs) == {t \in TaskIds : tasks[t].pc \in pcs}

\* Mutant: a refused request loses its task.
RequeueLost(t) == tasks' = [tasks EXCEPT ![t] = NoTask]

Requeue(t) == tasks' = [tasks EXCEPT ![t].pc = "queued"]
Drop(t) == tasks' = [tasks EXCEPT ![t] = NoTask]

\* A worker is free and takes a due task.
CanTake(t) ==
    /\ phase = "running"
    /\ database_operational
    /\ tasks[t].pc = "queued"
    /\ Cardinality(TasksIn(Active)) < Workers

\* The durable check finds a terminal candidate.
TakeTerminal(t) ==
    /\ CanTake(t)
    /\ candidates[t[1]].state \in Accepted \cup {"rejected"}
    /\ ReleaseByState(t[1], candidates[t[1]].state)
    /\ Drop(t)
    /\ UNCHANGED <<storeVars, phase, database_operational, daemonVars, crashes>>

TakeSubmit(t) ==
    /\ CanTake(t)
    /\ ~tasks[t].reconciliation_only
    /\ candidates[t[1]].state \in Dispatchable
    /\ tasks' = [tasks EXCEPT ![t].pc = "submit"]
    /\ UNCHANGED <<storeVars, phase, database_operational, publicationVars, daemonVars, crashes>>

\* CandidateReconciliationGuard and reconciliation_slots_: one cycle per
\* candidate and ReconciliationSlots in all; otherwise the task is requeued.
TakeLookup(t) ==
    /\ CanTake(t)
    /\ tasks[t].reconciliation_only
    /\ candidates[t[1]].state \in Unresolved
    /\ \A u \in TasksIn(Lookup) : u[1] # t[1]
    /\ Cardinality(TasksIn(Lookup)) < ReconciliationSlots
    /\ tasks' = [tasks EXCEPT ![t].pc = "expected_hash"]
    /\ UNCHANGED <<storeVars, phase, database_operational, publicationVars, daemonVars, crashes>>

-----------------------------------------------------------------------------
(* Requests to the daemon. *)

\* acquire_request_slot refuses a priority request when MaxPendingRequests are
\* admitted; the template loop may hold one of them.
MayBeRefused ==
    Cardinality(TasksIn(Waiting)) + (IF phase = "running" THEN 1 ELSE 0) >= MaxPendingRequests

MayBeAdmitted == Cardinality(TasksIn(Waiting)) < MaxPendingRequests

\* submit_block: the dispatch intent is committed, then the request is sent.
SubmitDispatch(t) ==
    /\ tasks[t].pc = "submit"
    /\ MayBeAdmitted
    /\ StartCandidateAttempt(t[1], candidates[t[1]].attempt_count + 1)
    /\ tasks' = [tasks EXCEPT ![t].pc = "submit_rpc"]
    /\ UNCHANGED <<phase, database_operational, publicationVars, daemonVars, crashes>>

\* The slot was refused, or the barrier threw because a quick lookup accepted
\* the candidate meanwhile: nothing was sent, the task is requeued.
SubmitRefused(t) ==
    /\ tasks[t].pc = "submit"
    /\ MayBeRefused \/ ~CanStartAttempt(t[1], candidates[t[1]].attempt_count + 1)
    /\ Requeue(t)
    /\ UNCHANGED <<storeVars, phase, database_operational, publicationVars, daemonVars, crashes>>

\* The daemon handles a submission: it extends the chain or rejects the block.
\* It rejects a block it already has.
DaemonAccepts(c) ==
    /\ c \notin in_chain
    /\ CandidateHeight[c] = chain_height
    /\ chain_height < MaxHeight
    /\ chain_height' = chain_height + 1
    /\ in_chain' = in_chain \cup {c}

DaemonHandles(t) ==
    /\ tasks[t].pc = "submit_rpc"
    /\ tasks[t].reply = "none"
    /\ \/ DaemonAccepts(t[1]) /\ tasks' = [tasks EXCEPT ![t].reply = "ok"]
       \/ /\ tasks' = [tasks EXCEPT ![t].reply = "rejection"]
          /\ UNCHANGED <<chain_height, in_chain>>
    /\ UNCHANGED <<storeVars, phase, database_operational, publicationVars, wire, crashes>>

\* A submission whose sender stopped waiting arrives after all, or never.
DaemonHandlesLate(c) ==
    /\ c \in wire
    /\ wire' = wire \ {c}
    /\ DaemonAccepts(c) \/ UNCHANGED <<chain_height, in_chain>>
    /\ UNCHANGED <<storeVars, processVars, crashes>>

\* Somebody else's block.
ChainGrows ==
    /\ chain_height < MaxHeight
    /\ chain_height' = chain_height + 1
    /\ UNCHANGED <<storeVars, processVars, in_chain, wire, crashes>>

\* What the server may learn of the submission (classify_submit).
Observations(t) ==
    {"indeterminate"} \cup (IF tasks[t].reply = "ok" THEN {"accepted"} ELSE {})
                      \cup (IF tasks[t].reply = "rejection" THEN {"explicit_rejection"} ELSE {})

\* Mutant: owner and quick lookup share the cycle.
CycleAfterQuickSame(n) == n

\* The quick lookup takes the owner's next cycle, the owner the one after it.
CycleAfterQuick(n) == NextCycle(n)

\* Mutant: an ambiguous candidate is not looked up any more.
AmbiguousOwnerDropped(owner) == NoTask

\* Mutant: the owner of an ambiguous candidate stays a submitter.
AmbiguousOwnerSubmits(owner) == owner

AmbiguousOwner(owner) == [owner EXCEPT !.reconciliation_only = TRUE]

\* The owner task after its attempt ended with the candidate in the given
\* state; an indeterminate attempt that is not the last also queues a quick
\* lookup.
AfterAttempt(t, n, class, state) ==
    LET owner == [tasks[t] EXCEPT !.pc = "queued", !.reply = "none"]
    IN CASE state \in Accepted \cup {"rejected"} -> [tasks EXCEPT ![t] = NoTask]
         [] state = "ambiguous" -> [tasks EXCEPT ![t] = AmbiguousOwner(owner)]
         [] state = "retry_wait" /\ class = "indeterminate" ->
               [tasks EXCEPT
                  ![t] = [owner EXCEPT !.cycle = CycleAfterQuick(owner.cycle)],
                  ![<<t[1], n>>] = [NoTask EXCEPT !.pc = "queued", !.cycle = owner.cycle,
                                                  !.reconciliation_only = TRUE]]
         [] OTHER -> [tasks EXCEPT ![t] = owner]

\* The request outlives its sender when it ended without a reply.
KeepOnWire(t) ==
    wire' = IF tasks[t].reply = "none" THEN wire \cup {t[1]} ELSE wire

\* The answer is recorded and the boundary adjusted under the boundary mutex.
SubmitFinish(t, class) ==
    LET c == t[1]
        n == candidates[c].attempt_count
    IN /\ tasks[t].pc = "submit_rpc"
       /\ class \in Observations(t)
       /\ FinishCandidateAttempt(c, n, class, TrustedMode)
       /\ ReleaseByState(c, candidates'[c].state)
       /\ tasks' = AfterAttempt(t, n, class, candidates'[c].state)
       /\ KeepOnWire(t)
       /\ UNCHANGED <<phase, database_operational, chain_height, in_chain, crashes>>

\* An exception after the intent: the attempt is closed as indeterminate and
\* the candidate is looked up before its next attempt.
SubmitException(t) ==
    LET c == t[1]
        n == candidates[c].attempt_count
    IN /\ tasks[t].pc = "submit_rpc"
       /\ FinishCandidateAttempt(c, n, "indeterminate", TrustedMode)
       /\ ReleaseByState(c, candidates'[c].state)
       /\ tasks' = IF candidates'[c].state \in Accepted
                   THEN [tasks EXCEPT ![t] = NoTask]
                   ELSE [tasks EXCEPT ![t] = [@ EXCEPT
                            !.pc = "queued", !.reply = "none", !.reconciliation_only = TRUE,
                            !.resume = candidates'[c].state # "ambiguous" /\ n < MaxAttempts]]
       /\ KeepOnWire(t)
       /\ UNCHANGED <<phase, database_operational, chain_height, in_chain, crashes>>

-----------------------------------------------------------------------------
(* reconcile_candidate: a lookup by expected hash, then one by height. *)

\* The row (cycle, kind) of the task's lookup.
LookupRow(t) ==
    <<NextCycle(tasks[t].cycle),
      IF tasks[t].pc \in {"height", "height_rpc"} THEN "height" ELSE "expected_hash">>

AtBarrier(t) == tasks[t].pc \in {"expected_hash", "height"}

LookupDispatch(t) ==
    /\ AtBarrier(t)
    /\ MayBeAdmitted
    /\ StartCandidateReconciliation(t[1], LookupRow(t))
    /\ tasks' = [tasks EXCEPT ![t].pc = IF @ = "height" THEN "height_rpc" ELSE "expected_hash_rpc"]
    /\ UNCHANGED <<phase, database_operational, publicationVars, daemonVars, crashes>>

\* The slot was refused (finish then runs with reconciliation id 0) or the
\* barrier refused the row: a DatabaseError, which mark_database_unavailable
\* makes fatal.
LookupFails(t) ==
    /\ AtBarrier(t)
    /\ MayBeRefused \/ ~CanStartReconciliation(t[1], LookupRow(t))
    /\ database_operational' = FALSE
    /\ tasks' = [tasks EXCEPT ![t].pc = "ended"]
    /\ UNCHANGED <<storeVars, phase, publicationVars, daemonVars, crashes>>

\* Positive evidence needs the block in the main chain.
LookupFinish(t, class) ==
    LET c == t[1]
    IN /\ tasks[t].pc \in {"expected_hash_rpc", "height_rpc"}
       /\ class = "positive" => c \in in_chain
       /\ FinishCandidateReconciliation(c, LookupRow(t), class)
       /\ IF candidates'[c].state \in Accepted
          THEN ReleaseByState(c, candidates'[c].state) /\ Drop(t)
          ELSE /\ UNCHANGED publicationVars
               /\ tasks' = [tasks EXCEPT ![t].pc =
                               IF @ = "height_rpc" THEN "ended" ELSE "height"]
       /\ UNCHANGED <<phase, database_operational, daemonVars, crashes>>

DeepEnough(c) == current_height >= CandidateHeight[c] + ExhaustDepth

\* The cycle found nothing: a quick lookup is done, a task that resumes goes
\* back to submitting, an ambiguous candidate waits for its next cycle.
EndQuick(t) ==
    /\ tasks[t].pc = "ended"
    /\ Quick(t)
    /\ Drop(t)
    /\ UNCHANGED <<storeVars, phase, database_operational, publicationVars, daemonVars, crashes>>

EndRequeue(t) ==
    /\ tasks[t].pc = "ended"
    /\ ~Quick(t)
    /\ phase = "recovering" => database_operational
    /\ tasks' = [tasks EXCEPT ![t] = [@ EXCEPT !.pc = "queued",
                    !.cycle = NextCycle(tasks[t].cycle),
                    !.reconciliation_only = ~tasks[t].resume,
                    !.resume = FALSE]]
    /\ UNCHANGED <<storeVars, phase, database_operational, publicationVars, daemonVars, crashes>>

\* After 24 hours (any time here) and ExhaustDepth published heights an
\* ambiguous candidate is given up; its boundary stays registered.
EndExhausted(t) ==
    /\ tasks[t].pc = "ended"
    /\ phase = "running"
    /\ ~Quick(t)
    /\ ~tasks[t].resume
    /\ DeepEnough(t[1])
    /\ ExhaustCandidateReconciliation(t[1])
    /\ Drop(t)
    /\ UNCHANGED <<phase, database_operational, publicationVars, daemonVars, crashes>>

-----------------------------------------------------------------------------
(* Crash, restart and recovery. *)

LatestAcceptedHeight ==
    IF last_round_id = 1 THEN 0
    ELSE CandidateHeight[rounds[last_round_id - 1].accepted_candidate]

\* Mutant: the recovery lookup skips a cycle.
RecoveredTaskNextCycle(c) ==
    [pc |-> "recover", reconciliation_only |-> TRUE,
     resume |-> candidates'[c].state # "ambiguous",
     cycle |-> candidates[c].cycle_count + 1, reply |-> "none"]

RecoveredTask(c) ==
    [pc |-> "recover", reconciliation_only |-> TRUE,
     resume |-> candidates'[c].state # "ambiguous"
                   /\ candidates'[c].attempt_count < MaxAttempts,
     cycle |-> candidates[c].cycle_count, reply |-> "none"]

\* The process dies (or stops after mark_database_unavailable) and start()
\* opens the database, registers the boundary and builds the recovery tasks.
Restart ==
    /\ \/ ~database_operational /\ UNCHANGED crashes
       \/ crashes < MaxCrashes /\ crashes' = crashes + 1
    /\ ReopenDatabase
    /\ phase' = "recovering"
    /\ database_operational' = TRUE
    /\ boundary' = UnresolvedCandidates
    /\ fence' = LatestAcceptedHeight
    /\ issuance' = (LatestAcceptedHeight = 0)
    /\ current_height' = 0
    /\ fetched' = 0
    /\ jobs' = {}
    /\ tasks' = [t \in TaskIds |->
                    IF ~Quick(t) /\ t[1] \in UnresolvedCandidates
                    THEN RecoveredTask(t[1]) ELSE NoTask]
    /\ wire' = wire \cup {t[1] : t \in {u \in TaskIds :
                             tasks[u].pc = "submit_rpc" /\ tasks[u].reply = "none"}}
    /\ UNCHANGED <<chain_height, in_chain>>

\* start() runs one lookup cycle per recovered candidate, one after the other.
RecoverLookup(t) ==
    /\ phase = "recovering"
    /\ tasks[t].pc = "recover"
    /\ TasksIn(Active) = {}
    /\ tasks' = [tasks EXCEPT ![t].pc = "expected_hash"]
    /\ UNCHANGED <<storeVars, phase, database_operational, publicationVars, daemonVars, crashes>>

\* All are done: workers, template loop and listener start.
StartWorkers ==
    /\ phase = "recovering"
    /\ database_operational
    /\ \A t \in TaskIds : tasks[t].pc \in {"none", "queued"}
    /\ phase' = "running"
    /\ UNCHANGED <<storeVars, database_operational, publicationVars, tasks, daemonVars, crashes>>

-----------------------------------------------------------------------------
TaskStep(t) ==
    \/ TakeTerminal(t) \/ TakeSubmit(t) \/ TakeLookup(t)
    \/ SubmitDispatch(t) \/ SubmitRefused(t) \/ SubmitException(t)
    \/ \E class \in AttemptClasses : SubmitFinish(t, class)
    \/ LookupDispatch(t) \/ LookupFails(t)
    \/ \E class \in LookupClasses : LookupFinish(t, class)
    \/ EndQuick(t) \/ EndRequeue(t) \/ EndExhausted(t)
    \/ RecoverLookup(t)

Next ==
    \/ FetchTemplate \/ PublishTemplate \/ HoldTemplate \/ IssueJob
    \/ \E h \in Heights, c \in Candidates \cup {NoCandidate} : ProcessShare(h, c)
    \/ \E c \in Candidates, r \in 1..last_round_id : Journal(c, r)
    \/ \E c \in Candidates : JournalExisting(c)
    \/ \E t \in TaskIds : TaskStep(t)
    \/ \E t \in TaskIds : DaemonHandles(t)
    \/ \E c \in Candidates : DaemonHandlesLate(c)
    \/ ChainGrows
    \/ Restart \/ StartWorkers

Spec == Init /\ [][Next]_vars

RefreshTemplate == FetchTemplate \/ PublishTemplate \/ HoldTemplate
StartProcess == StartWorkers \/ (~database_operational /\ Restart)

\* What the scheduling of the code gives.  Threads run and RPCs time out, and a
\* process that stopped is started again (WF).  A due task is picked by its time
\* and so is not passed over for ever, the daemon scheduler serves priority
\* requests first, and the daemon does answer lookups now and then (SF).
Fairness ==
    /\ WF_vars(RefreshTemplate)
    /\ WF_vars(StartProcess)
    /\ \A t \in TaskIds :
          /\ WF_vars(TaskStep(t))
          /\ SF_vars(TakeSubmit(t) \/ TakeLookup(t))
          /\ SF_vars(SubmitDispatch(t) \/ LookupDispatch(t))
          /\ SF_vars(LookupFinish(t, "positive"))

FairSpec == Spec /\ Fairness

-----------------------------------------------------------------------------
(* Properties. *)

\* While the process serves miners, the boundary holds exactly the unresolved
\* candidates, so neither a lost nor a left-over entry decides what is
\* published.
BoundaryIsUnresolved == boundary = UnresolvedCandidates

\* The work that make_job may hand out is above every accepted block and not
\* above any unresolved one.
PublishedWorkIsUseful ==
    issuance /\ current_height # 0 =>
        \A c \in Candidates :
            /\ candidates[c].state \in Accepted => current_height > CandidateHeight[c]
            /\ candidates[c].state \in Unresolved => current_height <= CandidateHeight[c]

\* A block of ours in the main chain can always still be recorded: its round is
\* open and holds no later work, so the require()s of the acceptance transaction
\* never refuse it.
BlockInChainIsRecordable ==
    \A c \in in_chain : candidates[c].state \in Unresolved => CanAccept(c, Unresolved)

\* A rejected candidate is not in the main chain and no submission of it can
\* still get there: every attempt was answered with a rejection.
RejectedIsNeverInChain ==
    \A c \in Candidates :
        candidates[c].state = "rejected" =>
            /\ c \notin in_chain \cup wire
            /\ \A n \in AttemptNumbers : attempts[c][n] = "explicit_rejection"

\* Unless the process is stopping, every unresolved candidate that is not given
\* up has its owner task: no path of the worker loop loses one.  And a task that
\* would submit never meets an ambiguous candidate: every path that makes one
\* ambiguous, the restart included, turns its owner into a lookup, so that the
\* branch of candidate_loop for that case (runtime.cpp:2915) is never taken.
UnresolvedIsOwned ==
    /\ database_operational =>
          \A c \in UnresolvedCandidates :
              candidates[c].exhausted \/ tasks[Owner(c)].pc # "none"
    /\ \A t \in TaskIds :
          tasks[t].pc = "queued" /\ ~tasks[t].reconciliation_only
              => candidates[t[1]].state # "ambiguous"

\* A cycle number is never used by the owner and by a quick lookup both: a task
\* that is about to look up an unresolved candidate finds its row free.
LookupRowsAreFree ==
    \A t \in TaskIds :
        AtBarrier(t) /\ t[1] \in UnresolvedCandidates => CanStartReconciliation(t[1], LookupRow(t))

\* Boundary, tasks and lookup rows follow the durable states through every path of the
\* worker loop, the lookups and the restart.
CandidatesAreTracked == TypeOK /\ BoundaryIsUnresolved /\ UnresolvedIsOwned /\ LookupRowsAreFree

\* mark_database_unavailable: "A durable-writer/candidate-commit failure is
\* process-fatal for mining."  The store never fails in this model, so the
\* process should never stop.
DatabaseStaysOperational == database_operational

\* A block of ours in the main chain is eventually recorded as accepted, also
\* when its answer was lost or the process died before reading it.
BlockInChainIsAccepted ==
    \A c \in Candidates : c \in in_chain ~> candidates[c].state \in Accepted

\* After an accepted block miners get work again, unless another candidate is
\* still unresolved.
MiningResumes ==
    \A c \in Candidates :
        candidates[c].state \in Accepted ~>
            (issuance /\ current_height # 0) \/ UnresolvedCandidates # {}
=============================================================================
