---------------------------- MODULE ShareAdmission ----------------------------
(***************************************************************************)
(* The life of a submission in src/src/runtime/runtime.cpp: the event loop *)
(* opens connections, sends jobs and admits submissions with a lease on    *)
(* their job; submit workers run process_share; the job's replay bucket,   *)
(* the connection's row and its identity must outlive every admitted       *)
(* submission, and be given back after the last one.                       *)
(*                                                                         *)
(* A job's true hash of a nonce is the nonce itself; a miner may claim     *)
(* another one.  Database, boundary, defense and verifier appear through   *)
(* the answers they give process_share.                                    *)
(***************************************************************************)
EXTENDS DuplicateRegistry, Sequences

CONSTANTS
    MaxSubmissions,   \* bound on submissions
    Nonces,           \* nonces, and the hashes they give
    Blocks,           \* hashes that meet the network target
    Weak,             \* (job, hash) pairs where the hash misses the job's share target
    MaxJobs,          \* bound on jobs
    Modes,            \* configurations: TRUE with a verifier, FALSE where claims are trusted
    MaxVerifications, \* max_pending_verifications_per_connection
    MailboxCapacity   \* waiters of the completion mailbox

ASSUME AdmissionAssumption ==
    /\ Sources # {} /\ Nonces # {} /\ MaxJobs \in Nat
    /\ Blocks \subseteq Nonces /\ Weak \subseteq (1..MaxJobs) \X Nonces
    /\ Heights \subseteq Nat \ {0}
    /\ Keys = (1..MaxJobs) \X Nonces
    /\ Modes \subseteq BOOLEAN
    /\ MaxSubmissions \in Nat
    /\ MaxVerifications \in Nat \ {0} /\ MailboxCapacity \in Nat \ {0}

VARIABLES
    verified,     \* a verifier is configured (fixed at start)
    jobs,         \* every job issued: its connection and height
    live,         \* jobs_: the ids of jobs that are not retired
    connections,  \* per connection: socket, row, counters
    pending,      \* pending_verifications_
    subs,         \* per submission: where it is and what it holds
    candidates,   \* journaled blocks, by (job, nonce)
    fatal         \* mark_database_unavailable was called

vars == <<verified, registry, jobs, live, connections, pending, subs, candidates, fatal>>

Submissions == 1..MaxSubmissions   \* in the order they arrive
JobIds == 1..MaxJobs
NoJob == 0

NewConnection == [socket |-> "new", row |-> "none", known |-> FALSE, latest |-> 0,
                  accepted_submits |-> 0, deferred |-> FALSE]

NoSubmission == [pc |-> "none", conn |-> CHOOSE c \in Sources : TRUE, job |-> NoJob,
                 nonce |-> CHOOSE n \in Nonces : TRUE, claimed |-> CHOOSE n \in Nonces : TRUE,
                 local |-> "none", token |-> FALSE, candidate |-> "none", lease |-> FALSE,
                 task |-> FALSE, result |-> "none"]

Results == {"accepted", "stale", "duplicate", "low_difficulty", "invalid_result", "unknown_job",
            "server_busy", "verifier_failed"}

AdmissionTypeOK ==
    /\ verified \in Modes
    /\ RegistryTypeOK(Submissions, MaxJobs + 2 * Cardinality(Submissions))
    /\ jobs \in Seq([conn : Sources, height : Heights]) /\ Len(jobs) <= MaxJobs
    /\ live \subseteq 1..Len(jobs)
    /\ connections \in [Sources -> [socket : {"new", "open", "overflow", "closing"},
                                    row : {"none", "open", "closed"}, known : BOOLEAN,
                                    latest : Heights \cup {0},
                                    accepted_submits : 0..Cardinality(Submissions),
                                    deferred : BOOLEAN]]
    /\ pending \in [Sources -> 0..MaxVerifications]
    /\ subs \in [Submissions ->
                   [pc : {"none", "queued", "reserved", "verifying", "judged", "completed", "done"},
                    conn : Sources, job : JobIds \cup {NoJob}, nonce : Nonces, claimed : Nonces,
                    local : {"none", "reserved", "duplicate", "capacity"}, token : BOOLEAN,
                    candidate : {"none", "deferred", "inserted", "existing"}, lease : BOOLEAN,
                    task : BOOLEAN, result : Results \cup {"none"}]]
    /\ candidates \subseteq Keys
    /\ fatal \in BOOLEAN

Init ==
    /\ verified \in Modes
    /\ RegistryInit
    /\ jobs = <<>>
    /\ live = {}
    /\ connections = [c \in Sources |-> NewConnection]
    /\ pending = [c \in Sources |-> 0]
    /\ subs = [s \in Submissions |-> NoSubmission]
    /\ candidates = {}
    /\ fatal = FALSE

-----------------------------------------------------------------------------
(* Connections and jobs: the event loop. *)

BucketOf(j) == <<jobs[j].conn, jobs[j].height>>

JobsOf(c) == {j \in live : jobs[j].conn = c}

\* Mutant: a retired job keeps its reference.
RetireJobsKept(reg, J) ==
    [reg EXCEPT !.buckets = [b \in Buckets |->
        [@[b] EXCEPT !.retired = @ \/ \E j \in J : BucketOf(j) = b]]]

\* retire_job_context for every job in J.
RetireJobs(reg, J) ==
    RetireHeights(reg, [b \in Buckets |-> Cardinality({j \in J : BucketOf(j) = b})])

\* observe_connection("opened"): the row, then the identity.
Open(c) ==
    /\ connections[c].socket = "new"
    /\ connections' = [connections EXCEPT ![c] = [@ EXCEPT !.socket = "open", !.row = "open",
                                                           !.known = TRUE]]
    /\ UNCHANGED <<registry, jobs, live, pending, subs, candidates, fatal>>

\* make_job, the queued notification and its on_queued callback, which retires
\* the connection's jobs of lower height.
SendJob(c, h) ==
    /\ connections[c].socket = "open"
    /\ connections[c].known
    /\ Len(jobs) < MaxJobs
    /\ jobs' = Append(jobs, [conn |-> c, height |-> h])
    /\ LET old == {j \in JobsOf(c) : jobs[j].height < h}
       IN /\ live' = (live \ old) \cup {Len(jobs) + 1}
          /\ registry' = RetireJobs(RetainHeight(registry, <<c, h>>), old)
    /\ connections' = [connections EXCEPT ![c].latest = h]
    /\ UNCHANGED <<pending, subs, candidates, fatal>>

\* make_job, but the connection's output queue is full: queue() goes on to close
\* it, and on_queued does not run.
QueueFails(c, h) ==
    /\ connections[c].socket = "open"
    /\ connections[c].known
    /\ Len(jobs) < MaxJobs
    /\ jobs' = Append(jobs, [conn |-> c, height |-> h])
    /\ live' = live \cup {Len(jobs) + 1}
    /\ registry' = RetainHeight(registry, <<c, h>>)
    /\ connections' = [connections EXCEPT ![c].socket = "overflow"]
    /\ UNCHANGED <<pending, subs, candidates, fatal>>

\* The state after a connection's identity, jobs and row are given up.
GiveUp(c, conn) ==
    /\ registry' = RetireJobs(registry, JobsOf(c))
    /\ live' = live \ JobsOf(c)
    /\ pending' = [pending EXCEPT ![c] = 0]
    /\ connections' = [connections EXCEPT ![c] = [conn EXCEPT !.known = FALSE, !.row = "closed",
                                                              !.deferred = FALSE]]

\* Mutant: the row is closed under the submissions that are still running.
MustDeferNever(c) == FALSE

MustDefer(c) == connections[c].accepted_submits > 0

\* close_connection and observe_connection: with submissions in flight the
\* close is left to the last of them.
Close(c) ==
    /\ connections[c].socket \in {"open", "overflow"}
    /\ LET conn == [connections[c] EXCEPT !.socket = "closing"]
       IN IF MustDefer(c)
          THEN /\ connections' = [connections EXCEPT ![c] = [conn EXCEPT !.deferred = TRUE]]
               /\ UNCHANGED <<registry, live, pending>>
          ELSE GiveUp(c, conn)
    /\ UNCHANGED <<jobs, subs, candidates, fatal>>

\* The newest job of c, the front of its history.
Current(c, j) == j = Max(JobsOf(c))

\* admit_submission: which job a submission is admitted for.  A job that is
\* neither the newest nor of the newest height may have expired.
AdmittedJobs(c, j) ==
    IF j \notin JobsOf(c) THEN {NoJob}
    ELSE IF Current(c, j) \/ connections[c].latest = jobs[j].height THEN {j}
    ELSE {j, NoJob}

\* Mutant: the lease does not retain the replay bucket.
LeasedNot(reg, j) == reg

\* JobLease: a reference to the job's bucket.
Leased(reg, j) == IF j = NoJob THEN reg ELSE RetainHeight(reg, BucketOf(j))

Arriving == {s \in Submissions : \A t \in Submissions : subs[t].pc = "none" <=> t >= s}

\* handle_submit; the queue takes the submission and its lease.
Submit(s, c, admitted, nonce, claimed) ==
    /\ connections[c].socket = "open"
    /\ IF ~connections[c].known
       THEN /\ fatal' = TRUE
            /\ UNCHANGED <<registry, connections, subs>>
       ELSE /\ subs' = [subs EXCEPT ![s] = [NoSubmission EXCEPT
                           !.pc = "queued", !.conn = c, !.job = admitted, !.nonce = nonce,
                           !.claimed = claimed, !.lease = (admitted # NoJob)]]
            /\ registry' = Leased(registry, admitted)
            /\ connections' = [connections EXCEPT ![c].accepted_submits = @ + 1]
            /\ UNCHANGED fatal
    /\ UNCHANGED <<jobs, live, pending, candidates>>

-----------------------------------------------------------------------------
(* process_share: a submit worker. *)

Key(s, hash) == <<subs[s].job, hash>>
Bucket(s) == BucketOf(subs[s].job)

\* The answer of process_share, whose locals end with it.
Judge(s, result, sub) ==
    subs' = [subs EXCEPT ![s] = [sub EXCEPT !.pc = "judged", !.result = result, !.local = "none",
                                            !.token = FALSE, !.candidate = "none"]]

\* Mutant: a failed share keeps its reservation.
ReleaseClaimedNot(reg, s) == reg

\* release_claimed_if_safe
ReleaseClaimed(reg, s) ==
    IF subs[s].token THEN ReleaseToken(reg, Key(s, subs[s].claimed), s) ELSE reg

\* insert_share needs an open connection row.
RowIsOpen(s) == connections[subs[s].conn].row = "open"

NoRow(s) ==
    /\ fatal' = TRUE
    /\ Judge(s, IF subs[s].job = NoJob THEN "unknown_job" ELSE "verifier_failed", subs[s])

\* The candidate boundary refuses the job's height; then insert_share; then
\* there is no job, or the block cannot be rebuilt.
StartRefused(s) ==
    /\ subs[s].pc = "queued"
    /\ \/ subs[s].job # NoJob /\ Judge(s, "stale", subs[s]) /\ UNCHANGED fatal
       \/ IF RowIsOpen(s)
          THEN /\ Judge(s, IF subs[s].job = NoJob THEN "unknown_job" ELSE "invalid_result", subs[s])
               /\ UNCHANGED fatal
          ELSE NoRow(s)
    /\ UNCHANGED <<registry, jobs, live, connections, pending, candidates>>

\* The claimed key is reserved.
StartReserve(s) ==
    LET key == Key(s, subs[s].claimed)
        local == ReserveResult(registry, key, Bucket(s))
    IN /\ subs[s].pc = "queued"
       /\ subs[s].job # NoJob
       /\ RowIsOpen(s)
       /\ registry' = Reserve(registry, key, Bucket(s), s)
       /\ subs' = [subs EXCEPT ![s] = [@ EXCEPT !.pc = "reserved", !.local = local,
                                                !.token = (local = "reserved")]]
       /\ UNCHANGED <<jobs, live, connections, pending, candidates, fatal>>

\* journal_candidate: a known block is attached, a new one gets a task that
\* refers to the bucket.
Journaled(s) ==
    IF Key(s, subs[s].nonce) \in candidates
    THEN [sub |-> [subs[s] EXCEPT !.candidate = "existing"], registry |-> registry]
    ELSE [sub |-> [subs[s] EXCEPT !.candidate = "inserted", !.task = TRUE],
          registry |-> RetainHeight(registry, Bucket(s))]

\* The claimed hash meets the network target and is not journaled yet.
ClaimOpen(s) ==
    subs[s].pc = "reserved" /\ subs[s].claimed \in Blocks /\ subs[s].candidate = "none"

JournalClaimed(s) ==
    /\ ClaimOpen(s)
    /\ subs' = [subs EXCEPT ![s] = Journaled(s).sub]
    /\ registry' = Journaled(s).registry
    /\ candidates' = candidates \cup {Key(s, subs[s].nonce)}
    /\ UNCHANGED <<jobs, live, connections, pending, fatal>>

\* A new block is not journaled: its round is contaminated, or it exceeds the
\* peer's admission rate, which a verifier turns into a later decision.
JournalRefused(s) ==
    /\ ClaimOpen(s)
    /\ Key(s, subs[s].nonce) \notin candidates
    /\ \/ /\ verified
          /\ subs' = [subs EXCEPT ![s].candidate = "deferred"]
          /\ UNCHANGED registry
       \/ /\ \E result \in {"stale"} \cup (IF verified THEN {} ELSE {"server_busy"}) :
                 Judge(s, result, subs[s])
          /\ registry' = ReleaseClaimed(registry, s)
    /\ UNCHANGED <<jobs, live, connections, pending, candidates, fatal>>

\* process_share is past the claimed candidate.
ClaimSettled(s) == subs[s].pc = "reserved" /\ ~ClaimOpen(s)

HeightIsOlder(s) == connections[subs[s].conn].latest > jobs[subs[s].job].height

\* The end of process_share for a hash that is this share's.
CreditOrRefuse(s, hash) ==
    CASE Key(s, hash) \in Weak -> "low_difficulty"
      [] Key(s, hash) \notin Weak /\ HeightIsOlder(s) -> "stale"
      [] OTHER -> "accepted"

TrustedResult(s) ==
    CASE subs[s].local = "duplicate" \/ subs[s].candidate = "existing" -> "duplicate"
      [] subs[s].local = "capacity" /\ subs[s].candidate # "existing" -> "server_busy"
      [] OTHER -> CreditOrRefuse(s, subs[s].claimed)

JudgeTrusted(s) ==
    /\ ~verified
    /\ ClaimSettled(s)
    /\ Judge(s, TrustedResult(s), subs[s])
    /\ UNCHANGED <<registry, jobs, live, connections, pending, candidates, fatal>>

Verifying == {s \in Submissions : subs[s].pc = "verifying"}

\* continue_verification_after_claimed_capacity
ContinueVerification(s) == subs[s].local # "capacity" \/ subs[s].claimed \in Blocks

\* The share is not verified: the registry is full and no block is claimed,
\* too many are pending, or the mailbox or the verifier refuses it.
VerifyRefused(s) ==
    /\ verified
    /\ ClaimSettled(s)
    /\ registry' = ReleaseClaimed(registry, s)
    /\ \E result \in {"server_busy"} \cup (IF ContinueVerification(s) THEN {"verifier_failed"} ELSE {}) :
           Judge(s, result, subs[s])
    /\ UNCHANGED <<jobs, live, connections, pending, candidates, fatal>>

StartVerify(s) ==
    /\ verified
    /\ ClaimSettled(s)
    /\ ContinueVerification(s)
    /\ pending[subs[s].conn] < MaxVerifications
    /\ Cardinality(Verifying) < MailboxCapacity
    /\ subs' = [subs EXCEPT ![s].pc = "verifying"]
    /\ pending' = [pending EXCEPT ![subs[s].conn] = @ + 1]
    /\ UNCHANGED <<registry, jobs, live, connections, candidates, fatal>>

\* Mutant: the slot of a finished verification is not given back.
DecrementPendingNot(s) == UNCHANGED pending

DecrementPending(s) ==
    pending' = [pending EXCEPT ![subs[s].conn] = IF @ = 0 THEN 0 ELSE @ - 1]

VerifyFails(s) ==
    /\ subs[s].pc = "verifying"
    /\ DecrementPending(s)
    /\ registry' = ReleaseClaimed(registry, s)
    /\ Judge(s, "verifier_failed", subs[s])
    /\ UNCHANGED <<jobs, live, connections, candidates, fatal>>

\* verified_post_hash_plan and the verdict that follows it.
VerifiedResult(s, computed) ==
    LET match == subs[s].claimed = subs[s].nonce
        duplicate == IF match THEN subs[s].local = "duplicate" ELSE computed = "duplicate"
        capacity == subs[s].local = "capacity" \/ (~match /\ computed = "capacity")
    IN CASE duplicate -> "duplicate"
         [] ~duplicate /\ capacity -> "server_busy"
         [] ~duplicate /\ ~capacity /\ ~match -> "invalid_result"
         [] OTHER -> CreditOrRefuse(s, subs[s].nonce)

\* The computed hash is a block that is not journaled for this share.
Rescued(s) == subs[s].nonce \in Blocks /\ subs[s].candidate \in {"none", "deferred"}

\* The completion: on a mismatch the computed key is reserved too, and a block
\* that was not claimed (or deferred) is journaled.
VerifyCompletes(s) ==
    LET match == subs[s].claimed = subs[s].nonce
        key == Key(s, subs[s].nonce)
        computed == IF match THEN "none" ELSE ReserveResult(registry, key, Bucket(s))
        rescue == Rescued(s)
        new == rescue /\ key \notin candidates
        reserved == IF match THEN registry ELSE Reserve(registry, key, Bucket(s), s)
    IN /\ subs[s].pc = "verifying"
       /\ DecrementPending(s)
       /\ registry' = IF new THEN RetainHeight(reserved, Bucket(s)) ELSE reserved
       /\ candidates' = IF rescue THEN candidates \cup {key} ELSE candidates
       /\ Judge(s, VerifiedResult(s, computed), [subs[s] EXCEPT !.task = (@ \/ new)])
       /\ UNCHANGED <<jobs, live, connections, fatal>>

\* The same, but the computed block's round is contaminated.
VerifyContaminated(s) ==
    LET match == subs[s].claimed = subs[s].nonce
        key == Key(s, subs[s].nonce)
        reserved == IF match THEN registry ELSE Reserve(registry, key, Bucket(s), s)
    IN /\ subs[s].pc = "verifying"
       /\ Rescued(s) /\ key \notin candidates
       /\ DecrementPending(s)
       /\ registry' = ReleaseClaimed(reserved, s)
       /\ Judge(s, "stale", subs[s])
       /\ UNCHANGED <<jobs, live, connections, candidates, fatal>>

-----------------------------------------------------------------------------
(* After the answer. *)

\* Mutant: the last submission leaves the deferred close undone.
CloseOwedNot(c) == FALSE

CloseOwed(c) == connections[c].accepted_submits = 1 /\ connections[c].deferred

\* The hash a share is credited for: computed by the verifier, or as claimed.
CreditedHash(s) == IF verified THEN subs[s].nonce ELSE subs[s].claimed

\* What is remembered of an answered submission: what it holds, and a credit.
Answered(s) ==
    LET sub == [NoSubmission EXCEPT !.pc = "completed", !.conn = subs[s].conn, !.job = subs[s].job,
                                    !.lease = subs[s].lease, !.task = subs[s].task]
    IN IF subs[s].result # "accepted" THEN sub
       ELSE [sub EXCEPT !.result = "accepted", !.nonce = CreditedHash(s), !.claimed = CreditedHash(s)]

\* observe_connection("submit_completed"): the last one of a closing connection
\* gives up what the connection held.
Complete(s) ==
    LET c == subs[s].conn
        conn == [connections[c] EXCEPT !.accepted_submits = @ - 1]
    IN /\ subs[s].pc = "judged"
       /\ subs' = [subs EXCEPT ![s] = Answered(s)]
       /\ IF CloseOwed(c) THEN GiveUp(c, conn)
          ELSE /\ connections' = [connections EXCEPT ![c] = conn]
               /\ UNCHANGED <<registry, live, pending>>
       /\ UNCHANGED <<jobs, candidates, fatal>>

\* Its job is still of interest: a credit, or a candidate's task.
Outlives(s) == subs[s].result = "accepted" \/ subs[s].task

\* The worker drops the submission, and with it the lease.
DropLease(s) ==
    /\ subs[s].pc = "completed"
    /\ subs' = [subs EXCEPT ![s] = [@ EXCEPT !.pc = "done", !.lease = FALSE,
                                             !.job = IF Outlives(s) THEN subs[s].job ELSE NoJob]]
    /\ registry' = IF subs[s].lease THEN ReleaseHeight(registry, Bucket(s)) ELSE registry
    /\ UNCHANGED <<jobs, live, connections, pending, candidates, fatal>>

\* The candidate's task ends.
CandidateDone(s) ==
    /\ subs[s].task
    /\ subs' = [subs EXCEPT ![s].task = FALSE]
    /\ registry' = ReleaseHeight(registry, Bucket(s))
    /\ UNCHANGED <<jobs, live, connections, pending, candidates, fatal>>

WorkerStep(s) ==
    /\ \/ StartRefused(s) \/ StartReserve(s) \/ JournalClaimed(s) \/ JournalRefused(s)
       \/ JudgeTrusted(s) \/ VerifyRefused(s) \/ StartVerify(s)
       \/ Complete(s) \/ DropLease(s)
    /\ UNCHANGED verified

VerifierStep(s) ==
    /\ VerifyFails(s) \/ VerifyCompletes(s) \/ VerifyContaminated(s)
    /\ UNCHANGED verified

EventLoopStep ==
    /\ \/ \E c \in Sources : Open(c) \/ Close(c)
       \/ \E c \in Sources, h \in Heights : SendJob(c, h) \/ QueueFails(c, h)
       \/ \E s \in Arriving, c \in Sources, j \in 1..Len(jobs) :
              \E admitted \in AdmittedJobs(c, j), n, m \in Nonces : Submit(s, c, admitted, n, m)
    /\ UNCHANGED verified

CandidateStep(s) == CandidateDone(s) /\ UNCHANGED verified

Next ==
    \/ EventLoopStep
    \/ \E s \in Submissions : WorkerStep(s) \/ VerifierStep(s) \/ CandidateStep(s)

AdmissionSpec == Init /\ [][Next]_vars

-----------------------------------------------------------------------------
(* Properties. *)

\* Work is credited once: two accepted submissions never carry the same hash of
\* the same job, although reservations are released for retries, buckets are
\* collected when their job retires, and the registry may be full.
CreditedOnce ==
    \A s, t \in Submissions :
        /\ s # t /\ subs[s].result = "accepted" /\ subs[t].result = "accepted"
        /\ subs[s].job = subs[t].job
        => CreditedHash(s) # CreditedHash(t)

\* An honest share that failed for the server's own reasons leaves nothing
\* behind, so that the miner may submit it again.
FailedShareIsRetryable ==
    \A s \in Submissions :
        /\ subs[s].result \in {"server_busy", "verifier_failed"}
        /\ subs[s].claimed = subs[s].nonce
        => \A e \in registry.entries : e.owner # s

\* The references of a bucket are exactly its live jobs, leases and candidate
\* tasks, and a bucket without one holds no key: whatever order jobs retire,
\* leases end and connections close in, nothing leaks and nothing is collected
\* early.  The verification slots of a connection are its shares that wait for
\* the verifier: no path of process_share leaks one or frees one twice.
ReferencesAreExact ==
    /\ \A b \in Buckets :
          /\ registry.buckets[b].references =
                 Cardinality({j \in live : BucketOf(j) = b})
                 + Cardinality({s \in Submissions : subs[s].lease /\ Bucket(s) = b})
                 + Cardinality({s \in Submissions : subs[s].task /\ Bucket(s) = b})
          /\ registry.buckets[b].references = 0 => KeysOf(registry, b) = {}
    /\ \A c \in Sources : pending[c] = Cardinality({s \in Verifying : subs[s].conn = c})

\* process_share never meets a closed or unknown connection, which would stop the
\* server: the close is deferred to the last admitted submission.  And that one
\* does not forget it: a closed connection with no submission left has its row
\* closed, its identity and jobs gone and no key left, except in buckets that an
\* unfinished candidate holds.
ConnectionOutlivesItsShares ==
    /\ ~fatal
    /\ \A c \in Sources :
          /\ connections[c].socket = "closing"
          /\ \A s \in Submissions : subs[s].pc \in {"none", "done"}
          => /\ connections[c].row = "closed" /\ ~connections[c].known
             /\ JobsOf(c) = {}
             /\ \A e \in registry.entries : e.bucket[1] = c =>
                    \E s \in Submissions : subs[s].task /\ Bucket(s) = e.bucket

\* Whatever order jobs retire, leases end, candidates finish and connections close in,
\* nothing is collected while it is needed and nothing is left when it is not.
NothingLeaks == AdmissionTypeOK /\ ReferencesAreExact /\ ConnectionOutlivesItsShares
=============================================================================
