---------------------------- MODULE SeedRotation ----------------------------
(***************************************************************************)
(* Who uses verifier seeds in src/src/runtime/runtime.cpp.  The template   *)
(* thread prepares, activates and prefetches seeds as the daemon's tip     *)
(* crosses seed epochs, in either direction, and releases the others; the  *)
(* event loop derives jobs and admits shares, both of which retain their   *)
(* seed; submit workers verify on it.                                      *)
(*                                                                         *)
(* Jobs of one connection with the same height and seed are retired        *)
(* together, and are one here.                                             *)
(***************************************************************************)
EXTENDS VerifierSeeds

CONSTANTS
    Connections,     \* miner connections
    Shares,          \* admitted submissions
    MaxHeight,       \* bound on heights
    EpochLength,     \* blocks mined on one seed
    ReorgDepth,      \* how far below the highest tip the daemon goes back
    MaxOutstanding,  \* verifier.max_outstanding
    MaxMoves,        \* bound on tip changes
    MaxFailures      \* bound on preparations that fail

ASSUME RotationAssumption ==
    /\ Connections # {} /\ IsFiniteSet(Connections) /\ IsFiniteSet(Shares)
    /\ MaxHeight \in Nat \ {0} /\ EpochLength \in Nat \ {0} /\ ReorgDepth \in Nat
    /\ \A h \in 1..MaxHeight, i \in {0, 2, 3} : 2 * ((h - 1) \div EpochLength) + 1 + i \in Hashes
    /\ MaxOutstanding \in Nat \ {0} /\ MaxMoves \in Nat /\ MaxFailures \in Nat

VARIABLES
    daemon,     \* the daemon's tip: height and the next seed it advertises
    refresh,    \* the template thread: where it is in refresh_template
    template,   \* current_template_ (height 0: none), its seed is active_seed_id_
    allowed,    \* job_issuance_allowed_
    deriving,   \* the event loop inside make_job, holding job_issuance_mutex_ shared
    socket,     \* per connection
    stale,      \* connections that refresh_jobs still has to serve
    jobs,       \* jobs_: live jobs
    shares,     \* per submission: its seed, whether its lease and its verification are alive
    failures    \* preparations that failed

vars == <<verifier, daemon, refresh, template, allowed, deriving, socket, stale, jobs, shares, failures>>
clients == <<deriving, socket, stale, jobs, shares>>
server == <<template, allowed>>

Heights == 1..MaxHeight

\* The seed hash of a height.  Near the end of an epoch the daemon advertises
\* the next one, or what would be the next one on a branch it abandons.
SeedOf(height) == 2 * ((height - 1) \div EpochLength) + 1
NextSeeds(height) ==
    {NoSeed} \cup (IF height % EpochLength = 0 THEN {SeedOf(height) + 2, SeedOf(height) + 3} ELSE {})

NoTemplate == [height |-> 0, seed |-> NoSeed]
NoShare == [seed |-> NoSeed, lease |-> FALSE, verifying |-> FALSE]
NotDeriving == [conn |-> CHOOSE c \in Connections : TRUE, template |-> NoTemplate]
Idle == [pc |-> "idle", height |-> 0, next |-> NoSeed, obsolete |-> {}, seed |-> NoSeed]

Templates == [height : Heights \cup {0}, seed : SeedIds \cup {NoSeed}]

RotationTypeOK ==
    /\ VerifierTypeOK(Cardinality(Connections) * MaxHeight + Cardinality(Shares), MaxOutstanding)
    /\ \A h \in Hashes : Cardinality(ResidentSeeds(verifier, h)) <= 1
    /\ Cardinality({s \in SeedIds : verifier.seeds[s].native # "absent"}) <= MaxSeeds
    /\ daemon \in [height : Heights, next : Hashes \cup {NoSeed}, top : Heights, moves : 0..MaxMoves]
    /\ refresh \in [pc : {"idle", "parse", "hold", "reclaim", "await", "prepare", "wait", "prefetch",
                          "publish", "allow", "retire"},
                    height : Heights \cup {0}, next : Hashes \cup {NoSeed},
                    obsolete : SUBSET SeedIds, seed : SeedIds \cup {NoSeed}]
    /\ template \in Templates
    /\ allowed \in BOOLEAN
    /\ deriving \in [conn : Connections, template : Templates]
    /\ socket \in [Connections -> {"new", "open", "closed"}]
    /\ stale \subseteq Connections
    /\ jobs \subseteq [conn : Connections, height : Heights, seed : SeedIds]
    /\ shares \in [Shares -> [seed : SeedIds \cup {NoSeed}, lease : BOOLEAN, verifying : BOOLEAN]]
    /\ failures \in 0..MaxFailures

Init ==
    /\ VerifierInit
    /\ \E h \in Heights : daemon = [height |-> h, next |-> NoSeed, top |-> h, moves |-> 0]
    /\ refresh = Idle
    /\ template = NoTemplate
    /\ allowed = FALSE
    /\ deriving = NotDeriving
    /\ socket = [c \in Connections |-> "new"]
    /\ stale = {}
    /\ jobs = {}
    /\ shares = [x \in Shares |-> NoShare]
    /\ failures = 0

-----------------------------------------------------------------------------
\* The daemon: its tip moves by one block, or it changes its mind.
DaemonMoves(height, next) ==
    /\ daemon.moves < MaxMoves
    /\ height \in {daemon.height - 1, daemon.height, daemon.height + 1}
    /\ height >= daemon.top - ReorgDepth
    /\ next \in NextSeeds(height)
    /\ daemon' = [height |-> height, next |-> next, moves |-> daemon.moves + 1,
                  top |-> IF height > daemon.top THEN height ELSE daemon.top]
    /\ UNCHANGED <<verifier, refresh, server, clients, failures>>

\* The library finishes a preparation, or fails it.
NativePrepared(s) ==
    /\ verifier.seeds[s].native = "preparing"
    /\ verifier' = [verifier EXCEPT !.seeds[s].native = "ready"]
    /\ UNCHANGED <<daemon, refresh, server, clients, failures>>

NativePrepareFails(s) ==
    /\ verifier.seeds[s].native = "preparing"
    /\ failures < MaxFailures
    /\ verifier' = [verifier EXCEPT !.seeds[s].native = "failed"]
    /\ failures' = failures + 1
    /\ UNCHANGED <<daemon, refresh, server, clients>>

\* The library finishes a release.
NativeReleased(s) ==
    /\ verifier.seeds[s].native = "releasing"
    /\ verifier' = [verifier EXCEPT !.seeds[s].native = "absent"]
    /\ UNCHANGED <<daemon, refresh, server, clients, failures>>
-----------------------------------------------------------------------------
\* refresh_template.  Its calls on the verifier are steps of their own: other
\* threads run between them.
Target == SeedOf(refresh.height)

\* The seed ids nobody mentions; the library counts them up and never runs out.
FreshSeeds ==
    {s \in SeedIds :
        /\ verifier.seeds[s] = NoRecord
        /\ s \notin refresh.obsolete \cup {refresh.seed, template.seed, deriving.template.seed}
        /\ \A j \in jobs : j.seed # s
        /\ \A x \in Shares : shares[x].seed # s}
FreshSeed == CHOOSE s \in FreshSeeds : TRUE

\* get_block_template
Fetch ==
    /\ refresh.pc = "idle"
    /\ refresh' = [Idle EXCEPT !.pc = "parse", !.height = daemon.height, !.next = daemon.next]
    /\ UNCHANGED <<verifier, daemon, server, clients, failures>>

\* Mutant: abandoned prefetches are kept.
ObsoleteNone(v) == {}

\* The resident seeds that nothing needs, by the snapshots taken.
Obsolete(v) ==
    {s \in SeedIds :
        /\ Known(v, s) /\ s # template.seed
        /\ v.seeds[s].hash \notin {Target, refresh.next}
        /\ v.seeds[s].references = 0 /\ v.seeds[s].tracked = 0}

\* parse_template takes the snapshots.
Snapshot ==
    /\ refresh.pc = "parse"
    /\ LET v == ObserveAll(verifier)
           differs == ~(Known(v, template.seed) /\ v.seeds[template.seed].hash = Target)
           ready == \E s \in ResidentSeeds(v, Target) : IsReady(v, s)
       IN /\ verifier' = v
          /\ refresh' = [refresh EXCEPT !.pc = IF differs /\ ~ready THEN "hold" ELSE "reclaim",
                                        !.obsolete = Obsolete(v)]
    /\ UNCHANGED <<daemon, server, clients, failures>>

\* The exclusive lock waits for the job that is being derived.
IssuanceLocked == deriving.template = NoTemplate

HoldIssuance ==
    /\ refresh.pc = "hold"
    /\ IssuanceLocked
    /\ allowed' = FALSE
    /\ refresh' = [refresh EXCEPT !.pc = "reclaim"]
    /\ UNCHANGED <<verifier, daemon, template, clients, failures>>

\* request_seed_release of the obsolete seeds, lowest id first.
Reclaim ==
    /\ refresh.pc = "reclaim"
    /\ \/ /\ refresh.obsolete = {}
          /\ refresh' = [refresh EXCEPT !.pc = "prepare"]
          /\ UNCHANGED verifier
       \/ /\ refresh.obsolete # {}
          /\ verifier' = RequestSeedRelease(verifier, Min(refresh.obsolete))
          /\ refresh' = [refresh EXCEPT !.pc = "await"]
    /\ UNCHANGED <<daemon, server, clients, failures>>

\* wait_seed_released: it requests the release again, and gives up on a seed
\* that came into use or when the time is over.
AwaitReleased ==
    /\ refresh.pc = "await"
    /\ LET s == Min(refresh.obsolete)
           v == RequestSeedRelease(verifier, s)
       IN \/ /\ ~Known(v, s) \/ v.seeds[s].native = "absent"
             /\ verifier' = [v EXCEPT !.seeds[s] = NoRecord]
             /\ refresh' = [refresh EXCEPT !.pc = "reclaim", !.obsolete = @ \ {s}]
          \/ /\ Known(v, s) /\ v.seeds[s].native # "absent"
             /\ verifier' = v
             /\ refresh' = Idle
    /\ UNCHANGED <<daemon, server, clients, failures>>

\* prepare_seed of the template's seed.
Prepare ==
    /\ refresh.pc = "prepare" /\ FreshSeeds # {}
    /\ verifier' = PrepareSeed(verifier, Target, FreshSeed)
    /\ refresh' = IF PrepareStatus(verifier, Target) = "ok"
                  THEN [refresh EXCEPT !.pc = "wait",
                                       !.seed = PreparedSeed(verifier, Target, FreshSeed)]
                  ELSE Idle
    /\ UNCHANGED <<daemon, server, clients, failures>>

\* wait_seed_ready and activate_seed; only this thread requests releases, so
\* nothing can come between them.  The wait may time out.
WaitAndActivate ==
    /\ refresh.pc = "wait"
    /\ \/ /\ MayActivate(verifier, refresh.seed)
          /\ verifier' = ActivateSeed(verifier, refresh.seed)
          /\ refresh' = [refresh EXCEPT !.pc = "prefetch"]
       \/ /\ ~MayActivate(verifier, refresh.seed)
          /\ refresh' = Idle
          /\ UNCHANGED verifier
    /\ UNCHANGED <<daemon, server, clients, failures>>

\* prepare_seed of the next seed; its failure is ignored.
Prefetch ==
    /\ refresh.pc = "prefetch" /\ FreshSeeds # {}
    /\ verifier' = IF refresh.next \in {NoSeed, Target} THEN verifier
                   ELSE PrepareSeed(verifier, refresh.next, FreshSeed)
    /\ refresh' = [refresh EXCEPT !.pc = "publish"]
    /\ UNCHANGED <<daemon, server, clients, failures>>

\* The template and its seed are installed; refresh.seed keeps the old seed.
Publish ==
    /\ refresh.pc = "publish"
    /\ template' = [height |-> refresh.height, seed |-> refresh.seed]
    /\ refresh' = [refresh EXCEPT !.pc = "allow", !.seed = template.seed]
    /\ UNCHANGED <<verifier, daemon, allowed, clients, failures>>

\* Mutant: issuance is allowed again without the lock.
AllowIssuanceUnlocked ==
    /\ refresh.pc = "allow"
    /\ allowed' = TRUE
    /\ refresh' = [refresh EXCEPT !.pc = "retire"]
    /\ UNCHANGED <<verifier, daemon, template, clients, failures>>

AllowIssuance ==
    /\ refresh.pc = "allow"
    /\ IssuanceLocked
    /\ allowed' = TRUE
    /\ refresh' = [refresh EXCEPT !.pc = "retire"]
    /\ UNCHANGED <<verifier, daemon, template, clients, failures>>

\* request_seed_release of the old seed, then refresh_jobs.
RetireOldSeed ==
    /\ refresh.pc = "retire"
    /\ verifier' = IF refresh.seed \in {NoSeed, template.seed} THEN verifier
                   ELSE RequestSeedRelease(verifier, refresh.seed)
    /\ stale' = {c \in Connections : socket[c] = "open"}
    /\ refresh' = Idle
    /\ UNCHANGED <<daemon, server, deriving, socket, jobs, shares, failures>>
-----------------------------------------------------------------------------
\* The event loop, one thread.
EventLoopFree == deriving.template = NoTemplate

\* Mutant: the references of retired jobs are kept.
DropJobsKept(v, gone) == v

\* retire_job_context for each job of gone.
DropJobs(v, gone) ==
    [v EXCEPT !.seeds = [s \in SeedIds |->
        DropSeedReferences(v, s, Cardinality({j \in gone : j.seed = s})).seeds[s]]]

\* make_job for a login or for a connection that refresh_jobs serves: the
\* template is read under the shared lock.
BeginJob(c) ==
    /\ EventLoopFree
    /\ socket[c] = "new" \/ c \in stale
    /\ allowed /\ template # NoTemplate
    /\ deriving' = [conn |-> c, template |-> template]
    /\ UNCHANGED <<verifier, daemon, refresh, server, socket, stale, jobs, shares, failures>>

\* retain_seed, then the job is queued and those of lower heights are retired.
\* A connection that gets no job is closed.
FinishJob ==
    /\ ~EventLoopFree
    /\ LET c == deriving.conn
           made == MayRetain(verifier, deriving.template.seed)
           job == [conn |-> c, height |-> deriving.template.height, seed |-> deriving.template.seed]
           gone == {j \in jobs : j.conn = c /\ (made => j.height < job.height)}
           retained == IF made /\ job \notin jobs THEN RetainSeed(verifier, job.seed) ELSE verifier
       IN /\ verifier' = DropJobs(retained, gone)
          /\ jobs' = (jobs \ gone) \cup (IF made THEN {job} ELSE {})
          /\ socket' = [socket EXCEPT ![c] = IF made THEN "open" ELSE "closed"]
          /\ stale' = stale \ {c}
    /\ deriving' = NotDeriving
    /\ UNCHANGED <<daemon, refresh, server, shares, failures>>

\* A connection closes: by itself, or because no job can be made for it.  A
\* login that gets no job ends too.
Close(c) ==
    /\ EventLoopFree
    /\ \/ socket[c] = "open"
       \/ socket[c] = "new" /\ ~allowed
    /\ LET gone == {j \in jobs : j.conn = c}
       IN verifier' = DropJobs(verifier, gone) /\ jobs' = jobs \ gone
    /\ socket' = [socket EXCEPT ![c] = "closed"]
    /\ stale' = stale \ {c}
    /\ UNCHANGED <<daemon, refresh, server, deriving, shares, failures>>

\* A share of a live job is admitted with a lease.
Admit(x, j) ==
    /\ EventLoopFree
    /\ shares[x] = NoShare
    /\ MayRetain(verifier, j.seed)
    /\ verifier' = RetainSeed(verifier, j.seed)
    /\ shares' = [shares EXCEPT ![x] = [seed |-> j.seed, lease |-> TRUE, verifying |-> FALSE]]
    /\ UNCHANGED <<daemon, refresh, server, deriving, socket, stale, jobs, failures>>
-----------------------------------------------------------------------------
Outstanding == {x \in Shares : shares[x].verifying}

\* submit_verify by the share's worker.
SubmitVerify(x) ==
    /\ shares[x].lease /\ ~shares[x].verifying
    /\ MaySubmit(verifier, shares[x].seed)
    /\ Cardinality(Outstanding) < MaxOutstanding
    /\ verifier' = TrackSubmission(verifier, shares[x].seed)
    /\ shares' = [shares EXCEPT ![x].verifying = TRUE]
    /\ UNCHANGED <<daemon, refresh, server, deriving, socket, stale, jobs, failures>>

\* The verifier thread drains the completion; the worker may have given up.
Completes(x) ==
    /\ shares[x].verifying
    /\ verifier' = CorrelateCompletion(verifier, shares[x].seed)
    /\ shares' = [shares EXCEPT ![x] = IF @.lease THEN [@ EXCEPT !.verifying = FALSE] ELSE NoShare]
    /\ UNCHANGED <<daemon, refresh, server, deriving, socket, stale, jobs, failures>>

\* The lease ends: the share is judged, refused before it was submitted, or
\* its worker threw while the verification was outstanding.
EndLease(x) ==
    /\ shares[x].lease
    /\ verifier' = DropSeedReference(verifier, shares[x].seed)
    /\ shares' = [shares EXCEPT ![x] = IF @.verifying THEN [@ EXCEPT !.lease = FALSE] ELSE NoShare]
    /\ UNCHANGED <<daemon, refresh, server, deriving, socket, stale, jobs, failures>>

-----------------------------------------------------------------------------
Rotate == \/ Fetch \/ Snapshot \/ HoldIssuance \/ Reclaim \/ AwaitReleased \/ Prepare
          \/ WaitAndActivate \/ Prefetch \/ Publish \/ AllowIssuance \/ RetireOldSeed

Next ==
    \/ \E h \in Heights, n \in Hashes \cup {NoSeed} : DaemonMoves(h, n)
    \/ \E s \in SeedIds : NativePrepared(s)
    \/ \E s \in SeedIds : NativePrepareFails(s)
    \/ \E s \in SeedIds : NativeReleased(s)
    \/ Rotate
    \/ \E c \in Connections : BeginJob(c)
    \/ FinishJob
    \/ \E c \in Connections : Close(c)
    \/ \E x \in Shares : \E j \in jobs : Admit(x, j)
    \/ \E x \in Shares : SubmitVerify(x)
    \/ \E x \in Shares : Completes(x)
    \/ \E x \in Shares : EndLease(x)

Spec == Init /\ [][Next]_vars

\* Every thread keeps running: the template thread polls for ever, the event
\* loop serves the connections refresh_jobs marked, workers and the verifier
\* finish, and so does the library.  Nothing else is fair: the daemon, logins,
\* submissions and disconnections need not happen.
Fairness ==
    /\ WF_vars(Rotate)
    /\ \A s \in SeedIds : WF_vars(NativePrepared(s)) /\ WF_vars(NativeReleased(s))
    /\ WF_vars(FinishJob)
    /\ \A c \in Connections : WF_vars(c \in stale /\ (BeginJob(c) \/ (~allowed /\ Close(c))))
    /\ \A x \in Shares : WF_vars(Completes(x)) /\ WF_vars(EndLease(x))

FairSpec == Spec /\ Fairness
-----------------------------------------------------------------------------
JobsOn(s) == {j \in jobs : j.seed = s}
LeasesOn(s) == {x \in Shares : shares[x].seed = s /\ shares[x].lease}
VerificationsOn(s) == {x \in Shares : shares[x].seed = s /\ shares[x].verifying}

InUse(s) == JobsOn(s) \cup LeasesOn(s) \cup VerificationsOn(s) # {}

\* A seed that a live job, an admitted share or an outstanding verification
\* uses is ready in the library and its release has not begun, whatever the
\* template thread requested (maybe_begin_seed_release_locked).  Neither is the
\* seed of a job that make_job is deriving, nor the installed template's while
\* jobs may be issued (job_issuance_mutex_ in refresh_template).  The counters the
\* release decision rests on count exactly the jobs, leases and verifications
\* alive, whichever thread ends first, and no more seeds are resident than there is room.
UsedSeedStaysReady ==
    /\ RotationTypeOK
    /\ \A s \in SeedIds : InUse(s) => IsReady(verifier, s) /\ MayRetain(verifier, s)
    /\ deriving.template # NoTemplate => MayRetain(verifier, deriving.template.seed)
    /\ allowed => MayRetain(verifier, template.seed) /\ IsReady(verifier, template.seed)
    /\ \A s \in SeedIds :
          /\ verifier.seeds[s].references = Cardinality(JobsOn(s)) + Cardinality(LeasesOn(s))
          /\ verifier.seeds[s].tracked = Cardinality(VerificationsOn(s))

\* When the daemon's tip rests, the server ends up on its template: max_seeds
\* is not used up by seeds nobody needs (the loop over resident_seeds in
\* parse_template).  A preparation that failed is not tried again while the
\* template needs it, so nothing is promised then.
TemplateFollowsDaemon == <>[](failures = 0 => template.height = daemon.height)

\* When the tip rests, only the seeds of its template and those still in use
\* stay resident.
ObsoleteSeedsAreReclaimed ==
    <>[](failures = 0 => \A s \in SeedIds :
            Known(verifier, s) =>
                verifier.seeds[s].hash \in {SeedOf(daemon.height), daemon.next} \/ InUse(s))

\* When the tip rests, rotation comes to rest: the template is the daemon's and
\* the seeds are its own.
RotationSettles == TemplateFollowsDaemon /\ ObsoleteSeedsAreReclaimed
=============================================================================
