-------------------------- MODULE ShareAdmissionInv ---------------------------
(***************************************************************************)
(* The inductive invariant of ShareAdmission and the parts it is made of,  *)
(* with the shapes of steps that ShareWorkerProofs and                     *)
(* ShareAdmissionProofs reason about.                                      *)
(***************************************************************************)
EXTENDS ShareAdmission

-----------------------------------------------------------------------------
Entries == [key : Keys, bucket : Buckets, owner : Submissions]

Registries == [entries : SUBSET Entries, buckets : [Buckets -> [references : Nat, retired : BOOLEAN]]]

\* A registry between two calls: no key twice, and not more than fit.
RegistryOK(reg) ==
    /\ reg \in Registries
    /\ IsFiniteSet(reg.entries) /\ Cardinality(reg.entries) <= GlobalCapacity
    /\ \A e, f \in reg.entries : e.key = f.key => e = f

\* The jobs of J that bk puts in bucket b.
JobsIn(J, bk, b) == {j \in J : bk[j] = b}

\* The references of a bucket are the jobs J that bk puts there and the other holders; a
\* bucket without references has no key; one that is in use and not retired has a job,
\* which will retire it.
BucketsOK(reg, J, bk, other) ==
    \A b \in Buckets :
        /\ reg.buckets[b].references = Cardinality(JobsIn(J, bk, b)) + other[b]
        /\ reg.buckets[b].references = 0 => \A e \in reg.entries : e.bucket # b
        /\ reg.buckets[b].references > 0 /\ ~reg.buckets[b].retired => JobsIn(J, bk, b) # {}

\* What is collected had no reference left.
OnlyCollects(reg, after) ==
    /\ after.entries \subseteq reg.entries
    /\ \A e \in reg.entries \ after.entries : after.buckets[e.bucket].references = 0

\* An admitted submission that has no answer yet.
InFlight == {"queued", "reserved", "verifying", "judged"}

LeasesIn(b) == {s \in Submissions : subs[s].lease /\ Bucket(s) = b}

TasksIn(b) == {s \in Submissions : subs[s].task /\ Bucket(s) = b}

WaitingOf(c) == {s \in Verifying : subs[s].conn = c}

FlightOf(c) == {s \in Submissions : subs[s].pc \in InFlight /\ subs[s].conn = c}

\* The entry of a hash of submission s.
Entry(s, hash) == [key |-> Key(s, hash), bucket |-> Bucket(s), owner |-> s]

\* What a submission holds, by where it is.
SubIsConsistent(s) ==
    LET sub == subs[s]
    IN /\ sub.pc = "none" => sub.job = NoJob
       /\ sub.job \in 0..Len(jobs)
       /\ sub.job # NoJob => jobs[sub.job].conn = sub.conn
       /\ sub.lease <=> sub.pc \in InFlight \cup {"completed"} /\ sub.job # NoJob
       /\ sub.task => sub.job # NoJob /\ sub.pc \notin {"none", "queued"}
       /\ sub.local # "none" <=> sub.pc \in {"reserved", "verifying"}
       /\ sub.local # "none" => sub.job # NoJob
       /\ sub.token <=> sub.local = "reserved"
       /\ sub.result # "none" => sub.pc \in {"judged", "completed", "done"}
       /\ sub.result \notin {"none", "accepted"} => sub.pc = "judged"
       /\ sub.result = "accepted" => sub.job # NoJob
       /\ sub.result = "accepted" /\ sub.pc # "judged" => sub.claimed = sub.nonce
       /\ sub.pc = "verifying" => verified
       /\ sub.pc \in {"reserved", "verifying"} /\ sub.task => sub.candidate = "inserted"

\* What a connection still is, by its socket.
ConnIsConsistent(c) ==
    LET conn == connections[c]
    IN /\ conn.accepted_submits = Cardinality(FlightOf(c))
       /\ conn.socket = "new" =>
              conn.row = "none" /\ ~conn.known /\ ~conn.deferred /\ conn.accepted_submits = 0 /\ JobsOf(c) = {}
       /\ conn.socket \in {"open", "overflow"} => conn.row = "open" /\ conn.known /\ ~conn.deferred
       /\ conn.socket = "closing" =>
              IF conn.accepted_submits > 0 THEN conn.row = "open" /\ conn.known /\ conn.deferred
              ELSE conn.row = "closed" /\ ~conn.known /\ ~conn.deferred /\ JobsOf(c) = {}

\* The keys a submission owns, by where it is.
KeysAreOwned(s) ==
    /\ subs[s].pc \in {"none", "queued"} => \A e \in registry.entries : e.owner # s
    /\ subs[s].pc \in {"reserved", "verifying"} =>
           \A e \in registry.entries : e.owner = s => subs[s].token /\ e.key = Key(s, subs[s].claimed)
    /\ subs[s].token => Entry(s, subs[s].claimed) \in registry.entries
    /\ subs[s].result \in {"server_busy", "verifier_failed"} /\ subs[s].claimed = subs[s].nonce =>
           \A e \in registry.entries : e.owner # s

\* The key of a credited share stays until nobody can submit for its job any more.
CreditIsKept(s) ==
    subs[s].result = "accepted" =>
        \/ Entry(s, CreditedHash(s)) \in registry.entries
        \/ subs[s].job \notin live /\ \A t \in Submissions : subs[t].lease => subs[t].job # subs[s].job

EntriesAreOfJobs ==
    \A e \in registry.entries : e.key[1] \in 1..Len(jobs) /\ e.bucket = BucketOf(e.key[1])

Jobs == [conn : Sources, height : Heights]

Connections == [socket : {"new", "open", "overflow", "closing"}, row : {"none", "open", "closed"},
                known : BOOLEAN, latest : Heights \cup {0}, accepted_submits : Nat, deferred : BOOLEAN]

SubStates == [pc : {"none", "queued", "reserved", "verifying", "judged", "completed", "done"},
              conn : Sources, job : JobIds \cup {NoJob}, nonce : Nonces, claimed : Nonces,
              local : {"none", "reserved", "duplicate", "capacity"}, token : BOOLEAN,
              candidate : {"none", "deferred", "inserted", "existing"}, lease : BOOLEAN,
              task : BOOLEAN, result : Results \cup {"none"}]

\* AdmissionTypeOK without the bounds that follow from the counting.
TypeInv ==
    /\ verified \in Modes
    /\ RegistryOK(registry)
    /\ jobs \in Seq(Jobs) /\ Len(jobs) <= MaxJobs
    /\ live \subseteq 1..Len(jobs)
    /\ connections \in [Sources -> Connections]
    /\ pending \in [Sources -> 0..MaxVerifications]
    /\ subs \in [Submissions -> SubStates]
    /\ candidates \subseteq Keys

\* Who refers to a bucket: the live jobs, and the leases and tasks of submissions.
JobBuckets == [j \in 1..Len(jobs) |-> BucketOf(j)]

Holders == [b \in Buckets |-> Cardinality(LeasesIn(b)) + Cardinality(TasksIn(b))]

AdmissionInv ==
    /\ TypeInv /\ ~fatal
    /\ BucketsOK(registry, live, JobBuckets, Holders)
    /\ \A c \in Sources : pending[c] = Cardinality(WaitingOf(c)) /\ ConnIsConsistent(c)
    /\ \A s \in Submissions : SubIsConsistent(s) /\ KeysAreOwned(s) /\ CreditIsKept(s)
    /\ EntriesAreOfJobs

\* Submission s becomes r, which keeps its connection, job, hashes and lease, and stays
\* in flight; the event loop's state is left alone.
WorkerMove(s, r) ==
    /\ subs' = [subs EXCEPT ![s] = r]
    /\ r \in SubStates
    /\ subs[s].pc \in InFlight /\ r.pc \in InFlight
    /\ r.conn = subs[s].conn /\ r.job = subs[s].job /\ r.lease = subs[s].lease
    /\ r.nonce = subs[s].nonce /\ r.claimed = subs[s].claimed
    /\ UNCHANGED <<verified, jobs, live, connections, fatal>>

PendingOK == pending \in [Sources -> 0..MaxVerifications] /\ \A c \in Sources : pending[c] = Cardinality(WaitingOf(c))

\* A submission that reserves nothing and is not judged in this step.
Calm(t) ==
    /\ subs'[t].pc \in {"none", "queued"} => subs[t].pc \in {"none", "queued"}
    /\ subs'[t].pc \in {"reserved", "verifying"} =>
           /\ subs[t].pc \in {"reserved", "verifying"} /\ subs'[t].token = subs[t].token
           /\ subs'[t].job = subs[t].job /\ subs'[t].claimed = subs[t].claimed
    /\ subs'[t].result # "none" => subs'[t].result = subs[t].result
    /\ subs'[t].result = "accepted" =>
           subs'[t].job = subs[t].job /\ (IF verified THEN subs'[t].nonce ELSE subs'[t].claimed) = CreditedHash(t)
    /\ subs'[t].result \notin {"none", "accepted"} =>
           subs'[t].claimed = subs[t].claimed /\ subs'[t].nonce = subs[t].nonce
    /\ subs'[t].lease => (subs[t].lease /\ subs'[t].job = subs[t].job) \/ subs'[t].job \in live

-----------------------------------------------------------------------------
\* The jobs that were made stay what they are.
JobsStay ==
    /\ jobs' \in Seq(Jobs) /\ Len(jobs) <= Len(jobs') /\ Len(jobs') <= MaxJobs
    /\ \A j \in 1..Len(jobs) : jobs'[j] = jobs[j]
    /\ live' \subseteq 1..Len(jobs') /\ \A j \in live' : j \in live \/ j \notin 1..Len(jobs)

===============================================================================
