------------------------- MODULE ShareAdmissionProofs -------------------------
(***************************************************************************)
(* Proofs about ShareAdmission, second part: the other steps keep          *)
(* AdmissionInv, and what follows from it.                                 *)
(***************************************************************************)
EXTENDS ShareWorkerProofs

\* Leaves that need arithmetic or extensionality name SMT; the others are for Zenon.
USE ZenonT(30), SMTT(30)

\* A bucket that a live job or a lease refers to is not collected.
LEMMA HeldIsSpared ==
    ASSUME OnlyCollects(registry, registry'), BucketsOK(registry', live', JobBuckets', Holders'),
           IsFiniteSet(live'), live' \subseteq 1..Len(jobs'), NEW e \in registry.entries, e.bucket \in Buckets,
           \/ \E t \in Submissions : subs'[t].lease /\ Bucket(t)' = e.bucket
           \/ \E j \in live' : BucketOf(j)' = e.bucket
    PROVE  e \in registry'.entries
<1> DEFINE b == e.bucket
           L == {t \in Submissions : subs'[t].lease /\ Bucket(t)' = b}
           T == {t \in Submissions : subs'[t].task /\ Bucket(t)' = b}
           J == JobsIn(live', JobBuckets', b)
<1>1. IsFiniteSet(L) /\ Cardinality(L) \in Nat /\ Cardinality(T) \in Nat
    BY SubmissionsFinite
<1>2. IsFiniteSet(J) /\ Cardinality(J) \in Nat
    <2>1. J \subseteq live'
        BY DEF JobsIn
    <2> QED BY <2>1, FS_Subset, FS_CardinalityType
<1>3. Holders'[b] = Cardinality(L) + Cardinality(T)
    BY DEF Holders, LeasesIn, TasksIn
<1>4. registry'.buckets[b].references = Cardinality(J) + Holders'[b]
    BY DEF BucketsOK
<1>5. L # {} \/ J # {}
    <2>1. ASSUME NEW j \in live', BucketOf(j)' = b PROVE J # {}
        BY <2>1 DEF JobsIn, JobBuckets
    <2>2. ASSUME NEW t \in Submissions, subs'[t].lease, Bucket(t)' = b PROVE L # {}
        BY <2>2
    <2> QED BY <2>1, <2>2
<1>6. Cardinality(L) # 0 \/ Cardinality(J) # 0
    BY <1>1, <1>2, <1>5, CountZero
<1> HIDE DEF L, T, J
<1>7. registry'.buckets[b].references # 0
    BY SMTT(30), <1>1, <1>2, <1>3, <1>4, <1>6
<1> QED BY <1>7 DEF OnlyCollects

\* The keys and the credits, while no submission reserves or is judged.
LEMMA CalmKeys ==
    ASSUME AdmissionInv, JobsStay, verified' = verified, OnlyCollects(registry, registry'),
           BucketsOK(registry', live', JobBuckets', Holders'), RegistryOK(registry'),
           \A t \in Submissions : Calm(t) /\ SubIsConsistent(t)'
    PROVE  EntriesAreOfJobs' /\ \A t \in Submissions : KeysAreOwned(t)' /\ CreditIsKept(t)'
<1>1. TypeInv /\ EntriesAreOfJobs /\ Len(jobs) \in Nat
    BY JobFacts DEF AdmissionInv
<1>2. \A j \in 1..Len(jobs) : j \in 1..Len(jobs') /\ BucketOf(j)' = BucketOf(j) /\ BucketOf(j) \in Buckets
    <2>1. Len(jobs') \in Nat
        BY SMTT(30) DEF JobsStay
    <2>2. \A j \in 1..Len(jobs) : j \in 1..Len(jobs') /\ BucketOf(j)' = BucketOf(j)
        BY SMTT(30), <1>1, <2>1 DEF JobsStay, BucketOf
    <2> QED BY <1>1, <2>2, JobFacts
<1>3. registry'.entries \subseteq registry.entries
    BY DEF OnlyCollects
<1>4. EntriesAreOfJobs'
    BY <1>1, <1>2, <1>3 DEF EntriesAreOfJobs
<1>5. IsFiniteSet(live') /\ live' \subseteq 1..Len(jobs')
    <2>1. IsFiniteSet(1..Len(jobs'))
        BY SMTT(30), FS_Interval DEF JobsStay
    <2> QED BY <2>1, FS_Subset DEF JobsStay
<1>6. ASSUME NEW t \in Submissions PROVE KeysAreOwned(t)' /\ CreditIsKept(t)'
    <2>1. SubIsConsistent(t) /\ KeysAreOwned(t) /\ CreditIsKept(t) /\ Calm(t) /\ SubIsConsistent(t)'
        BY DEF AdmissionInv
    <2>2. ASSUME NEW hash, Entry(t, hash) \in registry.entries, subs'[t].job = subs[t].job, subs[t].job # NoJob,
                 subs[t].job \in live' \/ \E u \in Submissions : subs'[u].lease /\ subs'[u].job = subs[t].job
          PROVE  Entry(t, hash) \in registry'.entries
        <3>1. subs[t].job \in 1..Len(jobs)
            BY <2>2, SubFacts
        <3>2. Entry(t, hash).bucket = BucketOf(subs[t].job)
            BY DEF Entry, Bucket
        <3>5. PICK b \in Buckets : b = BucketOf(subs[t].job)
            BY <1>2, <3>1
        <3>6. subs[t].job \in live' => \E j \in live' : BucketOf(j)' = b
            BY <1>2, <3>1, <3>5
        <3>7. \A u \in Submissions : subs'[u].job = subs[t].job => Bucket(u)' = b
            BY <2>2, <3>1, <3>5 DEF Bucket, BucketOf, JobsStay
        <3> QED BY <1>5, <2>2, <3>2, <3>5, <3>6, <3>7, HeldIsSpared
    <2>3. KeysAreOwned(t)'
        <3>1. subs'[t].token => /\ subs[t].token /\ subs'[t].job = subs[t].job /\ subs'[t].claimed = subs[t].claimed
                                /\ subs[t].job # NoJob /\ subs'[t].lease
            BY <2>1 DEF SubIsConsistent, Calm, InFlight
        <3>2. subs'[t].token => Entry(t, subs[t].claimed) \in registry'.entries
            BY <2>1, <2>2, <3>1 DEF KeysAreOwned
        <3>3. subs'[t].token => Entry(t, subs[t].claimed)' = Entry(t, subs[t].claimed)
            <4> SUFFICES ASSUME subs'[t].token PROVE Entry(t, subs[t].claimed)' = Entry(t, subs[t].claimed)
                OBVIOUS
            <4>1. subs[t].job \in 1..Len(jobs)
                BY <3>1, SubFacts
            <4> QED BY <3>1, <4>1 DEF Entry, Key, Bucket, BucketOf, JobsStay
        <3>4. subs'[t].token => Entry(t, subs[t].claimed)' \in registry'.entries
            BY <3>2, <3>3
        <3>5. subs'[t].pc \in {"none", "queued"} => \A e \in registry'.entries : e.owner # t
            BY <1>3, <2>1 DEF KeysAreOwned, Calm
        <3>6. subs'[t].pc \in {"reserved", "verifying"} =>
                  \A e \in registry'.entries : e.owner = t => subs'[t].token /\ e.key = <<subs'[t].job, subs'[t].claimed>>
            BY SMTT(30), <1>3, <2>1 DEF KeysAreOwned, Calm, Key
        <3>7. subs'[t].result \in {"server_busy", "verifier_failed"} /\ subs'[t].claimed = subs'[t].nonce =>
                  \A e \in registry'.entries : e.owner # t
            BY <1>3, <2>1 DEF KeysAreOwned, Calm
        <3> QED BY <3>4, <3>5, <3>6, <3>7 DEF KeysAreOwned, Key
    <2>4. CreditIsKept(t)'
        <3> SUFFICES ASSUME subs'[t].result = "accepted",
                            subs'[t].job \in live' \/ \E u \in Submissions : subs'[u].lease /\ subs'[u].job = subs'[t].job
                     PROVE  Entry(t, CreditedHash(t))' \in registry'.entries
            BY DEF CreditIsKept
        <3>1. /\ subs[t].result = "accepted" /\ subs'[t].job = subs[t].job
              /\ CreditedHash(t)' = CreditedHash(t) /\ subs[t].job # NoJob
            BY <2>1 DEF Calm, CreditedHash, SubIsConsistent
        <3>2. subs[t].job \in 1..Len(jobs)
            BY <3>1, SubFacts
        <3>3. \A u \in Submissions : Calm(u)
            OBVIOUS
        <3>4. subs[t].job \in live \/ \E u \in Submissions : subs[u].lease /\ subs[u].job = subs[t].job
            BY SMTT(30), <3>1, <3>2, <3>3 DEF JobsStay, Calm
        <3>5. Entry(t, CreditedHash(t)) \in registry.entries
            BY <2>1, <3>1, <3>4 DEF CreditIsKept
        <3>6. Entry(t, CreditedHash(t)) \in registry'.entries
            BY <2>2, <3>1, <3>5
        <3>7. Entry(t, CreditedHash(t))' = Entry(t, CreditedHash(t))
            BY <3>1, <3>2 DEF Entry, Key, Bucket, BucketOf, JobsStay
        <3> QED BY <3>6, <3>7
    <2> QED BY <2>3, <2>4
<1> QED BY <1>4, <1>6

LEMMA CalmInv ==
    ASSUME AdmissionInv, JobsStay, UNCHANGED <<verified, candidates, fatal>>, OnlyCollects(registry, registry'),
           BucketsOK(registry', live', JobBuckets', Holders'), RegistryOK(registry'),
           connections' \in [Sources -> Connections], subs' \in [Submissions -> SubStates], PendingOK',
           \A c \in Sources : ConnIsConsistent(c)', \A t \in Submissions : Calm(t) /\ SubIsConsistent(t)'
    PROVE  AdmissionInv'
<1>1. EntriesAreOfJobs' /\ \A t \in Submissions : KeysAreOwned(t)' /\ CreditIsKept(t)'
    BY CalmKeys
<1>2. TypeInv' /\ ~fatal'
    BY DEF AdmissionInv, TypeInv, JobsStay, PendingOK
<1> QED BY <1>1, <1>2 DEF AdmissionInv, PendingOK

\* Steps that do not concern the connections.
LEMMA ConnsAside ==
    ASSUME AdmissionInv, UNCHANGED <<connections, live, jobs, pending>>,
           \A t \in Submissions : /\ subs'[t].conn = subs[t].conn
                                  /\ subs'[t].pc \in InFlight <=> subs[t].pc \in InFlight
                                  /\ subs'[t].pc = "verifying" <=> subs[t].pc = "verifying"
    PROVE  /\ JobsStay /\ PendingOK' /\ connections' \in [Sources -> Connections]
           /\ \A c \in Sources : ConnIsConsistent(c)'
           /\ JobBuckets' = JobBuckets
<1>1. \A c \in Sources : FlightOf(c)' = FlightOf(c) /\ WaitingOf(c)' = WaitingOf(c) /\ JobsOf(c)' = JobsOf(c)
    BY DEF FlightOf, WaitingOf, Verifying, JobsOf
<1>2. JobsStay
    BY SMTT(30) DEF JobsStay, AdmissionInv, TypeInv
<1>3. PendingOK'
    BY <1>1 DEF PendingOK, AdmissionInv, TypeInv
<1>4. \A c \in Sources : ConnIsConsistent(c)'
    BY <1>1 DEF ConnIsConsistent, AdmissionInv
<1>5. JobBuckets' = JobBuckets
    BY DEF JobBuckets, BucketOf
<1> QED BY <1>2, <1>3, <1>4, <1>5 DEF AdmissionInv, TypeInv

\* A lease or a task ends.
LEMMA HoldersEnd ==
    ASSUME AdmissionInv, NEW s \in Submissions, jobs' = jobs, NEW b \in Buckets, b = Bucket(s),
           \A t \in Submissions \ {s} : subs'[t] = subs[t],
           \/ /\ subs[s].lease /\ ~subs'[s].lease /\ subs'[s].task = subs[s].task
              /\ subs[s].task => subs'[s].job = subs[s].job
           \/ /\ subs[s].task /\ ~subs'[s].task /\ subs'[s].lease = subs[s].lease
              /\ subs'[s].job = subs[s].job
    PROVE  Holders' = [Holders EXCEPT ![b] = @ - 1]
<1>1. \A t \in Submissions : subs'[t].job = subs[t].job => Bucket(t)' = Bucket(t)
    BY DEF Bucket, BucketOf
<1>2. /\ Holders = [a \in Buckets |-> Cardinality(LeasesIn(a)) + Cardinality(TasksIn(a))]
      /\ Holders' = [a \in Buckets |-> Cardinality(LeasesIn(a)') + Cardinality(TasksIn(a)')]
    BY DEF Holders
<1>3. \A a \in Buckets : /\ IsFiniteSet(LeasesIn(a)) /\ IsFiniteSet(TasksIn(a))
                         /\ Cardinality(LeasesIn(a)) \in Nat /\ Cardinality(TasksIn(a)) \in Nat
    BY SubmissionsFinite DEF LeasesIn, TasksIn
<1>4. \A a \in Buckets \ {b} : LeasesIn(a)' = LeasesIn(a) /\ TasksIn(a)' = TasksIn(a)
    BY <1>1 DEF LeasesIn, TasksIn
<1>5. \/ LeasesIn(b)' = LeasesIn(b) \ {s} /\ s \in LeasesIn(b) /\ TasksIn(b)' = TasksIn(b)
      \/ TasksIn(b)' = TasksIn(b) \ {s} /\ s \in TasksIn(b) /\ LeasesIn(b)' = LeasesIn(b)
    BY <1>1 DEF LeasesIn, TasksIn
<1>6. \/ Cardinality(LeasesIn(b)') = Cardinality(LeasesIn(b)) - 1 /\ Cardinality(TasksIn(b)') = Cardinality(TasksIn(b))
      \/ Cardinality(TasksIn(b)') = Cardinality(TasksIn(b)) - 1 /\ Cardinality(LeasesIn(b)') = Cardinality(LeasesIn(b))
    BY <1>3, <1>5, CountDown
<1>7. Holders'[b] = Holders[b] - 1
    BY SMTT(30), <1>2, <1>3, <1>6
<1>8. \A a \in Buckets \ {b} : Holders'[a] = Holders[a]
    BY <1>2, <1>4
<1> QED BY <1>2, <1>7, <1>8

LEMMA CandidateDoneInv ==
    ASSUME AdmissionInv, NEW s \in Submissions, CandidateDone(s), verified' = verified PROVE AdmissionInv'
<1> DEFINE r == [subs[s] EXCEPT !.task = FALSE]
<1>1. /\ subs[s].task /\ registry' = ReleaseHeight(registry, Bucket(s)) /\ subs' = [subs EXCEPT ![s] = r]
      /\ UNCHANGED <<verified, jobs, live, connections, pending, candidates, fatal>>
    BY DEF CandidateDone
<1>2. /\ subs \in [Submissions -> SubStates] /\ RegistryOK(registry) /\ SubIsConsistent(s)
      /\ BucketsOK(registry, live, JobBuckets, Holders)
      /\ IsFiniteSet(live) /\ Holders \in [Buckets -> Nat]
    BY JobFacts, HoldersType DEF AdmissionInv, TypeInv
<1>3. /\ r \in SubStates /\ r.pc = subs[s].pc /\ r.conn = subs[s].conn /\ r.job = subs[s].job
      /\ r.lease = subs[s].lease /\ r.nonce = subs[s].nonce /\ r.claimed = subs[s].claimed
      /\ r.local = subs[s].local /\ r.token = subs[s].token /\ r.result = subs[s].result
      /\ r.task = FALSE
    BY <1>2 DEF SubStates
<1> HIDE DEF r
<1>4. subs' \in [Submissions -> SubStates] /\ subs'[s] = r /\ \A t \in Submissions \ {s} : subs'[t] = subs[t]
    BY <1>1, <1>2, <1>3
<1>5. PICK b \in Buckets : b = Bucket(s) /\ Holders[b] > 0
    BY <1>1, HeldBuckets
<1>6. Holders' = [Holders EXCEPT ![b] = @ - 1]
    BY <1>1, <1>3, <1>4, <1>5, HoldersEnd
<1>7. RegistryOK(registry') /\ BucketsOK(registry', live, JobBuckets, Holders') /\ OnlyCollects(registry, registry')
    BY <1>1, <1>2, <1>5, <1>6, ReleaseForHolder
<1>8. \A t \in Submissions : /\ subs'[t].conn = subs[t].conn /\ subs'[t].pc = subs[t].pc
    BY <1>3, <1>4
<1>9. /\ JobsStay /\ PendingOK' /\ connections' \in [Sources -> Connections] /\ JobBuckets' = JobBuckets
      /\ \A c \in Sources : ConnIsConsistent(c)'
    BY <1>1, <1>8, ConnsAside
<1>10. \A t \in Submissions : Calm(t)
    BY <1>3, <1>4 DEF Calm, CreditedHash
<1>11. ASSUME NEW t \in Submissions PROVE SubIsConsistent(t)'
    <2>1. SubIsConsistent(t)
        BY DEF AdmissionInv
    <2> QED BY SMTT(30), <1>1, <1>3, <1>4, <2>1 DEF SubIsConsistent
<1> QED BY <1>1, <1>4, <1>7, <1>9, <1>10, <1>11, CalmInv

LEMMA DropLeaseInv ==
    ASSUME AdmissionInv, NEW s \in Submissions, DropLease(s), verified' = verified PROVE AdmissionInv'
<1> DEFINE job == IF Outlives(s) THEN subs[s].job ELSE NoJob
           r == [subs[s] EXCEPT !.pc = "done", !.lease = FALSE, !.job = IF Outlives(s) THEN subs[s].job ELSE NoJob]
<1>1. /\ subs[s].pc = "completed" /\ subs' = [subs EXCEPT ![s] = r]
      /\ registry' = IF subs[s].lease THEN ReleaseHeight(registry, Bucket(s)) ELSE registry
      /\ UNCHANGED <<verified, jobs, live, connections, pending, candidates, fatal>>
    BY DEF DropLease
<1>2. /\ subs \in [Submissions -> SubStates] /\ RegistryOK(registry) /\ SubIsConsistent(s)
      /\ BucketsOK(registry, live, JobBuckets, Holders)
      /\ IsFiniteSet(live) /\ Holders \in [Buckets -> Nat]
    BY JobFacts, HoldersType DEF AdmissionInv, TypeInv
<1>3. /\ job \in {subs[s].job, NoJob} /\ job \in JobIds \cup {NoJob}
      /\ subs[s].task \/ subs[s].result = "accepted" => job = subs[s].job
    BY <1>2 DEF Outlives, SubStates
<1>4. /\ r \in SubStates /\ r.pc = "done" /\ r.conn = subs[s].conn /\ r.job = job
      /\ r.lease = FALSE /\ r.nonce = subs[s].nonce /\ r.claimed = subs[s].claimed
      /\ r.local = subs[s].local /\ r.token = subs[s].token /\ r.result = subs[s].result
      /\ r.task = subs[s].task
    <2> DEFINE q == [subs[s] EXCEPT !.pc = "done", !.lease = FALSE, !.job = job]
    <2>1. subs[s] \in SubStates
        BY <1>2
    <2>2. r = q
        BY <2>1 DEF SubStates
    <2> HIDE DEF job, r
    <2> QED BY <1>3, <2>1, <2>2 DEF SubStates
<1> HIDE DEF r, job
<1>5. subs' \in [Submissions -> SubStates] /\ subs'[s] = r /\ \A t \in Submissions \ {s} : subs'[t] = subs[t]
    BY <1>1, <1>2, <1>4
<1>6. RegistryOK(registry') /\ BucketsOK(registry', live, JobBuckets, Holders') /\ OnlyCollects(registry, registry')
    <2>1. CASE subs[s].lease
        <3>1. PICK b \in Buckets : b = Bucket(s) /\ Holders[b] > 0
            BY <2>1, HeldBuckets
        <3>2. Holders' = [Holders EXCEPT ![b] = @ - 1]
            BY <1>1, <1>3, <1>4, <1>5, <2>1, <3>1, HoldersEnd
        <3> QED BY <1>1, <1>2, <2>1, <3>1, <3>2, ReleaseForHolder
    <2>2. CASE ~subs[s].lease
        <3>1. \A t \in Submissions : /\ subs'[t].lease = subs[t].lease /\ subs'[t].task = subs[t].task
                                     /\ subs[t].lease \/ subs[t].task => Bucket(t)' = Bucket(t)
            BY SMTT(30), <1>1, <1>2, <1>3, <1>4, <1>5, <2>2 DEF Bucket, BucketOf, SubStates
        <3>2. \A b \in Buckets : LeasesIn(b)' = LeasesIn(b) /\ TasksIn(b)' = TasksIn(b)
            BY <3>1 DEF LeasesIn, TasksIn
        <3>3. Holders' = Holders
            BY <3>2 DEF Holders
        <3> QED BY <1>1, <1>2, <2>2, <3>3 DEF OnlyCollects
    <2> QED BY <2>1, <2>2
<1>7. \A t \in Submissions : /\ subs'[t].conn = subs[t].conn
                             /\ subs'[t].pc \in InFlight <=> subs[t].pc \in InFlight
                             /\ subs'[t].pc = "verifying" <=> subs[t].pc = "verifying"
    BY <1>1, <1>4, <1>5 DEF InFlight
<1>8. /\ JobsStay /\ PendingOK' /\ connections' \in [Sources -> Connections] /\ JobBuckets' = JobBuckets
      /\ \A c \in Sources : ConnIsConsistent(c)'
    BY <1>1, <1>7, ConnsAside
<1>9. \A t \in Submissions : Calm(t)
    BY <1>1, <1>3, <1>4, <1>5 DEF Calm, CreditedHash
<1>10. ASSUME NEW t \in Submissions PROVE SubIsConsistent(t)'
    <2>1. SubIsConsistent(t) /\ Len(jobs) \in Nat
        BY JobFacts DEF AdmissionInv
    <2>2. CASE t = s
        <3>1. /\ subs[s].local = "none" /\ ~subs[s].token /\ subs[s].result \in {"none", "accepted"}
              /\ subs[s].job \in 0..Len(jobs) /\ job \in 0..Len(jobs)
            BY SMTT(30), <1>1, <1>2, <1>3, <2>1 DEF SubIsConsistent, NoJob
        <3> QED BY <1>1, <1>2, <1>3, <1>4, <1>5, <2>2, <3>1 DEF SubIsConsistent, InFlight
    <2>3. CASE t # s
        BY SMTT(30), <1>1, <1>5, <2>1, <2>3 DEF SubIsConsistent
    <2> QED BY <2>2, <2>3
<1> QED BY <1>1, <1>5, <1>6, <1>8, <1>9, <1>10, CalmInv

\* retire_job_context counts the jobs of a bucket.
LEMMA RetireJobsIsCounted ==
    ASSUME NEW reg, NEW J, NEW bk, \A j \in J : bk[j] = BucketOf(j)
    PROVE  RetireJobs(reg, J) = RetireHeights(reg, [b \in Buckets |-> Cardinality(JobsIn(J, bk, b))])
<1>1. \A b \in Buckets : {j \in J : BucketOf(j) = b} = JobsIn(J, bk, b)
    BY DEF JobsIn
<1>2. [b \in Buckets |-> Cardinality({j \in J : BucketOf(j) = b})] = [b \in Buckets |-> Cardinality(JobsIn(J, bk, b))]
    BY <1>1
<1> QED BY <1>2 DEF RetireJobs

\* What a connection held is given up.
LEMMA GivesUp ==
    ASSUME AdmissionInv, NEW c \in Sources, NEW conn \in Connections, GiveUp(c, conn), jobs' = jobs,
           Holders' = Holders, WaitingOf(c) = {}, \A d \in Sources : WaitingOf(d)' = WaitingOf(d)
    PROVE  /\ RegistryOK(registry') /\ BucketsOK(registry', live', JobBuckets', Holders')
           /\ OnlyCollects(registry, registry') /\ JobsStay /\ PendingOK'
           /\ JobsOf(c)' = {} /\ \A d \in Sources \ {c} : JobsOf(d)' = JobsOf(d) /\ connections'[d] = connections[d]
           /\ connections' \in [Sources -> Connections]
           /\ connections'[c].socket = conn.socket /\ connections'[c].accepted_submits = conn.accepted_submits
           /\ connections'[c].row = "closed" /\ ~connections'[c].known /\ ~connections'[c].deferred
<1> DEFINE K == JobsOf(c)
           r == [conn EXCEPT !.known = FALSE, !.row = "closed", !.deferred = FALSE]
<1>1. /\ registry' = RetireJobs(registry, K) /\ live' = live \ K /\ pending' = [pending EXCEPT ![c] = 0]
      /\ connections' = [connections EXCEPT ![c] = r]
    BY DEF GiveUp
<1>2. /\ RegistryOK(registry) /\ BucketsOK(registry, live, JobBuckets, Holders) /\ IsFiniteSet(live)
      /\ connections \in [Sources -> Connections] /\ pending \in [Sources -> 0..MaxVerifications]
      /\ Holders \in [Buckets -> Nat] /\ MaxVerifications \in Nat
    BY JobFacts, HoldersType, AdmissionAssumption DEF AdmissionInv, TypeInv
<1>3. K \in SUBSET live /\ \A j \in K : JobBuckets[j] = BucketOf(j)
    BY JobFacts DEF JobsOf, AdmissionInv
<1>4. registry' = RetireHeights(registry, [b \in Buckets |-> Cardinality(JobsIn(K, JobBuckets, b))])
    BY <1>1, <1>3, RetireJobsIsCounted
<1>5. RegistryOK(registry') /\ BucketsOK(registry', live \ K, JobBuckets, Holders) /\ OnlyCollects(registry, registry')
    <2> HIDE DEF K
    <2>1. LET after == RetireHeights(registry, [b \in Buckets |-> Cardinality(JobsIn(K, JobBuckets, b))])
          IN RegistryOK(after) /\ BucketsOK(after, live \ K, JobBuckets, Holders) /\ OnlyCollects(registry, after)
        BY SMTT(30), <1>2, <1>3, RetireForJobs
    <2> QED BY <1>4, <2>1
<1>6. JobBuckets' = JobBuckets
    BY DEF JobBuckets, BucketOf
<1>7. JobsOf(c)' = {} /\ \A d \in Sources \ {c} : JobsOf(d)' = JobsOf(d)
    BY <1>1 DEF JobsOf
<1>8. JobsStay
    BY SMTT(30), <1>1 DEF JobsStay, AdmissionInv, TypeInv
<1>9. PendingOK'
    <2>1. Cardinality({}) = 0
        BY FS_EmptySet
    <2>2. pending' \in [Sources -> 0..MaxVerifications] /\ pending'[c] = 0 /\ \A d \in Sources \ {c} : pending'[d] = pending[d]
        BY SMTT(30), <1>1, <1>2
    <2>3. \A d \in Sources : pending[d] = Cardinality(WaitingOf(d))
        BY DEF AdmissionInv
    <2>4. \A d \in Sources : pending'[d] = Cardinality(WaitingOf(d))
        BY <2>1, <2>2, <2>3
    <2>5. \A d \in Sources : pending'[d] = Cardinality(WaitingOf(d)')
        BY <2>4
    <2> QED BY <2>2, <2>5 DEF PendingOK
<1>10. /\ r \in Connections /\ r.socket = conn.socket /\ r.accepted_submits = conn.accepted_submits
       /\ r.row = "closed" /\ ~r.known /\ ~r.deferred
    BY DEF Connections
<1> HIDE DEF r
<1>11. connections' \in [Sources -> Connections] /\ connections'[c] = r /\ \A d \in Sources \ {c} : connections'[d] = connections[d]
    BY <1>1, <1>2, <1>10
<1>12. BucketsOK(registry', live', JobBuckets', Holders')
    BY <1>1, <1>5, <1>6
<1> QED BY <1>5, <1>7, <1>8, <1>9, <1>10, <1>11, <1>12

\* What is remembered of an answered submission.
LEMMA AnsweredFields ==
    ASSUME NEW s \in Submissions, subs[s] \in SubStates
    PROVE  /\ Answered(s) \in SubStates /\ Answered(s).pc = "completed" /\ Answered(s).conn = subs[s].conn
           /\ Answered(s).job = subs[s].job /\ Answered(s).lease = subs[s].lease /\ Answered(s).task = subs[s].task
           /\ Answered(s).local = "none" /\ ~Answered(s).token
           /\ Answered(s).result = IF subs[s].result = "accepted" THEN "accepted" ELSE "none"
           /\ subs[s].result = "accepted" => Answered(s).nonce = CreditedHash(s) /\ Answered(s).claimed = CreditedHash(s)
<1> DEFINE sub == [NoSubmission EXCEPT !.pc = "completed", !.conn = subs[s].conn, !.job = subs[s].job,
                                       !.lease = subs[s].lease, !.task = subs[s].task]
           acc == [sub EXCEPT !.result = "accepted", !.nonce = CreditedHash(s), !.claimed = CreditedHash(s)]
<1>1. NoSubmission \in SubStates /\ NoSubmission.local = "none" /\ ~NoSubmission.token /\ NoSubmission.result = "none"
    BY NoSubmissionType DEF NoSubmission
<1>2. /\ sub \in SubStates /\ sub.pc = "completed" /\ sub.conn = subs[s].conn /\ sub.job = subs[s].job
      /\ sub.lease = subs[s].lease /\ sub.task = subs[s].task /\ sub.local = "none" /\ ~sub.token /\ sub.result = "none"
    BY <1>1 DEF SubStates
<1>3. CreditedHash(s) \in Nonces
    BY DEF CreditedHash, SubStates
<1>4. Answered(s) = IF subs[s].result # "accepted" THEN sub ELSE acc
    BY DEF Answered
<1> HIDE DEF sub
<1>5. /\ acc \in SubStates /\ acc.pc = "completed" /\ acc.conn = subs[s].conn /\ acc.job = subs[s].job
      /\ acc.lease = subs[s].lease /\ acc.task = subs[s].task /\ acc.local = "none" /\ ~acc.token
      /\ acc.result = "accepted" /\ acc.nonce = CreditedHash(s) /\ acc.claimed = CreditedHash(s)
    BY <1>2, <1>3 DEF SubStates, Results
<1> HIDE DEF acc
<1> QED BY <1>2, <1>4, <1>5

LEMMA CompleteInv ==
    ASSUME AdmissionInv, NEW s \in Submissions, Complete(s), verified' = verified PROVE AdmissionInv'
<1> DEFINE r == Answered(s)
<1>1. PICK c \in Sources : c = subs[s].conn
    BY DEF AdmissionInv, TypeInv, SubStates
<1> DEFINE conn == [connections[c] EXCEPT !.accepted_submits = @ - 1]
<1>2. /\ subs[s].pc = "judged" /\ subs' = [subs EXCEPT ![s] = r]
      /\ IF CloseOwed(c) THEN GiveUp(c, conn)
         ELSE connections' = [connections EXCEPT ![c] = conn] /\ UNCHANGED <<registry, live, pending>>
      /\ UNCHANGED <<verified, jobs, candidates, fatal>>
    BY <1>1 DEF Complete
<1>3. /\ subs \in [Submissions -> SubStates] /\ connections \in [Sources -> Connections]
      /\ RegistryOK(registry) /\ BucketsOK(registry, live, JobBuckets, Holders)
      /\ ConnIsConsistent(c) /\ SubIsConsistent(s)
    BY DEF AdmissionInv, TypeInv
<1>4. /\ r \in SubStates /\ r.pc = "completed" /\ r.conn = subs[s].conn
      /\ r.job = subs[s].job /\ r.lease = subs[s].lease /\ r.task = subs[s].task
      /\ r.local = "none" /\ ~r.token
      /\ r.result = IF subs[s].result = "accepted" THEN "accepted" ELSE "none"
      /\ subs[s].result = "accepted" => r.nonce = CreditedHash(s) /\ r.claimed = CreditedHash(s)
    BY <1>3, AnsweredFields
<1> HIDE DEF r
<1>5. subs' \in [Submissions -> SubStates] /\ subs'[s] = r /\ \A t \in Submissions \ {s} : subs'[t] = subs[t]
    BY <1>2, <1>3, <1>4
<1>6. Holders' = Holders
    <2>1. \A t \in Submissions : /\ subs'[t].lease = subs[t].lease /\ subs'[t].task = subs[t].task
                                 /\ Bucket(t)' = Bucket(t)
        BY <1>2, <1>4, <1>5 DEF Bucket, BucketOf
    <2>2. \A b \in Buckets : LeasesIn(b)' = LeasesIn(b) /\ TasksIn(b)' = TasksIn(b)
        BY <2>1 DEF LeasesIn, TasksIn
    <2> QED BY <2>2 DEF Holders
<1>7. \A d \in Sources : WaitingOf(d)' = WaitingOf(d)
    BY <1>2, <1>4, <1>5 DEF WaitingOf, Verifying
<1>8. FlightOf(c)' = FlightOf(c) \ {s} /\ s \in FlightOf(c) /\ \A d \in Sources \ {c} : FlightOf(d)' = FlightOf(d)
    BY <1>1, <1>2, <1>4, <1>5 DEF FlightOf, InFlight
<1>9. /\ Cardinality(FlightOf(c)) \in Nat /\ IsFiniteSet(FlightOf(c))
      /\ Cardinality(FlightOf(c)') = Cardinality(FlightOf(c)) - 1 /\ Cardinality(FlightOf(c)) # 0
    <2>1. Cardinality(FlightOf(c)) \in Nat /\ IsFiniteSet(FlightOf(c))
        BY SubmissionsFinite DEF FlightOf
    <2> QED BY <1>8, <2>1, CountDown, CountZero
<1>10. connections[c].accepted_submits = Cardinality(FlightOf(c)) /\ connections[c].accepted_submits \in Nat
    BY <1>3, <1>9 DEF ConnIsConsistent
<1>11. /\ conn \in Connections /\ conn.accepted_submits = connections[c].accepted_submits - 1
       /\ conn.socket = connections[c].socket /\ conn.row = connections[c].row /\ conn.known = connections[c].known
       /\ conn.deferred = connections[c].deferred
    <2>1. connections[c] \in Connections /\ connections[c].accepted_submits - 1 \in Nat
        BY SMTT(30), <1>3, <1>9, <1>10
    <2> QED BY <2>1 DEF Connections
<1> HIDE DEF conn
<1>12. \A t \in Submissions : Calm(t)
    BY <1>2, <1>4, <1>5 DEF Calm, CreditedHash
<1>13. ASSUME NEW t \in Submissions PROVE SubIsConsistent(t)'
    <2>1. SubIsConsistent(t)
        BY DEF AdmissionInv
    <2> QED BY SMTT(30), <1>2, <1>4, <1>5, <2>1 DEF SubIsConsistent, InFlight
<1>14. connections[c].socket \in {"new", "open", "overflow", "closing"}
    BY <1>3 DEF Connections
<1>15. CASE CloseOwed(c)
    <2>1. connections[c].accepted_submits = 1 /\ connections[c].deferred
        BY <1>15 DEF CloseOwed
    <2>2. Cardinality(FlightOf(c) \ {s}) = 0 /\ IsFiniteSet(FlightOf(c) \ {s})
        BY SMTT(30), <1>8, <1>9, <1>10, <2>1, FS_Subset
    <2>3. FlightOf(c) \ {s} = {}
        BY <2>2, CountZero
    <2>4. WaitingOf(c) = {}
        BY <1>2, <2>3 DEF WaitingOf, Verifying, FlightOf, InFlight
    <2>5. /\ RegistryOK(registry') /\ BucketsOK(registry', live', JobBuckets', Holders')
          /\ OnlyCollects(registry, registry') /\ JobsStay /\ PendingOK'
          /\ JobsOf(c)' = {} /\ \A d \in Sources \ {c} : JobsOf(d)' = JobsOf(d) /\ connections'[d] = connections[d]
          /\ connections' \in [Sources -> Connections]
          /\ connections'[c].socket = conn.socket /\ connections'[c].accepted_submits = conn.accepted_submits
          /\ connections'[c].row = "closed" /\ ~connections'[c].known /\ ~connections'[c].deferred
        BY <1>2, <1>6, <1>7, <1>11, <1>15, <2>4, GivesUp
    <2>6. connections[c].socket = "closing"
        BY <1>3, <1>14, <2>1 DEF ConnIsConsistent
    <2>7. ConnIsConsistent(c)'
        <3>1. /\ connections'[c].socket = "closing" /\ connections'[c].row = "closed"
              /\ ~connections'[c].known /\ ~connections'[c].deferred /\ JobsOf(c)' = {}
              /\ connections'[c].accepted_submits = conn.accepted_submits
            BY <1>11, <2>5, <2>6
        <3>2. conn.accepted_submits = 0 /\ Cardinality(FlightOf(c)') = 0
            BY SMTT(30), <1>9, <1>10, <1>11, <2>1
        <3> QED BY SMTT(30), <3>1, <3>2 DEF ConnIsConsistent
    <2>8. \A d \in Sources \ {c} : ConnIsConsistent(d)'
        BY SMTT(30), <1>8, <2>5 DEF ConnIsConsistent, AdmissionInv
    <2> QED BY <1>2, <1>5, <1>12, <1>13, <2>5, <2>7, <2>8, CalmInv
<1>16. CASE ~CloseOwed(c)
    <2>1. connections' = [connections EXCEPT ![c] = conn] /\ UNCHANGED <<registry, live, pending>>
        BY <1>2, <1>16
    <2>2. connections' \in [Sources -> Connections] /\ connections'[c] = conn /\ \A d \in Sources \ {c} : connections'[d] = connections[d]
        BY <1>3, <1>11, <2>1
    <2>3. JobBuckets' = JobBuckets /\ \A d \in Sources : JobsOf(d)' = JobsOf(d)
        BY <1>2, <2>1 DEF JobBuckets, BucketOf, JobsOf
    <2>4. JobsStay
        BY SMTT(30), <1>2, <2>1 DEF JobsStay, AdmissionInv, TypeInv
    <2>5. PendingOK'
        BY <1>7, <2>1 DEF PendingOK, AdmissionInv, TypeInv
    <2>6. conn.accepted_submits = Cardinality(FlightOf(c)')
        BY <1>9, <1>10, <1>11
    <2>7. connections[c].deferred => connections[c].accepted_submits # 1
        BY <1>16 DEF CloseOwed
    <2>8. ConnIsConsistent(c)'
        <3>1. connections[c].accepted_submits > 0
            BY SMTT(30), <1>9, <1>10
        <3>2. connections[c].socket # "new"
            BY SMTT(30), <1>3, <3>1 DEF ConnIsConsistent
        <3>3. connections[c].socket = "closing" => conn.accepted_submits > 0 /\ conn.row = "open" /\ conn.known /\ conn.deferred
            BY SMTT(30), <1>3, <1>10, <1>11, <2>7, <3>1 DEF ConnIsConsistent
        <3>4. connections[c].socket \in {"open", "overflow"} => conn.row = "open" /\ conn.known /\ ~conn.deferred
            BY <1>3, <1>11 DEF ConnIsConsistent
        <3> QED BY <1>11, <1>14, <2>2, <2>6, <3>2, <3>3, <3>4 DEF ConnIsConsistent
    <2>9. \A d \in Sources \ {c} : ConnIsConsistent(d)'
        BY SMTT(30), <1>8, <2>2, <2>3 DEF ConnIsConsistent, AdmissionInv
    <2>10. OnlyCollects(registry, registry') /\ RegistryOK(registry') /\ BucketsOK(registry', live', JobBuckets', Holders')
        BY <1>3, <1>6, <2>1, <2>3 DEF OnlyCollects
    <2> QED BY <1>2, <1>5, <1>12, <1>13, <2>2, <2>4, <2>5, <2>8, <2>9, <2>10, CalmInv
<1> QED BY <1>15, <1>16

\* Steps in which no submission moves.
LEMMA SubsAside ==
    ASSUME AdmissionInv, JobsStay, UNCHANGED <<verified, subs>>
    PROVE  /\ Holders' = Holders /\ subs' \in [Submissions -> SubStates]
           /\ \A c \in Sources : FlightOf(c)' = FlightOf(c) /\ WaitingOf(c)' = WaitingOf(c)
           /\ \A t \in Submissions : Calm(t) /\ SubIsConsistent(t)'
<1>1. /\ subs' \in [Submissions -> SubStates]
      /\ \A c \in Sources : FlightOf(c)' = FlightOf(c) /\ WaitingOf(c)' = WaitingOf(c)
    BY DEF FlightOf, WaitingOf, Verifying, AdmissionInv, TypeInv
<1>2. ASSUME NEW t \in Submissions PROVE Calm(t) /\ SubIsConsistent(t)'
    <2>1. SubIsConsistent(t) /\ Len(jobs) \in Nat /\ Len(jobs') \in Nat
        BY SMTT(30), JobFacts DEF AdmissionInv, JobsStay
    <2>2. subs[t].job \in 0..Len(jobs') /\ (subs[t].job # NoJob => jobs'[subs[t].job].conn = subs[t].conn)
        BY SMTT(30), <2>1 DEF SubIsConsistent, JobsStay, NoJob
    <2>3. SubIsConsistent(t)'
        BY <2>1, <2>2 DEF SubIsConsistent
    <2>4. Calm(t)
        BY DEF Calm, CreditedHash
    <2> QED BY <2>3, <2>4
<1>3. \A t \in Submissions : subs[t].lease \/ subs[t].task => Bucket(t)' = Bucket(t)
    BY SubFacts, HeldBuckets DEF Bucket, BucketOf, JobsStay
<1>4. \A b \in Buckets : LeasesIn(b)' = LeasesIn(b) /\ TasksIn(b)' = TasksIn(b)
    BY <1>3 DEF LeasesIn, TasksIn
<1>5. Holders' = Holders
    BY <1>4 DEF Holders
<1> QED BY <1>1, <1>2, <1>5

LEMMA OpenInv ==
    ASSUME AdmissionInv, NEW c \in Sources, Open(c), verified' = verified PROVE AdmissionInv'
<1> DEFINE r == [connections[c] EXCEPT !.socket = "open", !.row = "open", !.known = TRUE]
<1>1. /\ connections[c].socket = "new" /\ connections' = [connections EXCEPT ![c] = r]
      /\ UNCHANGED <<verified, registry, jobs, live, pending, subs, candidates, fatal>>
    BY DEF Open
<1>2. /\ connections \in [Sources -> Connections] /\ ConnIsConsistent(c)
      /\ RegistryOK(registry) /\ BucketsOK(registry, live, JobBuckets, Holders)
    BY DEF AdmissionInv, TypeInv
<1>3. /\ r \in Connections /\ r.socket = "open" /\ r.row = "open" /\ r.known
      /\ r.accepted_submits = connections[c].accepted_submits /\ r.deferred = connections[c].deferred
    BY <1>2 DEF Connections
<1> HIDE DEF r
<1>4. connections' \in [Sources -> Connections] /\ connections'[c] = r /\ \A d \in Sources \ {c} : connections'[d] = connections[d]
    BY <1>1, <1>2, <1>3
<1>5. JobsStay
    BY SMTT(30), <1>1 DEF JobsStay, AdmissionInv, TypeInv
<1>6. /\ Holders' = Holders /\ subs' \in [Submissions -> SubStates]
      /\ \A d \in Sources : FlightOf(d)' = FlightOf(d) /\ WaitingOf(d)' = WaitingOf(d)
      /\ \A t \in Submissions : Calm(t) /\ SubIsConsistent(t)'
    BY <1>1, <1>5, SubsAside
<1>7. JobBuckets' = JobBuckets /\ \A d \in Sources : JobsOf(d)' = JobsOf(d)
    BY <1>1 DEF JobBuckets, BucketOf, JobsOf
<1>8. PendingOK'
    BY <1>1, <1>6 DEF PendingOK, AdmissionInv, TypeInv
<1>9. \A d \in Sources : ConnIsConsistent(d)'
    BY SMTT(30), <1>1, <1>2, <1>3, <1>4, <1>6, <1>7 DEF ConnIsConsistent, AdmissionInv
<1>10. OnlyCollects(registry, registry') /\ RegistryOK(registry') /\ BucketsOK(registry', live', JobBuckets', Holders')
    BY <1>1, <1>2, <1>6, <1>7 DEF OnlyCollects
<1> QED BY <1>1, <1>4, <1>5, <1>6, <1>8, <1>9, <1>10, CalmInv

LEMMA CloseInv ==
    ASSUME AdmissionInv, NEW c \in Sources, Close(c), verified' = verified PROVE AdmissionInv'
<1> DEFINE conn == [connections[c] EXCEPT !.socket = "closing"]
           r == [conn EXCEPT !.deferred = TRUE]
<1>1. /\ connections[c].socket \in {"open", "overflow"}
      /\ IF MustDefer(c) THEN connections' = [connections EXCEPT ![c] = r] /\ UNCHANGED <<registry, live, pending>>
         ELSE GiveUp(c, conn)
      /\ UNCHANGED <<verified, jobs, subs, candidates, fatal>>
    BY DEF Close
<1>2. /\ connections \in [Sources -> Connections] /\ ConnIsConsistent(c)
      /\ RegistryOK(registry) /\ BucketsOK(registry, live, JobBuckets, Holders)
    BY DEF AdmissionInv, TypeInv
<1>3. /\ conn \in Connections /\ conn.socket = "closing" /\ conn.row = connections[c].row /\ conn.known = connections[c].known
      /\ conn.accepted_submits = connections[c].accepted_submits
    BY <1>2 DEF Connections
<1>4. /\ r \in Connections /\ r.socket = "closing" /\ r.row = connections[c].row /\ r.known = connections[c].known
      /\ r.accepted_submits = connections[c].accepted_submits /\ r.deferred
    BY <1>2 DEF Connections
<1> HIDE DEF conn, r
<1>5. connections[c].row = "open" /\ connections[c].known /\ connections[c].accepted_submits = Cardinality(FlightOf(c))
    BY <1>1, <1>2 DEF ConnIsConsistent
<1>6. IsFiniteSet(FlightOf(c)) /\ Cardinality(FlightOf(c)) \in Nat
    BY SubmissionsFinite DEF FlightOf
<1>7. CASE MustDefer(c)
    <2>1. connections' = [connections EXCEPT ![c] = r] /\ UNCHANGED <<registry, live, pending>>
        BY <1>1, <1>7
    <2>2. connections' \in [Sources -> Connections] /\ connections'[c] = r /\ \A d \in Sources \ {c} : connections'[d] = connections[d]
        BY <1>2, <1>4, <2>1
    <2>3. JobsStay
        BY SMTT(30), <1>1, <2>1 DEF JobsStay, AdmissionInv, TypeInv
    <2>4. /\ Holders' = Holders /\ subs' \in [Submissions -> SubStates]
          /\ \A d \in Sources : FlightOf(d)' = FlightOf(d) /\ WaitingOf(d)' = WaitingOf(d)
          /\ \A t \in Submissions : Calm(t) /\ SubIsConsistent(t)'
        BY <1>1, <2>3, SubsAside
    <2>5. JobBuckets' = JobBuckets /\ \A d \in Sources : JobsOf(d)' = JobsOf(d)
        BY <1>1, <2>1 DEF JobBuckets, BucketOf, JobsOf
    <2>6. PendingOK'
        BY <2>1, <2>4 DEF PendingOK, AdmissionInv, TypeInv
    <2>7. connections[c].accepted_submits > 0
        BY <1>7 DEF MustDefer
    <2>8. ConnIsConsistent(c)'
        BY <1>4, <1>5, <2>2, <2>4, <2>7 DEF ConnIsConsistent
    <2>9. \A d \in Sources \ {c} : ConnIsConsistent(d)'
        BY SMTT(30), <2>2, <2>4, <2>5 DEF ConnIsConsistent, AdmissionInv
    <2>10. OnlyCollects(registry, registry') /\ RegistryOK(registry') /\ BucketsOK(registry', live', JobBuckets', Holders')
        BY <1>2, <2>1, <2>4, <2>5 DEF OnlyCollects
    <2> QED BY <1>1, <2>2, <2>3, <2>4, <2>6, <2>8, <2>9, <2>10, CalmInv
<1>8. CASE ~MustDefer(c)
    <2>1. GiveUp(c, conn)
        BY <1>1, <1>8
    <2>2. connections[c].accepted_submits = 0
        BY SMTT(30), <1>5, <1>6, <1>8 DEF MustDefer
    <2>3. FlightOf(c) = {}
        BY <1>5, <1>6, <2>2, CountZero
    <2>4. WaitingOf(c) = {}
        BY <2>3 DEF WaitingOf, FlightOf, Verifying, InFlight
    <2>5. \A d \in Sources : WaitingOf(d)' = WaitingOf(d)
        BY <1>1 DEF WaitingOf, Verifying
    <2>6. Holders' = Holders
        BY <1>1 DEF Holders, LeasesIn, TasksIn, Bucket, BucketOf
    <2>7. /\ RegistryOK(registry') /\ BucketsOK(registry', live', JobBuckets', Holders')
          /\ OnlyCollects(registry, registry') /\ JobsStay /\ PendingOK'
          /\ JobsOf(c)' = {} /\ \A d \in Sources \ {c} : JobsOf(d)' = JobsOf(d) /\ connections'[d] = connections[d]
          /\ connections' \in [Sources -> Connections]
          /\ connections'[c].socket = conn.socket /\ connections'[c].accepted_submits = conn.accepted_submits
          /\ connections'[c].row = "closed" /\ ~connections'[c].known /\ ~connections'[c].deferred
        BY <1>1, <1>3, <2>1, <2>4, <2>5, <2>6, GivesUp
    <2>8. /\ subs' \in [Submissions -> SubStates]
          /\ \A d \in Sources : FlightOf(d)' = FlightOf(d)
          /\ \A t \in Submissions : Calm(t) /\ SubIsConsistent(t)'
        BY <1>1, <2>7, SubsAside
    <2>9. ConnIsConsistent(c)'
        <3>1. /\ connections'[c].socket = "closing" /\ connections'[c].row = "closed"
              /\ ~connections'[c].known /\ ~connections'[c].deferred /\ JobsOf(c)' = {}
              /\ connections'[c].accepted_submits = conn.accepted_submits /\ FlightOf(c)' = FlightOf(c)
            BY <1>3, <2>7, <2>8
        <3>2. conn.accepted_submits = 0 /\ Cardinality(FlightOf(c)) = 0
            BY <1>3, <1>5, <2>2
        <3> QED BY SMTT(30), <3>1, <3>2 DEF ConnIsConsistent
    <2>10. \A d \in Sources \ {c} : ConnIsConsistent(d)'
        BY SMTT(30), <2>7, <2>8 DEF ConnIsConsistent, AdmissionInv
    <2> QED BY <1>1, <2>7, <2>8, <2>9, <2>10, CalmInv
<1> QED BY <1>7, <1>8

\* make_job: a new job refers to its bucket.
LEMMA NewJob ==
    ASSUME AdmissionInv, NEW c \in Sources, NEW h \in Heights, Len(jobs) < MaxJobs,
           jobs' = Append(jobs, [conn |-> c, height |-> h])
    PROVE  LET n == Len(jobs) + 1
               reg == RetainHeight(registry, <<c, h>>)
           IN /\ jobs' \in Seq(Jobs) /\ Len(jobs') = n /\ n <= MaxJobs /\ n \in Nat /\ n \notin live /\ jobs'[n].conn = c
              /\ live \subseteq 1..Len(jobs) /\ \A j \in 1..Len(jobs) : jobs'[j] = jobs[j] /\ j \in 1..n /\ j # n
              /\ \A j \in live : JobBuckets'[j] = JobBuckets[j] /\ JobBuckets[j] = BucketOf(j)
              /\ RegistryOK(reg) /\ reg.entries = registry.entries
              /\ BucketsOK(reg, live \cup {n}, JobBuckets', Holders)
              /\ IsFiniteSet(live \cup {n})
<1> DEFINE n == Len(jobs) + 1
           reg == RetainHeight(registry, <<c, h>>)
<1>1. /\ jobs \in Seq(Jobs) /\ Len(jobs) \in Nat /\ live \subseteq 1..Len(jobs) /\ IsFiniteSet(live) /\ MaxJobs \in Nat
      /\ RegistryOK(registry) /\ BucketsOK(registry, live, JobBuckets, Holders) /\ Holders \in [Buckets -> Nat]
      /\ \A j \in live : JobBuckets[j] = BucketOf(j)
    BY JobFacts, HoldersType, AdmissionAssumption DEF AdmissionInv, TypeInv
<1>2. [conn |-> c, height |-> h] \in Jobs
    BY DEF Jobs
<1>3. /\ jobs' \in Seq(Jobs) /\ Len(jobs') = n /\ n <= MaxJobs /\ n \in Nat /\ n \notin live
      /\ jobs'[n] = [conn |-> c, height |-> h]
      /\ \A j \in 1..Len(jobs) : jobs'[j] = jobs[j] /\ j \in 1..n /\ j # n
    BY SMTT(30), <1>1, <1>2
<1>4. <<c, h>> \in Buckets
    BY DEF Buckets
<1>5. \A j \in live : JobBuckets'[j] = JobBuckets[j]
    <2>1. JobBuckets' = [j \in 1..n |-> BucketOf(j)']
        BY <1>3 DEF JobBuckets
    <2>2. JobBuckets = [j \in 1..Len(jobs) |-> BucketOf(j)]
        BY DEF JobBuckets
    <2>3. \A j \in 1..Len(jobs) : BucketOf(j)' = BucketOf(j)
        BY <1>3 DEF BucketOf
    <2> QED BY <1>1, <1>3, <2>1, <2>2, <2>3
<1>6. JobBuckets'[n] = <<c, h>>
    <2>1. JobBuckets' = [j \in 1..n |-> BucketOf(j)'] /\ n \in 1..n
        BY SMTT(30), <1>1, <1>3 DEF JobBuckets
    <2>3. PICK k : k = n
        OBVIOUS
    <2>4. JobBuckets'[k] = BucketOf(k)' /\ BucketOf(k)' = <<jobs'[k].conn, jobs'[k].height>>
        BY <2>1, <2>3 DEF BucketOf
    <2> QED BY SMTT(30), <1>3, <2>3, <2>4
<1>7. RegistryOK(reg) /\ reg.entries = registry.entries
    BY <1>1, <1>4, RetainKeeps
<1>8. BucketsOK(reg, live \cup {n}, JobBuckets', Holders)
    BY <1>1, <1>3, <1>4, <1>5, <1>6, RetainForJob
<1>9. IsFiniteSet(live \cup {n})
    BY <1>1, FS_AddElement
<1> QED BY SMTT(30), <1>1, <1>3, <1>5, <1>7, <1>8, <1>9

\* The event loop makes a job; what is left to show is what becomes of the registry.
LEMMA JobMadeInv ==
    ASSUME AdmissionInv, NEW c \in Sources, NEW h \in Heights, Len(jobs) < MaxJobs,
           jobs' = Append(jobs, [conn |-> c, height |-> h]),
           connections[c].socket = "open", NEW r \in Connections, connections' = [connections EXCEPT ![c] = r],
           r.socket \in {"open", "overflow"}, r.row = connections[c].row, r.known = connections[c].known,
           r.accepted_submits = connections[c].accepted_submits, r.deferred = connections[c].deferred,
           NEW old \in SUBSET JobsOf(c), live' = (live \ old) \cup {Len(jobs) + 1},
           RegistryOK(registry'), OnlyCollects(registry, registry'),
           BucketsOK(registry', live', JobBuckets', Holders),
           UNCHANGED <<verified, pending, subs, candidates, fatal>>
    PROVE  AdmissionInv'
<1>1. PICK n : n = Len(jobs) + 1
    OBVIOUS
<1>2. /\ jobs' \in Seq(Jobs) /\ Len(jobs') = n /\ n <= MaxJobs /\ n \in Nat /\ n \notin live /\ jobs'[n].conn = c
      /\ live \subseteq 1..Len(jobs) /\ \A j \in 1..Len(jobs) : jobs'[j] = jobs[j] /\ j \in 1..n /\ j # n
    BY <1>1, NewJob
<1>3. JobsStay
    <2>1. Len(jobs) <= Len(jobs') /\ Len(jobs) \in Nat
        BY SMTT(30), <1>1, <1>2, JobFacts DEF AdmissionInv
    <2>2. live' \subseteq 1..n /\ \A j \in live' : j \in live \/ j \notin 1..Len(jobs)
        BY SMTT(30), <1>1, <1>2, <2>1
    <2> QED BY <1>2, <2>1, <2>2 DEF JobsStay
<1>4. /\ Holders' = Holders /\ subs' \in [Submissions -> SubStates]
      /\ \A d \in Sources : FlightOf(d)' = FlightOf(d) /\ WaitingOf(d)' = WaitingOf(d)
      /\ \A t \in Submissions : Calm(t) /\ SubIsConsistent(t)'
    BY <1>3, SubsAside
<1>5. \A d \in Sources \ {c} : JobsOf(d)' = JobsOf(d)
    <2>1. live' = (live \ old) \cup {n} /\ \A j \in live : jobs'[j] = jobs[j]
        BY <1>1, <1>2
    <2>2. \A j \in old : j \in live /\ jobs[j].conn = c
        BY DEF JobsOf
    <2> SUFFICES ASSUME NEW d \in Sources \ {c}
                 PROVE  {j \in live' : jobs'[j].conn = d} = {j \in live : jobs[j].conn = d}
        BY DEF JobsOf
    <2> QED BY <1>2, <2>1, <2>2
<1>6. PendingOK'
    BY <1>4 DEF PendingOK, AdmissionInv, TypeInv
<1>7. connections' \in [Sources -> Connections] /\ connections'[c] = r /\ \A d \in Sources \ {c} : connections'[d] = connections[d]
    BY DEF AdmissionInv, TypeInv
<1>8. ConnIsConsistent(c)
    BY DEF AdmissionInv
<1>9. ConnIsConsistent(c)'
    BY <1>4, <1>7, <1>8 DEF ConnIsConsistent
<1>10. \A d \in Sources \ {c} : ConnIsConsistent(d)'
    BY SMTT(30), <1>4, <1>5, <1>7 DEF ConnIsConsistent, AdmissionInv
<1>11. BucketsOK(registry', live', JobBuckets', Holders')
    BY <1>4
<1> QED BY <1>3, <1>4, <1>6, <1>7, <1>9, <1>10, <1>11, CalmInv

LEMMA QueueFailsInv ==
    ASSUME AdmissionInv, NEW c \in Sources, NEW h \in Heights, QueueFails(c, h), verified' = verified
    PROVE  AdmissionInv'
<1> DEFINE r == [connections[c] EXCEPT !.socket = "overflow"]
<1>1. /\ Len(jobs) < MaxJobs /\ jobs' = Append(jobs, [conn |-> c, height |-> h])
      /\ connections[c].socket = "open" /\ connections' = [connections EXCEPT ![c] = r]
      /\ live' = live \cup {Len(jobs) + 1} /\ registry' = RetainHeight(registry, <<c, h>>)
      /\ UNCHANGED <<verified, pending, subs, candidates, fatal>>
    BY DEF QueueFails
<1>2. connections[c] \in Connections
    BY DEF AdmissionInv, TypeInv
<1>3. /\ r \in Connections /\ r.socket = "overflow" /\ r.row = connections[c].row /\ r.known = connections[c].known
      /\ r.accepted_submits = connections[c].accepted_submits /\ r.deferred = connections[c].deferred
    BY <1>2 DEF Connections
<1> HIDE DEF r
<1>4. /\ RegistryOK(registry') /\ registry'.entries = registry.entries
      /\ BucketsOK(registry', live', JobBuckets', Holders)
    BY <1>1, NewJob
<1>5. OnlyCollects(registry, registry')
    BY <1>4 DEF OnlyCollects
<1>6. {} \in SUBSET JobsOf(c) /\ live' = (live \ {}) \cup {Len(jobs) + 1}
    BY <1>1
<1> QED BY <1>1, <1>3, <1>4, <1>5, <1>6, JobMadeInv

LEMMA SendJobInv ==
    ASSUME AdmissionInv, NEW c \in Sources, NEW h \in Heights, SendJob(c, h), verified' = verified
    PROVE  AdmissionInv'
<1> DEFINE r == [connections[c] EXCEPT !.latest = h]
           old == {j \in JobsOf(c) : jobs[j].height < h}
           reg == RetainHeight(registry, <<c, h>>)
<1>1. /\ Len(jobs) < MaxJobs /\ jobs' = Append(jobs, [conn |-> c, height |-> h])
      /\ connections[c].socket = "open" /\ connections' = [connections EXCEPT ![c] = r]
      /\ live' = (live \ old) \cup {Len(jobs) + 1} /\ registry' = RetireJobs(reg, old)
      /\ UNCHANGED <<verified, pending, subs, candidates, fatal>>
    BY DEF SendJob
<1>2. connections[c] \in Connections
    BY DEF AdmissionInv, TypeInv
<1>3. /\ r \in Connections /\ r.socket = connections[c].socket /\ r.row = connections[c].row /\ r.known = connections[c].known
      /\ r.accepted_submits = connections[c].accepted_submits /\ r.deferred = connections[c].deferred
    BY <1>2 DEF Connections
<1>4. old \in SUBSET JobsOf(c) /\ old \subseteq live
    BY DEF JobsOf
<1> HIDE DEF r, old
<1>5. PICK n : n = Len(jobs) + 1
    OBVIOUS
<1>6. /\ RegistryOK(reg) /\ reg.entries = registry.entries /\ n \notin live
      /\ BucketsOK(reg, live \cup {n}, JobBuckets', Holders) /\ IsFiniteSet(live \cup {n})
      /\ \A j \in live : JobBuckets'[j] = BucketOf(j)
    BY <1>1, <1>5, NewJob
<1> HIDE DEF reg
<1>7. registry' = RetireHeights(reg, [b \in Buckets |-> Cardinality(JobsIn(old, JobBuckets', b))])
    BY <1>1, <1>4, <1>6, RetireJobsIsCounted
<1>8. old \in SUBSET (live \cup {n}) /\ (live \cup {n}) \ old = live'
    BY <1>1, <1>4, <1>5, <1>6
<1>9. RegistryOK(registry') /\ BucketsOK(registry', live', JobBuckets', Holders) /\ OnlyCollects(reg, registry')
    BY SMTT(30), <1>6, <1>7, <1>8, HoldersType, RetireForJobs
<1>10. OnlyCollects(registry, registry')
    BY <1>6, <1>9 DEF OnlyCollects
<1> QED BY <1>1, <1>3, <1>4, <1>9, <1>10, JobMadeInv

\* A submission arrives with a lease for its job.
LEMMA SubmitInv ==
    ASSUME AdmissionInv, NEW s \in Arriving, NEW c \in Sources, NEW j \in 1..Len(jobs),
           NEW admitted \in AdmittedJobs(c, j), NEW nonce \in Nonces, NEW claimed \in Nonces,
           Submit(s, c, admitted, nonce, claimed), verified' = verified
    PROVE  AdmissionInv'
<1> DEFINE lease == admitted # NoJob
           r == [NoSubmission EXCEPT !.pc = "queued", !.conn = c, !.job = admitted, !.nonce = nonce,
                                     !.claimed = claimed, !.lease = lease]
           conn == [connections[c] EXCEPT !.accepted_submits = @ + 1]
<1>1. /\ subs \in [Submissions -> SubStates] /\ connections \in [Sources -> Connections]
      /\ RegistryOK(registry) /\ BucketsOK(registry, live, JobBuckets, Holders)
      /\ IsFiniteSet(live) /\ Holders \in [Buckets -> Nat] /\ Len(jobs) \in Nat /\ Len(jobs) <= MaxJobs
      /\ live \subseteq 1..Len(jobs) /\ ConnIsConsistent(c)
    BY JobFacts, HoldersType DEF AdmissionInv, TypeInv
<1>2. s \in Submissions /\ subs[s].pc = "none"
    <2>1. s \in Submissions /\ (subs[s].pc = "none" <=> s >= s)
        BY DEF Arriving
    <2>2. s \in Int
        BY SMTT(30), <2>1, AdmissionAssumption DEF Submissions
    <2> QED BY SMTT(30), <2>1, <2>2
<1>3. connections[c].socket = "open" /\ connections[c].known
    BY <1>1 DEF Submit, ConnIsConsistent
<1>4. /\ subs' = [subs EXCEPT ![s] = r] /\ registry' = Leased(registry, admitted)
      /\ connections' = [connections EXCEPT ![c] = conn]
      /\ UNCHANGED <<verified, jobs, live, pending, candidates, fatal>>
    BY <1>3 DEF Submit
<1>5. admitted = NoJob \/ (admitted \in JobsOf(c) /\ admitted \in live /\ jobs[admitted].conn = c)
    BY DEF AdmittedJobs, JobsOf
<1>6. admitted \in 0..Len(jobs) /\ admitted \in JobIds \cup {NoJob}
    <2>1. MaxJobs \in Nat
        BY AdmissionAssumption
    <2>2. admitted = 0 \/ admitted \in 1..Len(jobs)
        BY <1>1, <1>5 DEF NoJob
    <2> QED BY SMTT(30), <1>1, <2>1, <2>2 DEF NoJob, JobIds
<1>7. lease \in BOOLEAN /\ (lease <=> admitted # NoJob)
    OBVIOUS
<1> HIDE DEF lease
<1>8. /\ r \in SubStates /\ r.pc = "queued" /\ r.conn = c /\ r.job = admitted /\ r.lease = lease
      /\ r.local = "none" /\ ~r.token /\ r.result = "none" /\ ~r.task
    BY <1>6, <1>7, NoSubmissionType DEF SubStates
<1>9. /\ conn \in Connections /\ conn.accepted_submits = connections[c].accepted_submits + 1
      /\ conn.socket = connections[c].socket /\ conn.row = connections[c].row /\ conn.known = connections[c].known
      /\ conn.deferred = connections[c].deferred
    <2>1. connections[c] \in Connections /\ connections[c].accepted_submits + 1 \in Nat
        BY SMTT(30), <1>1 DEF Connections
    <2> QED BY <2>1 DEF Connections
<1> HIDE DEF r, conn
<1>10. /\ subs' \in [Submissions -> SubStates] /\ subs'[s] = r /\ \A t \in Submissions \ {s} : subs'[t] = subs[t]
       /\ connections' \in [Sources -> Connections] /\ connections'[c] = conn
       /\ \A d \in Sources \ {c} : connections'[d] = connections[d]
    BY <1>1, <1>2, <1>4, <1>8, <1>9
<1>11. ~subs[s].lease /\ ~subs[s].task /\ SubIsConsistent(s)
    BY <1>2 DEF AdmissionInv, SubIsConsistent, InFlight
<1>12. RegistryOK(registry') /\ BucketsOK(registry', live, JobBuckets, Holders') /\ OnlyCollects(registry, registry')
    <2>1. \A t \in Submissions \ {s} : Bucket(t)' = Bucket(t)
        BY <1>4, <1>10 DEF Bucket, BucketOf
    <2>2. \A b \in Buckets : TasksIn(b)' = TasksIn(b)
        BY <1>8, <1>10, <1>11, <2>1 DEF TasksIn
    <2>3. /\ Holders = [b \in Buckets |-> Cardinality(LeasesIn(b)) + Cardinality(TasksIn(b))]
          /\ Holders' = [b \in Buckets |-> Cardinality(LeasesIn(b)') + Cardinality(TasksIn(b)')]
        BY DEF Holders
    <2>4. CASE admitted = NoJob
        <3>1. \A b \in Buckets : LeasesIn(b)' = LeasesIn(b)
            BY <1>7, <1>8, <1>10, <1>11, <2>1, <2>4 DEF LeasesIn
        <3>2. Holders' = Holders
            BY <2>2, <2>3, <3>1
        <3>3. registry' = registry
            BY <1>4, <2>4 DEF Leased
        <3> QED BY <1>1, <3>2, <3>3 DEF OnlyCollects
    <2>5. CASE admitted # NoJob
        <3>1. PICK b \in Buckets : b = BucketOf(admitted)
            BY <1>5, <2>5, JobFacts DEF AdmissionInv
        <3>2. registry' = RetainHeight(registry, b) /\ registry.buckets[b].references > 0
            BY <1>4, <1>5, <2>5, <3>1, HeldBuckets DEF Leased
        <3>3. Bucket(s)' = b
            BY <1>4, <1>8, <1>10, <3>1 DEF Bucket, BucketOf
        <3>4. /\ \A a \in Buckets \ {b} : LeasesIn(a)' = LeasesIn(a)
              /\ LeasesIn(b)' = LeasesIn(b) \cup {s} /\ s \notin LeasesIn(b)
            BY SMTT(30), <1>2, <1>7, <1>8, <1>10, <1>11, <2>1, <2>5, <3>3 DEF LeasesIn
        <3>5. IsFiniteSet(LeasesIn(b)) /\ Cardinality(LeasesIn(b)) \in Nat /\ Cardinality(TasksIn(b)) \in Nat
            BY SubmissionsFinite DEF LeasesIn, TasksIn
        <3>6. Cardinality(LeasesIn(b)') = Cardinality(LeasesIn(b)) + 1
            BY <3>4, <3>5, CountUp
        <3>7. Holders'[b] = Holders[b] + 1
            BY SMTT(30), <2>2, <2>3, <3>5, <3>6
        <3>8. \A a \in Buckets \ {b} : Holders'[a] = Holders[a]
            BY <2>2, <2>3, <3>4
        <3>9. Holders' = [Holders EXCEPT ![b] = @ + 1]
            BY <2>3, <3>7, <3>8
        <3>10. RegistryOK(registry') /\ registry'.entries = registry.entries
            BY <1>1, <3>2, RetainKeeps
        <3>11. BucketsOK(registry', live, JobBuckets, Holders')
            BY <1>1, <3>2, <3>9, RetainForHolder
        <3> QED BY <3>10, <3>11 DEF OnlyCollects
    <2> QED BY <2>4, <2>5
<1>13. JobsStay
    BY SMTT(30), <1>4 DEF JobsStay, AdmissionInv, TypeInv
<1>14. JobBuckets' = JobBuckets /\ \A d \in Sources : JobsOf(d)' = JobsOf(d)
    BY <1>4 DEF JobBuckets, BucketOf, JobsOf
<1>15. /\ \A d \in Sources : WaitingOf(d)' = WaitingOf(d)
       /\ \A d \in Sources \ {c} : FlightOf(d)' = FlightOf(d)
       /\ FlightOf(c)' = FlightOf(c) \cup {s} /\ s \notin FlightOf(c)
    BY SMTT(30), <1>2, <1>8, <1>10 DEF WaitingOf, Verifying, FlightOf, InFlight
<1>16. PendingOK'
    BY <1>4, <1>15 DEF PendingOK, AdmissionInv, TypeInv
<1>17. conn.accepted_submits = Cardinality(FlightOf(c)')
    <2>1. IsFiniteSet(FlightOf(c)) /\ Cardinality(FlightOf(c)) \in Nat
        BY SubmissionsFinite DEF FlightOf
    <2>2. Cardinality(FlightOf(c)') = Cardinality(FlightOf(c)) + 1
        BY <1>15, <2>1, CountUp
    <2>3. connections[c].accepted_submits = Cardinality(FlightOf(c))
        BY <1>1 DEF ConnIsConsistent
    <2> QED BY <1>9, <2>2, <2>3
<1>18. ConnIsConsistent(c)'
    BY <1>1, <1>3, <1>9, <1>10, <1>17 DEF ConnIsConsistent
<1>19. \A d \in Sources \ {c} : ConnIsConsistent(d)'
    BY SMTT(30), <1>10, <1>14, <1>15 DEF ConnIsConsistent, AdmissionInv
<1>20. ASSUME NEW t \in Submissions PROVE Calm(t) /\ SubIsConsistent(t)'
    <2>1. CASE t = s
        <3>1. SubIsConsistent(s)'
            BY <1>4, <1>5, <1>6, <1>7, <1>8, <1>10 DEF SubIsConsistent, InFlight
        <3>2. Calm(s)
            BY <1>2, <1>5, <1>7, <1>8, <1>10 DEF Calm
        <3> QED BY <2>1, <3>1, <3>2
    <2>2. CASE t # s
        <3>1. SubIsConsistent(t) /\ subs'[t] = subs[t]
            BY <1>10, <2>2 DEF AdmissionInv
        <3>2. SubIsConsistent(t)'
            <4>1. jobs' = jobs /\ verified' = verified
                BY <1>4
            <4> QED BY SMTT(30), <3>1, <4>1 DEF SubIsConsistent
        <3>3. Calm(t)
            BY <3>1 DEF Calm, CreditedHash
        <3> QED BY <3>2, <3>3
    <2> QED BY <2>1, <2>2
<1>21. BucketsOK(registry', live', JobBuckets', Holders')
    BY <1>4, <1>12, <1>14
<1> QED BY <1>4, <1>10, <1>12, <1>13, <1>16, <1>18, <1>19, <1>20, <1>21, CalmInv

-----------------------------------------------------------------------------
(* The theorems. *)
LEMMA AdmissionStutters == ASSUME AdmissionInv, UNCHANGED vars PROVE AdmissionInv'
<1>1. UNCHANGED <<verified, registry, jobs, live, connections, pending, subs, candidates, fatal>>
    BY DEF vars
<1>2. /\ JobsStay /\ PendingOK' /\ connections' \in [Sources -> Connections] /\ JobBuckets' = JobBuckets
      /\ \A c \in Sources : ConnIsConsistent(c)'
    BY <1>1, ConnsAside
<1>3. /\ Holders' = Holders /\ subs' \in [Submissions -> SubStates]
      /\ \A t \in Submissions : Calm(t) /\ SubIsConsistent(t)'
    BY <1>1, <1>2, SubsAside
<1>4. OnlyCollects(registry, registry') /\ RegistryOK(registry') /\ BucketsOK(registry', live', JobBuckets', Holders')
    BY <1>1, <1>2, <1>3 DEF OnlyCollects, AdmissionInv, TypeInv
<1> QED BY <1>1, <1>2, <1>3, <1>4, CalmInv

LEMMA AdmissionStepInv == AdmissionInv /\ [Next]_vars => AdmissionInv'
<1> SUFFICES ASSUME AdmissionInv, [Next]_vars PROVE AdmissionInv'
    OBVIOUS
<1>1. ASSUME EventLoopStep PROVE AdmissionInv'
    BY <1>1, OpenInv, CloseInv, SendJobInv, QueueFailsInv, SubmitInv DEF EventLoopStep
<1>2. ASSUME NEW s \in Submissions, WorkerStep(s) PROVE AdmissionInv'
    BY <1>2, StartRefusedInv, StartReserveInv, JournalClaimedInv, JournalRefusedInv, JudgeTrustedInv,
       VerifyRefusedInv, StartVerifyInv, CompleteInv, DropLeaseInv DEF WorkerStep
<1>3. ASSUME NEW s \in Submissions, VerifierStep(s) PROVE AdmissionInv'
    BY <1>3, VerifyFailsInv, VerifyCompletesInv, VerifyContaminatedInv DEF VerifierStep
<1>4. ASSUME NEW s \in Submissions, CandidateStep(s) PROVE AdmissionInv'
    BY <1>4, CandidateDoneInv DEF CandidateStep
<1> QED BY <1>1, <1>2, <1>3, <1>4, AdmissionStutters DEF Next

LEMMA AdmissionIsSafe == AdmissionSpec => []AdmissionInv
<1> QED BY AdmissionInitInv, AdmissionStepInv, PTL DEF AdmissionSpec

\* A share that failed for the server's own reasons left no key: every path of
\* process_share that answers server_busy or verifier_failed releases the claimed key, and
\* the computed key is only reserved on a mismatch.
THEOREM FailedShareIsRetryableAlways == AdmissionSpec => []FailedShareIsRetryable
<1>1. AdmissionInv => FailedShareIsRetryable
    BY DEF AdmissionInv, KeysAreOwned, FailedShareIsRetryable
<1> QED BY <1>1, AdmissionIsSafe, PTL

\* Nobody is credited in the step that ends its lease.
LEMMA CreditIsEarlier ==
    ASSUME AdmissionInv, AdmissionInv', [Next]_vars, NEW t \in Submissions,
           subs'[t].result = "accepted", ~subs'[t].lease
    PROVE  /\ subs[t].result = "accepted" /\ subs'[t].job = subs[t].job
           /\ CreditedHash(t)' = CreditedHash(t)
<1>1. subs \in [Submissions -> SubStates] /\ SubIsConsistent(t)' /\ subs'[t] \in SubStates
    BY DEF AdmissionInv, TypeInv
<1>2. subs'[t].pc = "done"
    BY <1>1 DEF SubIsConsistent, InFlight, SubStates
<1>3. subs'[t] = subs[t] => subs[t].result = "accepted" /\ subs'[t].job = subs[t].job
                            /\ subs'[t].nonce = subs[t].nonce /\ subs'[t].claimed = subs[t].claimed
    OBVIOUS
<1>4. ASSUME NEW s \in Submissions, NEW r, subs' = [subs EXCEPT ![s] = r], r.pc # "done"
      PROVE  subs'[t] = subs[t]
    BY <1>1, <1>2, <1>4
<1>5. ASSUME NEW s \in Submissions, NEW result, NEW sub \in SubStates, Judge(s, result, sub)
      PROVE  subs'[t] = subs[t]
    <2> DEFINE r == [sub EXCEPT !.pc = "judged", !.result = result, !.local = "none", !.token = FALSE,
                                !.candidate = "none"]
    <2>1. subs' = [subs EXCEPT ![s] = r]
        BY <1>5 DEF Judge
    <2>2. r.pc = "judged"
        BY DEF SubStates
    <2> QED BY <1>4, <2>1, <2>2
<1>6. verified' = verified
    BY DEF Next, EventLoopStep, WorkerStep, VerifierStep, CandidateStep, vars
<1>7. ASSUME EventLoopStep PROVE subs'[t] = subs[t]
    <2>1. ASSUME NEW s \in Arriving, NEW c, NEW a, NEW n, NEW m, Submit(s, c, a, n, m) PROVE subs'[t] = subs[t]
        <3> DEFINE r == [NoSubmission EXCEPT !.pc = "queued", !.conn = c, !.job = a, !.nonce = n,
                                             !.claimed = m, !.lease = (a # NoJob)]
        <3>1. subs' = subs \/ subs' = [subs EXCEPT ![s] = r]
            BY <2>1 DEF Submit
        <3>2. r.pc = "queued" /\ s \in Submissions
            BY NoSubmissionType DEF SubStates, Arriving
        <3> HIDE DEF r
        <3> QED BY <1>4, <3>1, <3>2
    <2> QED BY <1>7, <2>1 DEF EventLoopStep, Open, Close, SendJob, QueueFails
<1>8. ASSUME NEW s \in Submissions, StartRefused(s) \/ JudgeTrusted(s) \/ VerifyRefused(s) \/ VerifyFails(s) \/ VerifyContaminated(s)
      PROVE  subs'[t] = subs[t]
    <2>1. subs[s] \in SubStates /\ \E result : Judge(s, result, subs[s])
        BY <1>1, <1>8 DEF StartRefused, NoRow, JudgeTrusted, VerifyRefused, VerifyFails, VerifyContaminated
    <2> QED BY <1>5, <2>1
<1>9. \A s \in Submissions : subs[s] \in SubStates
    BY <1>1
<1>10. ASSUME NEW s \in Submissions, StartReserve(s) PROVE subs'[t] = subs[t]
    <2> DEFINE local == ReserveResult(registry, Key(s, subs[s].claimed), Bucket(s))
               r == [subs[s] EXCEPT !.pc = "reserved", !.local = local, !.token = (local = "reserved")]
    <2>1. subs' = [subs EXCEPT ![s] = r]
        BY <1>10 DEF StartReserve
    <2> HIDE DEF local
    <2>2. r.pc = "reserved"
        BY <1>9 DEF SubStates
    <2> QED BY <1>4, <2>1, <2>2
<1>11. ASSUME NEW s \in Submissions, JournalClaimed(s) PROVE subs'[t] = subs[t]
    <2>1. subs' = [subs EXCEPT ![s] = Journaled(s).sub] /\ subs[s].pc = "reserved"
        BY <1>11 DEF JournalClaimed, ClaimOpen
    <2>2. Journaled(s).sub.pc = subs[s].pc
        BY <1>9 DEF Journaled, SubStates
    <2> QED BY <1>4, <2>1, <2>2
<1>12. ASSUME NEW s \in Submissions, StartVerify(s) PROVE subs'[t] = subs[t]
    <2> DEFINE r == [subs[s] EXCEPT !.pc = "verifying"]
    <2>1. subs' = [subs EXCEPT ![s] = r]
        BY <1>12 DEF StartVerify
    <2>2. r.pc = "verifying"
        BY <1>9 DEF SubStates
    <2> QED BY <1>4, <2>1, <2>2
<1>13. ASSUME NEW s \in Submissions, JournalRefused(s) PROVE subs'[t] = subs[t]
    <2> DEFINE r == [subs[s] EXCEPT !.candidate = "deferred"]
    <2>1. /\ subs[s].pc = "reserved"
          /\ subs' = [subs EXCEPT ![s] = r] \/ \E result : Judge(s, result, subs[s])
        BY <1>13 DEF JournalRefused, ClaimOpen
    <2>2. r.pc = subs[s].pc
        BY <1>9 DEF SubStates
    <2> HIDE DEF r
    <2> QED BY <1>4, <1>5, <1>9, <2>1, <2>2
<1>14. ASSUME NEW s \in Submissions, VerifyCompletes(s) PROVE subs'[t] = subs[t]
    <2> DEFINE new == Rescued(s) /\ Key(s, subs[s].nonce) \notin candidates
               task == subs[s].task \/ new
               sub == [subs[s] EXCEPT !.task = task]
    <2>1. \E result : Judge(s, result, sub)
        BY <1>14 DEF VerifyCompletes
    <2>2. task \in BOOLEAN
        OBVIOUS
    <2> HIDE DEF task
    <2>3. sub \in SubStates
        BY SMTT(30), <1>9, <2>2 DEF SubStates
    <2> QED BY <1>5, <2>1, <2>3
<1>15. ASSUME NEW s \in Submissions, Complete(s) PROVE subs'[t] = subs[t]
    <2>1. subs' = [subs EXCEPT ![s] = Answered(s)] /\ Answered(s).pc = "completed"
        BY <1>9, <1>15, AnsweredFields DEF Complete
    <2> QED BY <1>4, <2>1
<1>16. ASSUME NEW s \in Submissions, DropLease(s) \/ CandidateDone(s)
       PROVE  /\ subs[t].result = "accepted" /\ subs'[t].job = subs[t].job
              /\ subs'[t].nonce = subs[t].nonce /\ subs'[t].claimed = subs[t].claimed
    <2>1. CASE DropLease(s)
        <3> DEFINE r == [subs[s] EXCEPT !.pc = "done", !.lease = FALSE,
                                        !.job = IF Outlives(s) THEN subs[s].job ELSE NoJob]
        <3>1. subs' = [subs EXCEPT ![s] = r]
            BY <2>1 DEF DropLease
        <3>2. /\ r.result = subs[s].result /\ r.nonce = subs[s].nonce /\ r.claimed = subs[s].claimed
              /\ subs[s].result = "accepted" => r.job = subs[s].job
            BY <1>9 DEF SubStates, Outlives
        <3> HIDE DEF r
        <3> QED BY <1>1, <3>1, <3>2
    <2>2. CASE CandidateDone(s)
        <3> DEFINE r == [subs[s] EXCEPT !.task = FALSE]
        <3>1. subs' = [subs EXCEPT ![s] = r]
            BY <2>2 DEF CandidateDone
        <3>2. /\ r.result = subs[s].result /\ r.nonce = subs[s].nonce /\ r.claimed = subs[s].claimed
              /\ r.job = subs[s].job
            BY <1>9 DEF SubStates
        <3> HIDE DEF r
        <3> QED BY <1>1, <3>1, <3>2
    <2> QED BY <1>16, <2>1, <2>2
<1>17. /\ subs[t].result = "accepted" /\ subs'[t].job = subs[t].job
       /\ subs'[t].nonce = subs[t].nonce /\ subs'[t].claimed = subs[t].claimed
    <2>1. CASE UNCHANGED vars
        BY <1>3, <2>1 DEF vars
    <2>2. CASE EventLoopStep
        BY <1>3, <1>7, <2>2
    <2>3. ASSUME NEW s \in Submissions, WorkerStep(s) PROVE subs'[t] = subs[t] \/ DropLease(s)
        BY <1>8, <1>10, <1>11, <1>12, <1>13, <1>15, <2>3 DEF WorkerStep
    <2>4. ASSUME NEW s \in Submissions, VerifierStep(s) PROVE subs'[t] = subs[t]
        BY <1>8, <1>14, <2>4 DEF VerifierStep
    <2>5. ASSUME NEW s \in Submissions, CandidateStep(s) PROVE CandidateDone(s)
        BY <2>5 DEF CandidateStep
    <2> QED BY <1>3, <1>16, <2>1, <2>2, <2>3, <2>4, <2>5 DEF Next
<1> QED BY <1>6, <1>17 DEF CreditedHash

\* Work is credited once: a credited key stays in the registry for as long as its job is
\* live or leased, so no second submission for that job can reserve it; and nobody is
\* credited without a lease.
THEOREM CreditedOnceAlways == AdmissionSpec => []CreditedOnce
<1>1. Init => CreditedOnce
    BY NoSubmissionType DEF Init, CreditedOnce
<1>2. AdmissionInv /\ AdmissionInv' /\ CreditedOnce /\ [Next]_vars => CreditedOnce'
    <2> SUFFICES ASSUME AdmissionInv, AdmissionInv', CreditedOnce, [Next]_vars,
                        NEW s \in Submissions, NEW t \in Submissions, s # t,
                        subs'[s].result = "accepted", subs'[t].result = "accepted",
                        subs'[s].job = subs'[t].job, CreditedHash(s)' = CreditedHash(t)'
                 PROVE  FALSE
        BY DEF CreditedOnce
    <2>1. CASE ~subs'[s].lease /\ ~subs'[t].lease
        <3>1. /\ subs[s].result = "accepted" /\ subs'[s].job = subs[s].job /\ CreditedHash(s)' = CreditedHash(s)
              /\ subs[t].result = "accepted" /\ subs'[t].job = subs[t].job /\ CreditedHash(t)' = CreditedHash(t)
            BY <2>1, CreditIsEarlier
        <3> QED BY <3>1 DEF CreditedOnce
    <2>2. CASE subs'[s].lease \/ subs'[t].lease
        <3>1. Entry(s, CreditedHash(s))' \in registry'.entries /\ Entry(t, CreditedHash(t))' \in registry'.entries
            BY <2>2 DEF AdmissionInv, CreditIsKept
        <3>2. \A e, f \in registry'.entries : e.key = f.key => e = f
            BY DEF AdmissionInv, TypeInv, RegistryOK
        <3>3. Entry(s, CreditedHash(s))'.key = Entry(t, CreditedHash(t))'.key
            BY DEF Entry, Key
        <3>4. Entry(s, CreditedHash(s))'.owner = s /\ Entry(t, CreditedHash(t))'.owner = t
            BY DEF Entry
        <3> QED BY <3>1, <3>2, <3>3, <3>4
    <2> QED BY <2>1, <2>2
<1> QED BY <1>1, <1>2, AdmissionIsSafe, PTL DEF AdmissionSpec

\* The references of a bucket, counted.
LEMMA ReferencesCounted ==
    ASSUME AdmissionInv, NEW b \in Buckets
    PROVE  /\ JobsIn(live, JobBuckets, b) = {j \in live : BucketOf(j) = b}
           /\ Cardinality(JobsIn(live, JobBuckets, b)) \in 0..MaxJobs
           /\ Cardinality(LeasesIn(b)) \in 0..Cardinality(Submissions)
           /\ Cardinality(TasksIn(b)) \in 0..Cardinality(Submissions)
           /\ registry.buckets[b].references =
                  Cardinality(JobsIn(live, JobBuckets, b)) + Cardinality(LeasesIn(b)) + Cardinality(TasksIn(b))
<1>1. /\ \A j \in live : j \in 1..Len(jobs) /\ JobBuckets[j] = BucketOf(j)
      /\ Len(jobs) \in Nat /\ Len(jobs) <= MaxJobs /\ MaxJobs \in Nat
    BY JobFacts, AdmissionAssumption DEF AdmissionInv, TypeInv
<1>2. JobsIn(live, JobBuckets, b) = {j \in live : BucketOf(j) = b}
    BY <1>1 DEF JobsIn
<1>3. Cardinality(JobsIn(live, JobBuckets, b)) \in 0..MaxJobs
    <2>1. IsFiniteSet(1..Len(jobs)) /\ Cardinality(1..Len(jobs)) = Len(jobs)
        <3>1. PICK n \in Nat : n = Len(jobs)
            BY <1>1
        <3>2. IsFiniteSet(1..n) /\ Cardinality(1..n) = IF 1 > n THEN 0 ELSE n - 1 + 1
            BY SMTT(30), FS_Interval
        <3> QED BY SMTT(30), <3>1, <3>2
    <2>2. JobsIn(live, JobBuckets, b) \subseteq 1..Len(jobs)
        BY <1>1 DEF JobsIn
    <2>3. /\ IsFiniteSet(JobsIn(live, JobBuckets, b))
          /\ Cardinality(JobsIn(live, JobBuckets, b)) <= Cardinality(1..Len(jobs))
        BY <2>1, <2>2, FS_Subset
    <2>4. Cardinality(JobsIn(live, JobBuckets, b)) \in Nat
        BY <2>3, FS_CardinalityType
    <2> QED BY SMTT(30), <1>1, <2>1, <2>3, <2>4
<1>4. /\ Cardinality(LeasesIn(b)) \in 0..Cardinality(Submissions)
      /\ Cardinality(TasksIn(b)) \in 0..Cardinality(Submissions)
    <2>1. IsFiniteSet(Submissions) /\ Cardinality(Submissions) \in Nat
        BY SubmissionsFinite
    <2>2. LeasesIn(b) \subseteq Submissions /\ TasksIn(b) \subseteq Submissions
        BY DEF LeasesIn, TasksIn
    <2>3. /\ Cardinality(LeasesIn(b)) <= Cardinality(Submissions) /\ Cardinality(LeasesIn(b)) \in Nat
          /\ Cardinality(TasksIn(b)) <= Cardinality(Submissions) /\ Cardinality(TasksIn(b)) \in Nat
        BY <2>1, <2>2, FS_Subset, SubmissionsFinite
    <2> QED BY SMTT(30), <2>1, <2>3
<1>5. registry.buckets[b].references = Cardinality(JobsIn(live, JobBuckets, b)) + Holders[b]
    BY DEF AdmissionInv, BucketsOK
<1>6. Holders[b] = Cardinality(LeasesIn(b)) + Cardinality(TasksIn(b))
    BY DEF Holders
<1>7. registry.buckets[b].references =
          Cardinality(JobsIn(live, JobBuckets, b)) + Cardinality(LeasesIn(b)) + Cardinality(TasksIn(b))
    BY SMTT(30), <1>3, <1>4, <1>5, <1>6, SubmissionsFinite
<1> QED BY <1>2, <1>3, <1>4, <1>7

LEMMA InvTypes == AdmissionInv => AdmissionTypeOK
<1> SUFFICES ASSUME AdmissionInv PROVE AdmissionTypeOK
    OBVIOUS
<1> DEFINE bound == MaxJobs + 2 * Cardinality(Submissions)
<1>1. /\ verified \in Modes /\ jobs \in Seq(Jobs) /\ Len(jobs) <= MaxJobs /\ live \subseteq 1..Len(jobs)
      /\ pending \in [Sources -> 0..MaxVerifications] /\ subs \in [Submissions -> SubStates]
      /\ candidates \subseteq Keys /\ fatal = FALSE /\ connections \in [Sources -> Connections]
      /\ RegistryOK(registry)
    <2>1. fatal \in {TRUE, FALSE} => fatal = FALSE
        BY DEF AdmissionInv
    <2> QED BY SMTT(30), <2>1 DEF AdmissionInv, TypeInv
<1>2. Cardinality(Submissions) \in Nat /\ MaxJobs \in Nat
    BY SubmissionsFinite, AdmissionAssumption
<1>3. RegistryTypeOK(Submissions, bound)
    <2>1. /\ registry.entries \subseteq Entries /\ Cardinality(registry.entries) <= GlobalCapacity
          /\ registry.buckets \in [Buckets -> [references : Nat, retired : BOOLEAN]]
          /\ \A e, f \in registry.entries : e.key = f.key => e = f
        BY <1>1 DEF RegistryOK, Registries
    <2>2. ASSUME NEW b \in Buckets PROVE registry.buckets[b] \in [references : 0..bound, retired : BOOLEAN]
        <3>1. registry.buckets[b].references \in 0..bound
            BY SMTT(30), <1>2, ReferencesCounted
        <3> HIDE DEF bound
        <3> QED BY <2>1, <3>1
    <2>3. registry.buckets \in [Buckets -> [references : 0..bound, retired : BOOLEAN]]
        BY <2>1, <2>2
    <2> HIDE DEF bound
    <2> QED BY <2>1, <2>3 DEF RegistryTypeOK, Entries
<1>4. connections \in [Sources -> [socket : {"new", "open", "overflow", "closing"},
                                   row : {"none", "open", "closed"}, known : BOOLEAN,
                                   latest : Heights \cup {0},
                                   accepted_submits : 0..Cardinality(Submissions),
                                   deferred : BOOLEAN]]
    <2>1. ASSUME NEW c \in Sources PROVE connections[c].accepted_submits \in 0..Cardinality(Submissions)
        <3>1. connections[c].accepted_submits = Cardinality(FlightOf(c))
            BY DEF AdmissionInv, ConnIsConsistent
        <3>2. FlightOf(c) \subseteq Submissions /\ IsFiniteSet(Submissions)
            BY SubmissionsFinite DEF FlightOf
        <3>3. Cardinality(FlightOf(c)) <= Cardinality(Submissions) /\ Cardinality(FlightOf(c)) \in Nat
            BY <3>2, FS_Subset, SubmissionsFinite
        <3> QED BY SMTT(30), <1>2, <3>1, <3>3
    <2> QED BY <1>1, <2>1 DEF Connections
<1> QED BY <1>1, <1>3, <1>4 DEF AdmissionTypeOK, Jobs, SubStates

LEMMA InvReferences == AdmissionInv => ReferencesAreExact
<1> SUFFICES ASSUME AdmissionInv PROVE ReferencesAreExact
    OBVIOUS
<1>1. ASSUME NEW b \in Buckets
      PROVE  /\ registry.buckets[b].references =
                    Cardinality({j \in live : BucketOf(j) = b})
                    + Cardinality({s \in Submissions : subs[s].lease /\ Bucket(s) = b})
                    + Cardinality({s \in Submissions : subs[s].task /\ Bucket(s) = b})
             /\ registry.buckets[b].references = 0 => KeysOf(registry, b) = {}
    <2>1. /\ registry.buckets[b].references =
                 Cardinality({j \in live : BucketOf(j) = b}) + Cardinality(LeasesIn(b)) + Cardinality(TasksIn(b))
        BY ReferencesCounted
    <2>2. registry.buckets[b].references = 0 => KeysOf(registry, b) = {}
        BY DEF AdmissionInv, BucketsOK, KeysOf
    <2> QED BY <2>1, <2>2 DEF LeasesIn, TasksIn
<1>2. \A c \in Sources : pending[c] = Cardinality({s \in Verifying : subs[s].conn = c})
    BY DEF AdmissionInv, WaitingOf
<1> QED BY <1>1, <1>2 DEF ReferencesAreExact

LEMMA InvConnections == AdmissionInv => ConnectionOutlivesItsShares
<1> SUFFICES ASSUME AdmissionInv, NEW c \in Sources, connections[c].socket = "closing",
                    \A s \in Submissions : subs[s].pc \in {"none", "done"}
             PROVE  /\ connections[c].row = "closed" /\ ~connections[c].known
                    /\ JobsOf(c) = {}
                    /\ \A e \in registry.entries : e.bucket[1] = c =>
                           \E s \in Submissions : subs[s].task /\ Bucket(s) = e.bucket
    BY DEF ConnectionOutlivesItsShares, AdmissionInv
<1>1. FlightOf(c) = {} /\ \A b \in Buckets : LeasesIn(b) = {}
    BY DEF FlightOf, LeasesIn, InFlight, AdmissionInv, SubIsConsistent
<1>2. ConnIsConsistent(c) /\ Cardinality({}) = 0
    BY FS_EmptySet DEF AdmissionInv
<1>3. connections[c].row = "closed" /\ ~connections[c].known /\ JobsOf(c) = {}
    BY SMTT(30), <1>1, <1>2 DEF ConnIsConsistent
<1>4. ASSUME NEW e \in registry.entries, e.bucket[1] = c
      PROVE  \E s \in Submissions : subs[s].task /\ Bucket(s) = e.bucket
    <2>1. e \in Entries
        BY <1>4 DEF AdmissionInv, TypeInv, RegistryOK, Registries
    <2>2. PICK b \in Buckets : b = e.bucket
        BY <2>1 DEF Entries
    <2>3. registry.buckets[b].references # 0
        BY <2>2 DEF AdmissionInv, BucketsOK
    <2>4. JobsIn(live, JobBuckets, b) = {}
        BY SMTT(30), <1>3, <1>4, <2>2, JobFacts DEF JobsIn, JobsOf, AdmissionInv
    <2>5. Cardinality(TasksIn(b)) # 0
        <3>1. registry.buckets[b].references = 0 + 0 + Cardinality(TasksIn(b)) /\ Cardinality(TasksIn(b)) \in Nat
            <4>1. /\ Cardinality(TasksIn(b)) \in 0..Cardinality(Submissions)
                  /\ registry.buckets[b].references =
                         Cardinality(JobsIn(live, JobBuckets, b)) + Cardinality(LeasesIn(b)) + Cardinality(TasksIn(b))
                BY ReferencesCounted
            <4>2. Cardinality(JobsIn(live, JobBuckets, b)) = 0 /\ Cardinality(LeasesIn(b)) = 0
                BY <1>1, <1>2, <2>4
            <4> QED BY SMTT(30), <4>1, <4>2, SubmissionsFinite
        <3> QED BY SMTT(30), <2>3, <3>1
    <2>6. TasksIn(b) # {}
        BY <1>2, <2>5
    <2> QED BY <2>2, <2>6 DEF TasksIn
<1> QED BY <1>3, <1>4

\* Nothing is collected while it is needed and nothing is left when it is not: the
\* references of retain_height and release_height are the live jobs, leases and tasks, the
\* verification slots are the waiting shares, and a connection outlives its shares.
THEOREM NothingLeaksAlways == AdmissionSpec => []NothingLeaks
<1>1. AdmissionInv => NothingLeaks
    BY InvTypes, InvReferences, InvConnections DEF NothingLeaks
<1> QED BY <1>1, AdmissionIsSafe, PTL

===============================================================================
