--------------------------- MODULE SeedRotationInv ----------------------------
(***************************************************************************)
(* The inductive invariant of SeedRotation and the parts it is made of,    *)
(* with the shapes of steps that SeedRotationProofs reasons about.         *)
(***************************************************************************)
EXTENDS SeedRotation

-----------------------------------------------------------------------------
NativeStates == {"absent", "preparing", "ready", "failed", "releasing"}

Records == [hash : Hashes \cup {NoSeed}, native : NativeStates,
            known : BOOLEAN, release_requested : BOOLEAN, release_started : BOOLEAN,
            references : Nat, tracked : Nat]

Verifiers == [current : SeedIds \cup {NoSeed}, seeds : [SeedIds -> Records]]

\* A release begins only when it was requested and nothing counts on the seed, and
\* what is counted is counted on a seed that is ready.
RecordIsSound(r) ==
    /\ ~r.known => r = NoRecord
    /\ r.known => r.hash \in Hashes
    /\ r.known => (r.native \in {"absent", "releasing"} <=> r.release_started)
    /\ r.release_started => r.release_requested /\ r.references = 0 /\ r.tracked = 0
    /\ r.references > 0 \/ r.tracked > 0 => r.native = "ready"

InLibrary(v) == {s \in SeedIds : v.seeds[s].native # "absent"}

VerifierIsSound(v) ==
    /\ v \in Verifiers
    /\ \A s \in SeedIds : RecordIsSound(v.seeds[s])
    /\ \A s, t \in SeedIds :
          v.seeds[s].known /\ v.seeds[t].known /\ v.seeds[s].hash = v.seeds[t].hash => s = t
    /\ IsFiniteSet(InLibrary(v)) /\ Cardinality(InLibrary(v)) <= MaxSeeds

\* A seed that is kept: nobody requested its release, and it is ready.
Wanted(v, s) == s \in SeedIds /\ v.seeds[s].known /\ ~v.seeds[s].release_requested

Held(v, s) == Wanted(v, s) /\ v.seeds[s].native = "ready"

ThreadsTyped ==
    /\ daemon \in [height : Heights, next : Hashes \cup {NoSeed}, top : Heights, moves : 0..MaxMoves]
    /\ refresh \in [pc : {"idle", "parse", "hold", "reclaim", "await", "prepare", "wait", "prefetch",
                          "publish", "allow", "retire"},
                    height : Heights \cup {0}, next : Hashes \cup {NoSeed},
                    obsolete : SUBSET SeedIds, seed : SeedIds \cup {NoSeed}]
    /\ template \in Templates
    /\ allowed \in BOOLEAN
    /\ deriving \in [conn : Connections, template : Templates]
    /\ socket \in [Connections -> {"new", "open", "closed"}]
    /\ stale \subseteq Connections
    /\ jobs \subseteq [conn : Connections, height : Heights, seed : SeedIds]
    /\ shares \in [Shares -> [seed : SeedIds \cup {NoSeed}, lease : BOOLEAN, verifying : BOOLEAN]]
    /\ failures \in 0..MaxFailures

\* The template's seed is held from the moment it is installed, and so is the seed of
\* the job being derived; that is another one only until AllowIssuance.
TemplateIsHeld ==
    /\ template # NoTemplate => template.height \in Heights /\ Held(verifier, template.seed)
    /\ allowed => template # NoTemplate
    /\ deriving.template # NoTemplate =>
          /\ deriving.template.height \in Heights /\ Held(verifier, deriving.template.seed)
          /\ deriving.template.seed = template.seed \/ refresh.pc = "allow"

\* Where the template thread is, and what it may count on there.
RefreshAgrees ==
    /\ refresh.pc # "idle" => refresh.height \in Heights
    /\ template.seed \notin refresh.obsolete
    /\ refresh.pc \notin {"hold", "reclaim", "await"} => refresh.obsolete = {}
    /\ refresh.pc = "await" => refresh.obsolete # {}
    /\ refresh.pc = "wait" => Wanted(verifier, refresh.seed)
    /\ refresh.pc \in {"prefetch", "publish"} => Held(verifier, refresh.seed)
    /\ refresh.pc = "allow" => template # NoTemplate

CountsAgree ==
    /\ IsFiniteSet(jobs)
    /\ \A s \in SeedIds :
          /\ verifier.seeds[s].references = Cardinality(JobsOn(s)) + Cardinality(LeasesOn(s))
          /\ verifier.seeds[s].tracked = Cardinality(VerificationsOn(s))
    /\ \A x \in Shares : shares[x].lease \/ shares[x].verifying => shares[x].seed \in SeedIds
    /\ Cardinality(Outstanding) <= MaxOutstanding

RotationInv ==
    VerifierIsSound(verifier) /\ ThreadsTyped /\ TemplateIsHeld /\ RefreshAgrees /\ CountsAgree

\* What a call may do to a record: no other id gets its hash, and what was gone stays
\* gone; and what it may do to the counters and to a seed that is kept.
SoundStep(q, r) ==
    /\ r \in Records /\ RecordIsSound(r)
    /\ r.known => q.known /\ r.hash = q.hash
    /\ r.native # "absent" => q.native # "absent"

KeepsWanted(q, r) ==
    q.known /\ ~q.release_requested =>
        r.known /\ ~r.release_requested /\ (q.native = "ready" => r.native = "ready")

SameCounts(q, r) == r.references = q.references /\ r.tracked = q.tracked

\* The calls.  Keeps: no seed that is kept is given up.
Keeps(v, w) == \A t \in SeedIds : KeepsWanted(v.seeds[t], w.seeds[t])

CountsStay(v, w) == \A t \in SeedIds : SameCounts(v.seeds[t], w.seeds[t])

\* w is v with r as the record of s.
Changed(v, w, s, r) ==
    /\ w \in Verifiers /\ w.current = v.current
    /\ w.seeds[s] = r /\ \A t \in SeedIds : t # s => w.seeds[t] = v.seeds[t]

\* The counters of a seed that is ready change.
WithCounts(q, n, m) == [q EXCEPT !.references = n, !.tracked = m]

\* The counters of s become n and m.
Counted(v, w, s, n, m) ==
    /\ w.seeds[s].references = n /\ w.seeds[s].tracked = m
    /\ \A t \in SeedIds : t # s => SameCounts(v.seeds[t], w.seeds[t])

\* retire_job_context for each of several jobs, on seeds that count at least as many.
GoneOn(gone, s) == {j \in gone : j.seed = s}

\* The template thread.
RefreshTypes == [pc : {"idle", "parse", "hold", "reclaim", "await", "prepare", "wait", "prefetch",
                       "publish", "allow", "retire"},
                 height : Heights \cup {0}, next : Hashes \cup {NoSeed},
                 obsolete : SUBSET SeedIds, seed : SeedIds \cup {NoSeed}]

\* The shares.
ShareRecords == [seed : SeedIds \cup {NoSeed}, lease : BOOLEAN, verifying : BOOLEAN]

\* The references of v are those of the jobs J and of the leases.
Counts(v, J) ==
    \A s \in SeedIds : v.seeds[s].references = Cardinality(GoneOn(J, s)) + Cardinality(LeasesOn(s))

SameTracked(v, w) == \A s \in SeedIds : w.seeds[s].tracked = v.seeds[s].tracked

===============================================================================
