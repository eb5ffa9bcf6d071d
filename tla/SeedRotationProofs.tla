-------------------------- MODULE SeedRotationProofs --------------------------
(***************************************************************************)
(* Proofs about SeedRotation, for any number of jobs, shares and seeds: a  *)
(* seed that is in use stays ready.                                        *)
(***************************************************************************)
EXTENDS SeedRotationInv, FiniteSetTheorems, TLAPS

\* Leaves that need arithmetic or extensionality name SMT; the others are for Zenon.
USE ZenonT(30), SMTT(30)

-----------------------------------------------------------------------------
LEMMA SoundSteps ==
    ASSUME NEW v, NEW w \in Verifiers, VerifierIsSound(v),
           \A s \in SeedIds : SoundStep(v.seeds[s], w.seeds[s])
    PROVE  VerifierIsSound(w)
<1>1. \A s \in SeedIds : RecordIsSound(w.seeds[s])  BY DEF SoundStep
<1>2. ASSUME NEW s \in SeedIds, NEW t \in SeedIds, w.seeds[s].known, w.seeds[t].known,
             w.seeds[s].hash = w.seeds[t].hash
      PROVE  s = t
  BY <1>2 DEF SoundStep, VerifierIsSound
<1>3. InLibrary(w) \in SUBSET InLibrary(v)  BY DEF InLibrary, SoundStep
<1>4. IsFiniteSet(InLibrary(v)) /\ Cardinality(InLibrary(v)) <= MaxSeeds  BY DEF VerifierIsSound
<1>5. IsFiniteSet(InLibrary(w)) /\ Cardinality(InLibrary(w)) <= Cardinality(InLibrary(v))
  BY <1>3, <1>4, FS_Subset
<1>6. Cardinality(InLibrary(w)) \in Nat /\ Cardinality(InLibrary(v)) \in Nat /\ MaxSeeds \in Nat
  BY <1>4, <1>5, FS_CardinalityType, SeedsAssumption
<1>7. Cardinality(InLibrary(w)) <= MaxSeeds  BY SMTT(30), <1>4, <1>5, <1>6
<1>. QED  BY <1>1, <1>2, <1>5, <1>7 DEF VerifierIsSound

\* The step that leaves the record as it is, and the one that drops what has gone.
LEMMA RecordStays ==
    ASSUME NEW q \in Records, RecordIsSound(q)
    PROVE  SoundStep(q, q) /\ KeepsWanted(q, q) /\ SameCounts(q, q)
BY DEF SoundStep, KeepsWanted, SameCounts

LEMMA NoRecordFacts ==
    /\ NoRecord \in Records /\ RecordIsSound(NoRecord)
    /\ ~NoRecord.known /\ ~NoRecord.release_requested /\ ~NoRecord.release_started
    /\ NoRecord.native = "absent" /\ NoRecord.references = 0 /\ NoRecord.tracked = 0
<1>1. /\ NoRecord.known = FALSE /\ NoRecord.release_requested = FALSE /\ NoRecord.release_started = FALSE
      /\ NoRecord.native = "absent" /\ NoRecord.references = 0 /\ NoRecord.tracked = 0
  BY DEF NoRecord
<1>2. NoRecord \in Records  BY DEF NoRecord, Records, NativeStates
<1>3. RecordIsSound(NoRecord)  BY SMTT(30), <1>1 DEF RecordIsSound
<1>. QED  BY <1>1, <1>2, <1>3

LEMMA RecordDropped ==
    ASSUME NEW q \in Records, RecordIsSound(q), ~q.known \/ q.native = "absent"
    PROVE  SoundStep(q, NoRecord) /\ KeepsWanted(q, NoRecord) /\ SameCounts(q, NoRecord)
<1>1. CASE ~q.known
  <2>1. q = NoRecord  BY <1>1 DEF RecordIsSound
  <2>. QED  BY <2>1, RecordStays
<1>2. CASE q.known /\ q.native = "absent"
  <2>1. q.release_started /\ q.release_requested /\ q.references = 0 /\ q.tracked = 0
    BY <1>2 DEF RecordIsSound
  <2>. QED  BY <2>1, NoRecordFacts DEF SoundStep, KeepsWanted, SameCounts
<1>. QED  BY <1>1, <1>2

\* maybe_begin_seed_release_locked
LEMMA RecordReleased ==
    ASSUME NEW q \in Records, RecordIsSound(q), q.release_requested, ~q.release_started,
           q.references = 0, q.tracked = 0,
           NEW r, r = [q EXCEPT !.release_started = TRUE, !.native = "releasing"]
    PROVE  SoundStep(q, r) /\ KeepsWanted(q, r) /\ SameCounts(q, r)
<1>1. /\ r.hash = q.hash /\ r.known = q.known /\ r.release_requested = q.release_requested
      /\ r.release_started = TRUE /\ r.native = "releasing"
      /\ r.references = q.references /\ r.tracked = q.tracked
  BY DEF Records
<1>2. "releasing" \in NativeStates /\ TRUE \in BOOLEAN  BY DEF NativeStates
<1>3. r \in Records  BY <1>2 DEF Records
<1>4. q.known  BY NoRecordFacts DEF RecordIsSound
<1>5. q.native # "absent"  BY <1>4 DEF RecordIsSound
<1>6. RecordIsSound(r)  BY SMTT(30), <1>1, <1>4 DEF RecordIsSound
<1>. QED  BY <1>1, <1>3, <1>4, <1>5, <1>6 DEF SoundStep, KeepsWanted, SameCounts

-----------------------------------------------------------------------------
LEMMA OneRecord ==
    ASSUME NEW v, VerifierIsSound(v), NEW s \in SeedIds, NEW r, SoundStep(v.seeds[s], r),
           NEW w, Changed(v, w, s, r)
    PROVE  VerifierIsSound(w)
<1>1. w \in Verifiers /\ w.seeds[s] = r /\ \A t \in SeedIds : t # s => w.seeds[t] = v.seeds[t]
  BY DEF Changed
<1>2. ASSUME NEW t \in SeedIds PROVE SoundStep(v.seeds[t], w.seeds[t])
  <2>1. CASE t = s  BY <1>1, <2>1
  <2>2. CASE t # s
    <3>1. v.seeds[t] \in Records /\ RecordIsSound(v.seeds[t])  BY DEF VerifierIsSound, Verifiers
    <3>. QED  BY <1>1, <2>2, <3>1, RecordStays
  <2>. QED  BY <2>1, <2>2
<1>. QED  BY <1>1, <1>2, SoundSteps

LEMMA ChangedBy ==
    ASSUME NEW v \in Verifiers, NEW s \in SeedIds, NEW r \in Records
    PROVE  Changed(v, [v EXCEPT !.seeds[s] = r], s, r)
BY DEF Changed, Verifiers

LEMMA RecordOf ==
    ASSUME NEW v, VerifierIsSound(v), NEW s \in SeedIds
    PROVE  /\ v.seeds[s] \in Records /\ RecordIsSound(v.seeds[s])
           /\ v.seeds[s].references \in Nat /\ v.seeds[s].tracked \in Nat
BY DEF VerifierIsSound, Verifiers, Records

\* A call that changes the record of s, and may then begin its release.
LEMMA MaybeBegun ==
    ASSUME NEW v, VerifierIsSound(v), NEW s \in SeedIds, NEW w, w = MaybeBeginRelease(v, s)
    PROVE  /\ VerifierIsSound(w) /\ w.current = v.current
           /\ SoundStep(v.seeds[s], w.seeds[s])
           /\ KeepsWanted(v.seeds[s], w.seeds[s]) /\ SameCounts(v.seeds[s], w.seeds[s])
           /\ \A t \in SeedIds : t # s => w.seeds[t] = v.seeds[t]
<1>. DEFINE q == v.seeds[s]
<1>1. q \in Records /\ RecordIsSound(q)  BY RecordOf
<1>2. CASE MayRelease(v, s)
  <2>. DEFINE r == [q EXCEPT !.release_started = TRUE, !.native = "releasing"]
  <2>1. SoundStep(q, r) /\ KeepsWanted(q, r) /\ SameCounts(q, r)
    <3>1. q.release_requested /\ ~q.release_started /\ q.references = 0 /\ q.tracked = 0
      BY <1>2 DEF MayRelease
    <3>. HIDE DEF q
    <3>. QED  BY <1>1, <3>1, RecordReleased
  <2>2. w = [v EXCEPT !.seeds[s] = r]
    <3>1. w = [v EXCEPT !.seeds[s].release_started = TRUE, !.seeds[s].native = "releasing"]
      BY <1>2 DEF MaybeBeginRelease
    <3>. QED  BY <3>1 DEF VerifierIsSound, Verifiers
  <2>. HIDE DEF r
  <2>3. Changed(v, w, s, r)  BY SMTT(30), <2>1, <2>2, ChangedBy DEF SoundStep, VerifierIsSound
  <2>4. VerifierIsSound(w)  BY <2>1, <2>3, OneRecord
  <2>. QED  BY <2>1, <2>3, <2>4 DEF Changed
<1>3. CASE ~MayRelease(v, s)
  <2>1. w = v  BY <1>3 DEF MaybeBeginRelease
  <2>2. /\ SoundStep(v.seeds[s], v.seeds[s]) /\ KeepsWanted(v.seeds[s], v.seeds[s])
        /\ SameCounts(v.seeds[s], v.seeds[s])
    BY <1>1, RecordStays
  <2>. QED  BY <2>1, <2>2
<1>. QED  BY <1>2, <1>3

LEMMA Begun ==
    ASSUME NEW v, VerifierIsSound(v), NEW s \in SeedIds, NEW w, w = MaybeBeginRelease(v, s)
    PROVE  VerifierIsSound(w) /\ w.current = v.current /\ Keeps(v, w) /\ CountsStay(v, w)
<1>1. /\ VerifierIsSound(w) /\ w.current = v.current
      /\ KeepsWanted(v.seeds[s], w.seeds[s]) /\ SameCounts(v.seeds[s], w.seeds[s])
      /\ \A t \in SeedIds : t # s => w.seeds[t] = v.seeds[t]
  BY MaybeBegun
<1>2. ASSUME NEW t \in SeedIds PROVE KeepsWanted(v.seeds[t], w.seeds[t]) /\ SameCounts(v.seeds[t], w.seeds[t])
  <2>1. CASE t = s  BY <1>1, <2>1
  <2>2. CASE t # s  BY <1>1, <2>2, RecordOf, RecordStays
  <2>. QED  BY <2>1, <2>2
<1>. QED  BY <1>1, <1>2 DEF Keeps, CountsStay

LEMMA RecordCounted ==
    ASSUME NEW q \in Records, RecordIsSound(q), q.native = "ready", NEW n \in Nat, NEW m \in Nat
    PROVE  /\ SoundStep(q, WithCounts(q, n, m)) /\ KeepsWanted(q, WithCounts(q, n, m))
           /\ WithCounts(q, n, m).references = n /\ WithCounts(q, n, m).tracked = m
<1>. DEFINE r == WithCounts(q, n, m)
<1>1. /\ r.hash = q.hash /\ r.known = q.known /\ r.release_requested = q.release_requested
      /\ r.release_started = q.release_started /\ r.native = q.native
      /\ r.references = n /\ r.tracked = m
  BY DEF Records, WithCounts
<1>2. r \in Records  BY DEF Records, WithCounts
<1>. HIDE DEF r
<1>3. q.known  BY NoRecordFacts DEF RecordIsSound
<1>4. ~q.release_started  BY <1>3 DEF RecordIsSound
<1>5. RecordIsSound(r)  BY <1>1, <1>3, <1>4 DEF RecordIsSound
<1>6. SoundStep(q, r) /\ KeepsWanted(q, r)  BY <1>1, <1>2, <1>5 DEF SoundStep, KeepsWanted
<1>. QED  BY <1>1, <1>6 DEF r

LEMMA ChangedKeeps ==
    ASSUME NEW v, VerifierIsSound(v), NEW s \in SeedIds, NEW r, KeepsWanted(v.seeds[s], r),
           NEW w, Changed(v, w, s, r)
    PROVE  Keeps(v, w)
<1>1. ASSUME NEW t \in SeedIds PROVE KeepsWanted(v.seeds[t], w.seeds[t])
  <2>1. CASE t = s  BY <2>1 DEF Changed
  <2>2. CASE t # s
    <3>1. w.seeds[t] = v.seeds[t]  BY <2>2 DEF Changed
    <3>. QED  BY <3>1, RecordOf, RecordStays
  <2>. QED  BY <2>1, <2>2
<1>. QED  BY <1>1 DEF Keeps

LEMMA KeepsTransitive ==
    ASSUME NEW u, NEW v, NEW w, Keeps(u, v), Keeps(v, w)
    PROVE  Keeps(u, w)
BY DEF Keeps, KeepsWanted

\* retain_seed, submit_locked, drop_seed_reference and correlate_completion_locked: the
\* counters of a seed that is ready change, and then its release may begin.
LEMMA CountersChange ==
    ASSUME NEW v, VerifierIsSound(v), NEW s \in SeedIds, v.seeds[s].native = "ready",
           NEW n \in Nat, NEW m \in Nat,
           NEW w, Changed(v, w, s, WithCounts(v.seeds[s], n, m))
    PROVE  /\ VerifierIsSound(w) /\ Keeps(v, w) /\ Counted(v, w, s, n, m)
           /\ VerifierIsSound(MaybeBeginRelease(w, s)) /\ Keeps(v, MaybeBeginRelease(w, s))
           /\ Counted(v, MaybeBeginRelease(w, s), s, n, m)
           /\ SoundStep(v.seeds[s], MaybeBeginRelease(w, s).seeds[s])
           /\ MaybeBeginRelease(w, s).current = v.current
           /\ \A t \in SeedIds : t # s => MaybeBeginRelease(w, s).seeds[t] = v.seeds[t]
<1>. DEFINE q == v.seeds[s]
            r == WithCounts(q, n, m)
            z == MaybeBeginRelease(w, s)
<1>1. q \in Records /\ RecordIsSound(q)  BY RecordOf
<1>2. SoundStep(q, r) /\ KeepsWanted(q, r) /\ r.references = n /\ r.tracked = m
  <2>1. q.native = "ready"  OBVIOUS
  <2>. HIDE DEF q
  <2>. QED  BY SMTT(30), <1>1, <2>1, RecordCounted
<1>. HIDE DEF r
<1>3. Changed(v, w, s, r)  BY DEF r
<1>4. VerifierIsSound(w) /\ Keeps(v, w)  BY <1>2, <1>3, OneRecord, ChangedKeeps
<1>5. \A t \in SeedIds : SameCounts(v.seeds[t], v.seeds[t])  BY RecordOf, RecordStays
<1>6. Counted(v, w, s, n, m)  BY <1>2, <1>3, <1>5 DEF Counted, Changed
<1>7. /\ VerifierIsSound(z) /\ z.current = w.current /\ Keeps(w, z) /\ CountsStay(w, z)
      /\ SoundStep(w.seeds[s], z.seeds[s]) /\ \A t \in SeedIds : t # s => z.seeds[t] = w.seeds[t]
  <2>1. z = MaybeBeginRelease(w, s)  OBVIOUS
  <2>. HIDE DEF z
  <2>2. VerifierIsSound(z) /\ z.current = w.current /\ Keeps(w, z) /\ CountsStay(w, z)
    BY <1>4, <2>1, Begun
  <2>3. /\ \A t \in SeedIds : t # s => z.seeds[t] = w.seeds[t]
        /\ SoundStep(w.seeds[s], z.seeds[s])
    BY <1>4, <2>1, MaybeBegun
  <2>. QED  BY <2>2, <2>3
<1>. HIDE DEF z
<1>8. Keeps(v, z)  BY <1>4, <1>7, KeepsTransitive
<1>9. Counted(v, z, s, n, m)  BY <1>6, <1>7 DEF Counted, CountsStay, SameCounts
<1>10. z.current = v.current /\ \A t \in SeedIds : t # s => z.seeds[t] = v.seeds[t]
  BY <1>3, <1>7 DEF Changed
<1>11. SoundStep(q, z.seeds[s])  BY <1>2, <1>3, <1>7 DEF Changed, SoundStep
<1>. QED  BY <1>4, <1>6, <1>7, <1>8, <1>9, <1>10, <1>11 DEF z

LEMMA ExceptCounts ==
    ASSUME NEW v \in Verifiers, NEW s \in SeedIds, NEW n \in Nat
    PROVE  /\ Changed(v, [v EXCEPT !.seeds[s].references = n], s,
                      WithCounts(v.seeds[s], n, v.seeds[s].tracked))
           /\ Changed(v, [v EXCEPT !.seeds[s].tracked = n], s,
                      WithCounts(v.seeds[s], v.seeds[s].references, n))
<1>1. v.seeds[s] \in Records  BY DEF Verifiers
<1>2. v.seeds[s].references \in Nat /\ v.seeds[s].tracked \in Nat  BY <1>1 DEF Records
<1>. DEFINE r == WithCounts(v.seeds[s], n, v.seeds[s].tracked)
            q == WithCounts(v.seeds[s], v.seeds[s].references, n)
<1>3. r = [v.seeds[s] EXCEPT !.references = n] /\ q = [v.seeds[s] EXCEPT !.tracked = n]
  BY <1>1 DEF Records, WithCounts
<1>4. r \in Records /\ q \in Records  BY <1>1, <1>2 DEF Records, WithCounts
<1>. HIDE DEF r, q
<1>5. [v EXCEPT !.seeds[s].references = n] = [v EXCEPT !.seeds[s] = r]  BY <1>3 DEF Verifiers
<1>6. [v EXCEPT !.seeds[s].tracked = n] = [v EXCEPT !.seeds[s] = q]  BY <1>3 DEF Verifiers
<1>7. Changed(v, [v EXCEPT !.seeds[s] = r], s, r) /\ Changed(v, [v EXCEPT !.seeds[s] = q], s, q)
  BY <1>4, ChangedBy
<1>8. Changed(v, [v EXCEPT !.seeds[s].references = n], s, r)  BY <1>5, <1>7
<1>9. Changed(v, [v EXCEPT !.seeds[s].tracked = n], s, q)  BY <1>6, <1>7
<1>. QED  BY <1>8, <1>9 DEF r, q

\* A seed with something counted on it is known and ready.
LEMMA CountedIsReady ==
    ASSUME NEW v, VerifierIsSound(v), NEW s \in SeedIds,
           v.seeds[s].references > 0 \/ v.seeds[s].tracked > 0
    PROVE  v.seeds[s].native = "ready" /\ v.seeds[s].known /\ ~v.seeds[s].release_started /\ Known(v, s)
<1>1. RecordIsSound(v.seeds[s])  BY RecordOf
<1>2. v.seeds[s].native = "ready" /\ v.seeds[s].known  BY <1>1, NoRecordFacts DEF RecordIsSound
<1>3. s # NoSeed  BY SeedsAssumption DEF NoSeed
<1>. QED  BY <1>1, <1>2, <1>3 DEF RecordIsSound, Known

LEMMA Retained ==
    ASSUME NEW v, VerifierIsSound(v), NEW s \in SeedIds, v.seeds[s].native = "ready"
    PROVE  /\ VerifierIsSound(RetainSeed(v, s)) /\ Keeps(v, RetainSeed(v, s))
           /\ Counted(v, RetainSeed(v, s), s, v.seeds[s].references + 1, v.seeds[s].tracked)
<1>1. v \in Verifiers /\ v.seeds[s].references + 1 \in Nat /\ v.seeds[s].tracked \in Nat
  BY SMTT(30), RecordOf DEF VerifierIsSound
<1>2. RetainSeed(v, s) = [v EXCEPT !.seeds[s].references = v.seeds[s].references + 1]
  BY <1>1 DEF RetainSeed, Verifiers
<1>3. Changed(v, RetainSeed(v, s), s, WithCounts(v.seeds[s], v.seeds[s].references + 1, v.seeds[s].tracked))
  BY <1>1, <1>2, ExceptCounts
<1>. QED  BY <1>1, <1>3, CountersChange

LEMMA Tracked ==
    ASSUME NEW v, VerifierIsSound(v), NEW s \in SeedIds, v.seeds[s].native = "ready"
    PROVE  /\ VerifierIsSound(TrackSubmission(v, s)) /\ Keeps(v, TrackSubmission(v, s))
           /\ Counted(v, TrackSubmission(v, s), s, v.seeds[s].references, v.seeds[s].tracked + 1)
<1>1. v \in Verifiers /\ v.seeds[s].tracked + 1 \in Nat /\ v.seeds[s].references \in Nat
  BY SMTT(30), RecordOf DEF VerifierIsSound
<1>2. TrackSubmission(v, s) = [v EXCEPT !.seeds[s].tracked = v.seeds[s].tracked + 1]
  BY <1>1 DEF TrackSubmission, Verifiers
<1>3. Changed(v, TrackSubmission(v, s), s, WithCounts(v.seeds[s], v.seeds[s].references, v.seeds[s].tracked + 1))
  BY <1>1, <1>2, ExceptCounts
<1>. QED  BY <1>1, <1>3, CountersChange

LEMMA Correlated ==
    ASSUME NEW v, VerifierIsSound(v), NEW s \in SeedIds, v.seeds[s].tracked > 0
    PROVE  /\ VerifierIsSound(CorrelateCompletion(v, s)) /\ Keeps(v, CorrelateCompletion(v, s))
           /\ Counted(v, CorrelateCompletion(v, s), s, v.seeds[s].references, v.seeds[s].tracked - 1)
<1>1. v \in Verifiers /\ v.seeds[s].tracked \in Nat /\ v.seeds[s].references \in Nat
  BY RecordOf DEF VerifierIsSound
<1>2. v.seeds[s].tracked - 1 \in Nat  BY SMTT(30), <1>1
<1>3. v.seeds[s].native = "ready" /\ Known(v, s)  BY CountedIsReady
<1>. DEFINE w == [v EXCEPT !.seeds[s].tracked = v.seeds[s].tracked - 1]
<1>4. CorrelateCompletion(v, s) = MaybeBeginRelease(w, s)
  BY <1>1, <1>3 DEF CorrelateCompletion, Verifiers
<1>5. Changed(v, w, s, WithCounts(v.seeds[s], v.seeds[s].references, v.seeds[s].tracked - 1))
  BY <1>1, <1>2, ExceptCounts
<1>. HIDE DEF w
<1>. QED  BY SMTT(30), <1>1, <1>2, <1>3, <1>4, <1>5, CountersChange

\* drop_seed_reference, as often as there are references or less.
LEMMA Dropped ==
    ASSUME NEW v, VerifierIsSound(v), NEW s \in SeedIds, NEW n \in Nat, n <= v.seeds[s].references,
           NEW z, z = DropSeedReferences(v, s, n)
    PROVE  /\ VerifierIsSound(z) /\ Keeps(v, z)
           /\ Counted(v, z, s, v.seeds[s].references - n, v.seeds[s].tracked)
           /\ SoundStep(v.seeds[s], z.seeds[s])
           /\ z.current = v.current /\ \A t \in SeedIds : t # s => z.seeds[t] = v.seeds[t]
<1>1. v \in Verifiers /\ v.seeds[s].tracked \in Nat /\ v.seeds[s].references \in Nat
  BY RecordOf DEF VerifierIsSound
<1>2. CASE n > 0
  <2>1. v.seeds[s].references > 0 /\ v.seeds[s].references - n \in Nat  BY SMTT(30), <1>1, <1>2
  <2>2. v.seeds[s].native = "ready" /\ Known(v, s)  BY <2>1, CountedIsReady
  <2>. DEFINE w == [v EXCEPT !.seeds[s].references = v.seeds[s].references - n]
  <2>3. z = MaybeBeginRelease(w, s)
    <3>1. (IF v.seeds[s].references > n THEN v.seeds[s].references - n ELSE 0) = v.seeds[s].references - n
      BY SMTT(30), <1>1
    <3>2. z = MaybeBeginRelease([v EXCEPT !.seeds[s].references =
                                    IF v.seeds[s].references > n THEN v.seeds[s].references - n ELSE 0], s)
      BY <1>1, <1>2, <2>1, <2>2 DEF DropSeedReferences, Verifiers
    <3>. QED  BY <3>1, <3>2
  <2>4. Changed(v, w, s, WithCounts(v.seeds[s], v.seeds[s].references - n, v.seeds[s].tracked))
    BY <1>1, <2>1, ExceptCounts
  <2>. HIDE DEF w
  <2>. QED  BY SMTT(30), <1>1, <2>1, <2>2, <2>3, <2>4, CountersChange
<1>3. CASE n = 0
  <2>1. z = v /\ v.seeds[s].references - n = v.seeds[s].references  BY SMTT(30), <1>1, <1>3 DEF DropSeedReferences
  <2>2. \A t \in SeedIds : /\ SoundStep(v.seeds[t], v.seeds[t]) /\ KeepsWanted(v.seeds[t], v.seeds[t])
                           /\ SameCounts(v.seeds[t], v.seeds[t])
    BY RecordOf, RecordStays
  <2>. QED  BY <2>1, <2>2 DEF Keeps, Counted
<1>. QED  BY SMTT(30), <1>2, <1>3

\* request_seed_release: of one seed, which is then no longer kept.
LEMMA Requested ==
    ASSUME NEW v, VerifierIsSound(v), NEW s \in SeedIds, NEW z, z = RequestSeedRelease(v, s)
    PROVE  /\ VerifierIsSound(z) /\ CountsStay(v, z) /\ z.current = v.current
           /\ \A t \in SeedIds : t # s => z.seeds[t] = v.seeds[t]
<1>1. v \in Verifiers /\ v.seeds[s] \in Records /\ RecordIsSound(v.seeds[s])
  BY RecordOf DEF VerifierIsSound
<1>2. CASE Known(v, s)
  <2>. DEFINE q == v.seeds[s]
              r == [q EXCEPT !.release_requested = TRUE]
              w == [v EXCEPT !.seeds[s] = r]
  <2>1. /\ r.hash = q.hash /\ r.known = q.known /\ r.release_requested = TRUE
        /\ r.release_started = q.release_started /\ r.native = q.native
        /\ r.references = q.references /\ r.tracked = q.tracked
    BY <1>1 DEF Records
  <2>2. r \in Records  BY <1>1 DEF Records
  <2>3. z = MaybeBeginRelease(w, s)
    <3>1. [v EXCEPT !.seeds[s].release_requested = TRUE] = w  BY <1>1 DEF Verifiers
    <3>. QED  BY <1>2, <3>1 DEF RequestSeedRelease
  <2>. HIDE DEF r
  <2>4. Changed(v, w, s, r)  BY <1>1, <2>2, ChangedBy
  <2>5. SoundStep(q, r) /\ SameCounts(q, r)
    <3>1. q.known  BY <1>2 DEF Known
    <3>. HIDE DEF q
    <3>2. RecordIsSound(r)  BY <1>1, <2>1, <3>1 DEF RecordIsSound, q
    <3>. QED  BY <2>1, <2>2, <3>2 DEF SoundStep, SameCounts
  <2>. HIDE DEF w
  <2>6. VerifierIsSound(w)  BY <2>4, <2>5, OneRecord
  <2>7. /\ VerifierIsSound(z) /\ z.current = w.current
        /\ SameCounts(w.seeds[s], z.seeds[s])
        /\ \A t \in SeedIds : t # s => z.seeds[t] = w.seeds[t]
    BY SMTT(30), <2>3, <2>6, MaybeBegun
  <2>8. z.current = v.current /\ \A t \in SeedIds : t # s => z.seeds[t] = v.seeds[t]
    BY <2>4, <2>7 DEF Changed
  <2>9. SameCounts(v.seeds[s], z.seeds[s])  BY <2>4, <2>5, <2>7 DEF Changed, SameCounts
  <2>10. CountsStay(v, z)  BY <2>8, <2>9 DEF CountsStay, SameCounts
  <2>. QED  BY <2>7, <2>8, <2>10
<1>3. CASE ~Known(v, s)
  <2>1. z = v  BY <1>3 DEF RequestSeedRelease
  <2>. QED  BY <2>1 DEF CountsStay, SameCounts
<1>. QED  BY <1>2, <1>3

\* The record of a seed that is unknown or gone is dropped.
LEMMA Forgotten ==
    ASSUME NEW v, VerifierIsSound(v), NEW s \in SeedIds, ~Known(v, s) \/ v.seeds[s].native = "absent",
           NEW z, z = [v EXCEPT !.seeds[s] = NoRecord]
    PROVE  VerifierIsSound(z) /\ Keeps(v, z) /\ CountsStay(v, z) /\ Changed(v, z, s, NoRecord)
<1>1. v \in Verifiers /\ v.seeds[s] \in Records /\ RecordIsSound(v.seeds[s])
  BY RecordOf DEF VerifierIsSound
<1>2. ~v.seeds[s].known \/ v.seeds[s].native = "absent"  BY SeedsAssumption DEF Known, NoSeed
<1>3. /\ SoundStep(v.seeds[s], NoRecord) /\ KeepsWanted(v.seeds[s], NoRecord)
      /\ SameCounts(v.seeds[s], NoRecord)
  BY <1>1, <1>2, RecordDropped
<1>4. Changed(v, z, s, NoRecord)  BY <1>1, ChangedBy, NoRecordFacts
<1>5. VerifierIsSound(z) /\ Keeps(v, z)  BY <1>3, <1>4, OneRecord, ChangedKeeps
<1>6. CountsStay(v, z)  BY <1>3, <1>4 DEF Changed, CountsStay, SameCounts
<1>. QED  BY <1>4, <1>5, <1>6

LEMMA Observed ==
    ASSUME NEW v, VerifierIsSound(v), NEW s \in SeedIds, NEW z, z = Observe(v, s)
    PROVE  /\ VerifierIsSound(z) /\ Keeps(v, z) /\ CountsStay(v, z) /\ z.current = v.current
           /\ SoundStep(v.seeds[s], z.seeds[s])
<1>1. v.seeds[s] \in Records /\ RecordIsSound(v.seeds[s])  BY RecordOf
<1>2. CASE v.seeds[s].native = "absent" /\ v.seeds[s].release_started
  <2>1. z = [v EXCEPT !.seeds[s] = NoRecord]  BY <1>2 DEF Observe
  <2>2. VerifierIsSound(z) /\ Keeps(v, z) /\ CountsStay(v, z) /\ Changed(v, z, s, NoRecord)
    BY <1>2, <2>1, Forgotten
  <2>3. SoundStep(v.seeds[s], NoRecord)  BY <1>1, <1>2, RecordDropped
  <2>. QED  BY <2>2, <2>3 DEF Changed
<1>3. CASE ~(v.seeds[s].native = "absent" /\ v.seeds[s].release_started)
  <2>1. z = v  BY <1>3 DEF Observe
  <2>2. \A t \in SeedIds : /\ SoundStep(v.seeds[t], v.seeds[t]) /\ KeepsWanted(v.seeds[t], v.seeds[t])
                           /\ SameCounts(v.seeds[t], v.seeds[t])
    BY RecordOf, RecordStays
  <2>. QED  BY <2>1, <2>2 DEF Keeps, CountsStay
<1>. QED  BY <1>2, <1>3

LEMMA ObservedAll ==
    ASSUME NEW v, VerifierIsSound(v), NEW z, z = ObserveAll(v)
    PROVE  VerifierIsSound(z) /\ Keeps(v, z) /\ CountsStay(v, z) /\ z.current = v.current
<1>1. v \in Verifiers  BY DEF VerifierIsSound
<1>2. ASSUME NEW s \in SeedIds
      PROVE  /\ SoundStep(v.seeds[s], Observe(v, s).seeds[s]) /\ KeepsWanted(v.seeds[s], Observe(v, s).seeds[s])
             /\ SameCounts(v.seeds[s], Observe(v, s).seeds[s]) /\ Observe(v, s).seeds[s] \in Records
  <2>1. PICK w : w = Observe(v, s)  OBVIOUS
  <2>2. Keeps(v, w) /\ CountsStay(v, w) /\ SoundStep(v.seeds[s], w.seeds[s])  BY <2>1, Observed
  <2>. QED  BY <2>1, <2>2 DEF Keeps, CountsStay, SoundStep
<1>3. \A s \in SeedIds : z.seeds[s] = Observe(v, s).seeds[s]  BY <1>1 DEF ObserveAll, Verifiers
<1>4. z \in Verifiers /\ z.current = v.current
  <2>. DEFINE f == [s \in SeedIds |-> Observe(v, s).seeds[s]]
  <2>1. f \in [SeedIds -> Records]  BY <1>2
  <2>2. z = [v EXCEPT !.seeds = f]  BY DEF ObserveAll
  <2>. HIDE DEF f
  <2>. QED  BY <1>1, <2>1, <2>2 DEF Verifiers
<1>5. VerifierIsSound(z)  BY <1>2, <1>3, <1>4, SoundSteps
<1>. QED  BY <1>2, <1>3, <1>4, <1>5 DEF Keeps, CountsStay

LEMMA JobsDropped ==
    ASSUME NEW v, VerifierIsSound(v), NEW gone,
           \A s \in SeedIds : Cardinality(GoneOn(gone, s)) \in Nat
                              /\ Cardinality(GoneOn(gone, s)) <= v.seeds[s].references,
           NEW z, z = DropJobs(v, gone)
    PROVE  /\ VerifierIsSound(z) /\ Keeps(v, z)
           /\ \A s \in SeedIds :
                 /\ z.seeds[s].references = v.seeds[s].references - Cardinality(GoneOn(gone, s))
                 /\ z.seeds[s].tracked = v.seeds[s].tracked
<1>. DEFINE R(s) == DropSeedReferences(v, s, Cardinality(GoneOn(gone, s))).seeds[s]
<1>1. v \in Verifiers  BY DEF VerifierIsSound
<1>2. ASSUME NEW s \in SeedIds
      PROVE  /\ SoundStep(v.seeds[s], R(s)) /\ KeepsWanted(v.seeds[s], R(s)) /\ R(s) \in Records
             /\ R(s).references = v.seeds[s].references - Cardinality(GoneOn(gone, s))
             /\ R(s).tracked = v.seeds[s].tracked
  <2>1. PICK n \in Nat : n = Cardinality(GoneOn(gone, s)) /\ n <= v.seeds[s].references  OBVIOUS
  <2>2. PICK w : w = DropSeedReferences(v, s, n)  OBVIOUS
  <2>3. /\ VerifierIsSound(w) /\ Keeps(v, w)
        /\ Counted(v, w, s, v.seeds[s].references - n, v.seeds[s].tracked)
        /\ SoundStep(v.seeds[s], w.seeds[s])
    BY <2>1, <2>2, Dropped
  <2>4. w.seeds[s] \in Records /\ RecordIsSound(w.seeds[s])  BY <2>3, RecordOf
  <2>. QED  BY <2>1, <2>2, <2>3, <2>4 DEF Keeps, Counted
<1>. HIDE DEF R
<1>3. \A s \in SeedIds : z.seeds[s] = R(s)  BY <1>1 DEF DropJobs, Verifiers, R, GoneOn
<1>4. z \in Verifiers
  <2>. DEFINE f == [s \in SeedIds |-> R(s)]
  <2>1. f \in [SeedIds -> Records]  BY <1>2
  <2>2. z = [v EXCEPT !.seeds = f]  BY DEF DropJobs, R, GoneOn
  <2>. HIDE DEF f
  <2>. QED  BY <1>1, <2>1, <2>2 DEF Verifiers
<1>5. VerifierIsSound(z)  BY SMTT(30), <1>2, <1>3, <1>4, SoundSteps
<1>. QED  BY <1>2, <1>3, <1>5 DEF Keeps

\* The library: native of one seed changes as a preparation or a release ends.
LEMMA NativeChanged ==
    ASSUME NEW v, VerifierIsSound(v), NEW s \in SeedIds, NEW n,
           \/ v.seeds[s].native = "preparing" /\ n \in {"ready", "failed"}
           \/ v.seeds[s].native = "releasing" /\ n = "absent",
           NEW z, z = [v EXCEPT !.seeds[s].native = n]
    PROVE  VerifierIsSound(z) /\ Keeps(v, z) /\ CountsStay(v, z)
<1>. DEFINE q == v.seeds[s]
            r == [q EXCEPT !.native = n]
<1>1. v \in Verifiers /\ q \in Records /\ RecordIsSound(q) /\ q.references \in Nat /\ q.tracked \in Nat
  BY RecordOf DEF VerifierIsSound
<1>2. n \in NativeStates  BY DEF NativeStates
<1>3. z = [v EXCEPT !.seeds[s] = r]  BY <1>1 DEF Verifiers
<1>4. q.native \in {"preparing", "releasing"} /\ (q.native = "releasing" <=> n = "absent")  OBVIOUS
<1>5. n \in {"ready", "failed", "absent"}  OBVIOUS
<1>. HIDE DEF q
<1>6. /\ r.hash = q.hash /\ r.known = q.known /\ r.release_requested = q.release_requested
      /\ r.release_started = q.release_started /\ r.native = n
      /\ r.references = q.references /\ r.tracked = q.tracked
  BY <1>1 DEF Records
<1>7. r \in Records  BY <1>1, <1>2 DEF Records
<1>. HIDE DEF r
<1>8. q.known /\ ~(q.references > 0) /\ ~(q.tracked > 0)  BY <1>1, <1>4, NoRecordFacts DEF RecordIsSound
<1>9. RecordIsSound(r)  BY <1>1, <1>4, <1>5, <1>6, <1>8 DEF RecordIsSound
<1>10. SoundStep(q, r)  BY <1>4, <1>6, <1>7, <1>9 DEF SoundStep
<1>11. KeepsWanted(q, r) /\ SameCounts(q, r)  BY <1>4, <1>6 DEF KeepsWanted, SameCounts
<1>12. Changed(v, z, s, r)  BY SMTT(30), <1>1, <1>3, <1>7, ChangedBy
<1>13. VerifierIsSound(z) /\ Keeps(v, z)  BY <1>10, <1>11, <1>12, OneRecord, ChangedKeeps DEF q
<1>14. CountsStay(v, z)  BY <1>11, <1>12 DEF Changed, CountsStay, SameCounts, q
<1>. QED  BY <1>13, <1>14

LEMMA Activated ==
    ASSUME NEW v, VerifierIsSound(v), NEW s \in SeedIds, NEW z, z = ActivateSeed(v, s)
    PROVE  VerifierIsSound(z) /\ Keeps(v, z) /\ CountsStay(v, z)
<1>. DEFINE w == [v EXCEPT !.current = s]
<1>1. v \in Verifiers  BY DEF VerifierIsSound
<1>2. w \in Verifiers /\ w.seeds = v.seeds  BY <1>1 DEF Verifiers
<1>3. z = IF Known(v, v.current) THEN MaybeBeginRelease(w, v.current) ELSE w  BY DEF ActivateSeed
<1>. HIDE DEF w
<1>4. \A t \in SeedIds : /\ SoundStep(v.seeds[t], w.seeds[t]) /\ KeepsWanted(v.seeds[t], w.seeds[t])
                         /\ SameCounts(v.seeds[t], w.seeds[t])
  BY <1>2, RecordOf, RecordStays
<1>5. VerifierIsSound(w)  BY <1>2, <1>4, SoundSteps
<1>6. Keeps(v, w) /\ CountsStay(v, w)  BY <1>4 DEF Keeps, CountsStay
<1>7. CASE Known(v, v.current)
  <2>1. v.current \in SeedIds  BY <1>1, <1>7 DEF Verifiers, Known
  <2>2. z = MaybeBeginRelease(w, v.current)  BY <1>3, <1>7
  <2>3. VerifierIsSound(z) /\ Keeps(w, z) /\ CountsStay(w, z)  BY <1>5, <2>1, <2>2, Begun
  <2>4. CountsStay(v, z)  BY <1>6, <2>3 DEF CountsStay, SameCounts
  <2>. QED  BY <1>6, <2>3, <2>4, KeepsTransitive
<1>8. CASE ~Known(v, v.current)  BY <1>3, <1>5, <1>6, <1>8
<1>. QED  BY <1>7, <1>8

\* prepare_seed takes up a new seed while there is room for it.
LEMMA Added ==
    ASSUME NEW v, VerifierIsSound(v), NEW s \in SeedIds, v.seeds[s] = NoRecord,
           NEW hash \in Hashes, ResidentSeeds(v, hash) = {}, ~(Cardinality(InLibrary(v)) >= MaxSeeds),
           NEW z, z = [v EXCEPT !.seeds[s] = [NoRecord EXCEPT !.hash = hash, !.known = TRUE,
                                                              !.native = "preparing"]]
    PROVE  VerifierIsSound(z) /\ Keeps(v, z) /\ CountsStay(v, z) /\ Wanted(z, s)
<1>. DEFINE r == [NoRecord EXCEPT !.hash = hash, !.known = TRUE, !.native = "preparing"]
<1>1. v \in Verifiers  BY DEF VerifierIsSound
<1>2. /\ r.hash = hash /\ r.known = TRUE /\ r.release_requested = FALSE /\ r.release_started = FALSE
      /\ r.native = "preparing" /\ r.references = 0 /\ r.tracked = 0
  BY DEF NoRecord
<1>3. r \in Records
  <2>1. "preparing" \in NativeStates /\ hash \in Hashes \cup {NoSeed} /\ TRUE \in BOOLEAN  BY DEF NativeStates
  <2>. QED  BY <2>1, NoRecordFacts DEF Records
<1>4. z = [v EXCEPT !.seeds[s] = r]  OBVIOUS
<1>. HIDE DEF r
<1>5. Changed(v, z, s, r)  BY SMTT(30), <1>1, <1>3, <1>4, ChangedBy
<1>6. /\ z \in Verifiers /\ z.seeds[s] = r /\ \A t \in SeedIds : t # s => z.seeds[t] = v.seeds[t]
  BY <1>5 DEF Changed
<1>7. ~v.seeds[s].known /\ ~v.seeds[s].release_requested /\ v.seeds[s].native = "absent"
      /\ v.seeds[s].references = 0 /\ v.seeds[s].tracked = 0
  BY NoRecordFacts
<1>8. RecordIsSound(r)  BY SMTT(30), <1>2 DEF RecordIsSound
<1>9. \A t \in SeedIds : RecordIsSound(z.seeds[t])  BY <1>6, <1>8, RecordOf
<1>10. ASSUME NEW t \in SeedIds, t # s PROVE ~(v.seeds[t].known /\ v.seeds[t].hash = hash)
  BY SeedsAssumption DEF ResidentSeeds, Known, NoSeed
<1>11. ASSUME NEW t \in SeedIds, NEW u \in SeedIds, z.seeds[t].known, z.seeds[u].known,
              z.seeds[t].hash = z.seeds[u].hash
       PROVE  t = u
  <2>1. CASE t # s /\ u # s  BY <1>6, <1>11, <2>1 DEF VerifierIsSound
  <2>2. CASE t = s /\ u # s  BY SMTT(30), <1>2, <1>6, <1>10, <1>11, <2>2
  <2>3. CASE t # s /\ u = s  BY <1>2, <1>6, <1>10, <1>11, <2>3
  <2>. QED  BY <2>1, <2>2, <2>3
<1>12. IsFiniteSet(InLibrary(z)) /\ Cardinality(InLibrary(z)) <= MaxSeeds
  <2>1. InLibrary(z) = InLibrary(v) \cup {s}  BY <1>2, <1>6 DEF InLibrary
  <2>2. s \notin InLibrary(v)  BY <1>7 DEF InLibrary
  <2>3. IsFiniteSet(InLibrary(v))  BY DEF VerifierIsSound
  <2>4. /\ IsFiniteSet(InLibrary(v) \cup {s})
        /\ Cardinality(InLibrary(v) \cup {s}) = Cardinality(InLibrary(v)) + 1
    BY <2>2, <2>3, FS_AddElement
  <2>5. Cardinality(InLibrary(v)) \in Nat /\ MaxSeeds \in Nat  BY <2>3, FS_CardinalityType, SeedsAssumption
  <2>6. PICK n \in Nat : n = Cardinality(InLibrary(v))  BY <2>5
  <2>7. n + 1 <= MaxSeeds  BY SMTT(30), <2>5, <2>6
  <2>8. Cardinality(InLibrary(z)) = n + 1  BY <2>1, <2>4, <2>6
  <2>9. IsFiniteSet(InLibrary(z))  BY <2>1, <2>4
  <2>. QED  BY <2>7, <2>8, <2>9
<1>13. VerifierIsSound(z)  BY <1>6, <1>9, <1>11, <1>12 DEF VerifierIsSound
<1>14. KeepsWanted(v.seeds[s], r)  BY <1>7 DEF KeepsWanted
<1>15. Keeps(v, z)  BY <1>5, <1>14, ChangedKeeps
<1>16. CountsStay(v, z)  BY <1>2, <1>6, <1>7 DEF CountsStay, SameCounts
<1>17. Wanted(z, s)  BY <1>2, <1>6 DEF Wanted
<1>. QED  BY <1>13, <1>15, <1>16, <1>17

\* ... and keeps one that it has, unless its release began.
LEMMA Cancelled ==
    ASSUME NEW v, VerifierIsSound(v), NEW s \in SeedIds, v.seeds[s].known, ~v.seeds[s].release_started,
           NEW z, z = [v EXCEPT !.seeds[s].release_requested = FALSE]
    PROVE  VerifierIsSound(z) /\ Keeps(v, z) /\ CountsStay(v, z) /\ Wanted(z, s)
<1>. DEFINE q == v.seeds[s]
            r == [q EXCEPT !.release_requested = FALSE]
<1>1. v \in Verifiers /\ q \in Records /\ RecordIsSound(q) /\ q.known /\ ~q.release_started
  BY RecordOf DEF VerifierIsSound
<1>2. z = [v EXCEPT !.seeds[s] = r]  BY <1>1 DEF Verifiers
<1>. HIDE DEF q
<1>3. /\ r.hash = q.hash /\ r.known = q.known /\ r.release_requested = FALSE
      /\ r.release_started = q.release_started /\ r.native = q.native
      /\ r.references = q.references /\ r.tracked = q.tracked
  BY <1>1 DEF Records
<1>4. r \in Records  BY <1>1 DEF Records
<1>. HIDE DEF r
<1>5. RecordIsSound(r)  BY <1>1, <1>3 DEF RecordIsSound
<1>6. SoundStep(q, r)  BY <1>3, <1>4, <1>5 DEF SoundStep
<1>7. KeepsWanted(q, r) /\ SameCounts(q, r)  BY <1>3 DEF KeepsWanted, SameCounts
<1>8. Changed(v, z, s, r)  BY <1>1, <1>2, <1>4, ChangedBy
<1>9. VerifierIsSound(z) /\ Keeps(v, z)  BY <1>6, <1>7, <1>8, OneRecord, ChangedKeeps DEF q
<1>10. CountsStay(v, z)  BY <1>7, <1>8 DEF Changed, CountsStay, SameCounts, q
<1>11. Wanted(z, s)  BY <1>1, <1>3, <1>8 DEF Changed, Wanted
<1>. QED  BY <1>9, <1>10, <1>11

LEMMA Prepared ==
    ASSUME NEW v, VerifierIsSound(v), NEW hash \in Hashes, NEW fresh \in SeedIds, v.seeds[fresh] = NoRecord,
           NEW z, z = PrepareSeed(v, hash, fresh)
    PROVE  /\ VerifierIsSound(z) /\ Keeps(v, z) /\ CountsStay(v, z)
           /\ PrepareStatus(v, hash) = "ok" => Wanted(z, PreparedSeed(v, hash, fresh))
<1>. DEFINE s == PreparedSeed(v, hash, fresh)
<1>1. CASE ResidentSeeds(v, hash) # {}
  <2>1. s \in ResidentSeeds(v, hash)  BY <1>1 DEF PreparedSeed
  <2>2. s \in SeedIds /\ Known(v, s) /\ v.seeds[s].known  BY <2>1 DEF ResidentSeeds, Known
  <2>3. CASE PrepareStatus(v, hash) = "releasing"
    <3>1. z = Observe(v, s)  BY <2>3 DEF PrepareSeed
    <3>2. VerifierIsSound(z) /\ Keeps(v, z) /\ CountsStay(v, z)  BY <2>2, <3>1, Observed
    <3>. QED  BY <2>3, <3>2
  <2>4. CASE PrepareStatus(v, hash) # "releasing"
    <3>1. PrepareStatus(v, hash) = "ok" /\ ~v.seeds[s].release_started
      BY <1>1, <2>1, <2>4 DEF PrepareStatus
    <3>2. z = [v EXCEPT !.seeds[s].release_requested = FALSE]  BY <2>2, <3>1 DEF PrepareSeed
    <3>. HIDE DEF s
    <3>3. VerifierIsSound(z) /\ Keeps(v, z) /\ CountsStay(v, z) /\ Wanted(z, s)
      BY <2>2, <3>1, <3>2, Cancelled
    <3>. QED  BY <3>3 DEF s
  <2>. QED  BY <2>3, <2>4
<1>2. CASE ResidentSeeds(v, hash) = {}
  <2>1. s = fresh  BY <1>2 DEF PreparedSeed
  <2>2. CASE Cardinality(InLibrary(v)) >= MaxSeeds
    <3>1. PrepareStatus(v, hash) = "capacity"  BY <1>2, <2>2 DEF PrepareStatus, InLibrary
    <3>2. z = v  BY <3>1 DEF PrepareSeed
    <3>3. \A t \in SeedIds : KeepsWanted(v.seeds[t], v.seeds[t]) /\ SameCounts(v.seeds[t], v.seeds[t])
      BY RecordOf, RecordStays
    <3>. QED  BY <3>1, <3>2, <3>3 DEF Keeps, CountsStay
  <2>3. CASE ~(Cardinality(InLibrary(v)) >= MaxSeeds)
    <3>1. PrepareStatus(v, hash) = "ok"  BY <1>2, <2>3 DEF PrepareStatus, InLibrary
    <3>2. ~Known(v, fresh)  BY NoRecordFacts DEF Known
    <3>3. z = [v EXCEPT !.seeds[fresh] = [NoRecord EXCEPT !.hash = hash, !.known = TRUE,
                                                          !.native = "preparing"]]
      BY <2>1, <3>1, <3>2 DEF PrepareSeed
    <3>4. VerifierIsSound(z) /\ Keeps(v, z) /\ CountsStay(v, z) /\ Wanted(z, fresh)
      BY <1>2, <2>3, <3>3, Added
    <3>. QED  BY <2>1, <3>4
  <2>. QED  BY <2>2, <2>3
<1>. QED  BY <1>1, <1>2

LEMMA LeastSeed ==
    ASSUME NEW S \in SUBSET SeedIds, S # {}
    PROVE  Min(S) \in S
<1>1. S \in SUBSET Nat  BY SeedsAssumption
<1>2. PICK s \in S : \A t \in S : ~(<<t, s>> \in OpToRel(<, Nat))
  BY <1>1, NatLessThanWellFounded, WFMin
<1>3. ASSUME NEW t \in S PROVE s <= t
  <2>1. <<t, s>> \in Nat \X Nat  BY <1>1
  <2>2. ~(t < s)  BY <1>2, <2>1 DEF OpToRel
  <2>. QED  BY SMTT(30), <1>1, <2>2
<1>. QED  BY <1>3 DEF Min

-----------------------------------------------------------------------------
\* What a step may leave alone.
LEMMA KeptStays ==
    ASSUME NEW v, NEW w, Keeps(v, w), NEW s
    PROVE  (Wanted(v, s) => Wanted(w, s)) /\ (Held(v, s) => Held(w, s))
BY DEF Keeps, KeepsWanted, Wanted, Held

LEMMA NothingKept ==
    ASSUME NEW v, VerifierIsSound(v)
    PROVE  Keeps(v, v) /\ CountsStay(v, v)
<1>1. \A t \in SeedIds : KeepsWanted(v.seeds[t], v.seeds[t]) /\ SameCounts(v.seeds[t], v.seeds[t])
  BY RecordOf, RecordStays
<1>. QED  BY <1>1 DEF Keeps, CountsStay

LEMMA CountsFrame ==
    ASSUME CountsAgree, CountsStay(verifier, verifier'), UNCHANGED <<jobs, shares>>
    PROVE  CountsAgree'
<1>1. \A s : JobsOn(s)' = JobsOn(s) /\ LeasesOn(s)' = LeasesOn(s) /\ VerificationsOn(s)' = VerificationsOn(s)
  BY DEF JobsOn, LeasesOn, VerificationsOn
<1>2. Outstanding' = Outstanding  BY DEF Outstanding
<1>3. ASSUME NEW s \in SeedIds
      PROVE  /\ verifier'.seeds[s].references = Cardinality(JobsOn(s)') + Cardinality(LeasesOn(s)')
             /\ verifier'.seeds[s].tracked = Cardinality(VerificationsOn(s)')
  <2>1. SameCounts(verifier.seeds[s], verifier'.seeds[s])  BY DEF CountsStay
  <2>2. /\ verifier.seeds[s].references = Cardinality(JobsOn(s)) + Cardinality(LeasesOn(s))
        /\ verifier.seeds[s].tracked = Cardinality(VerificationsOn(s))
    BY DEF CountsAgree
  <2>. QED  BY <1>1, <2>1, <2>2 DEF SameCounts
<1>. QED  BY <1>2, <1>3 DEF CountsAgree

LEMMA TemplateFrame ==
    ASSUME TemplateIsHeld, Keeps(verifier, verifier'), UNCHANGED <<template, allowed, deriving>>,
           refresh.pc = "allow" => refresh'.pc = "allow" \/ deriving.template = NoTemplate
    PROVE  TemplateIsHeld'
<1>1. \A s : Held(verifier, s) => Held(verifier', s)  BY KeptStays
<1>. QED  BY <1>1 DEF TemplateIsHeld

LEMMA RefreshFrame ==
    ASSUME RefreshAgrees, Keeps(verifier, verifier'), UNCHANGED <<template, refresh>>
    PROVE  RefreshAgrees'
<1>1. \A s : (Wanted(verifier, s) => Wanted(verifier', s)) /\ (Held(verifier, s) => Held(verifier', s))
  BY KeptStays
<1>. QED  BY <1>1 DEF RefreshAgrees

\* A step of anyone but the template thread and the event loop that counts as before.
LEMMA QuietStep ==
    ASSUME RotationInv, ThreadsTyped', VerifierIsSound(verifier'), Keeps(verifier, verifier'),
           CountsStay(verifier, verifier'), UNCHANGED <<template, allowed, deriving, refresh, jobs, shares>>
    PROVE  RotationInv'
<1>1. CountsAgree'  BY CountsFrame DEF RotationInv
<1>2. TemplateIsHeld'  BY TemplateFrame DEF RotationInv
<1>3. RefreshAgrees'  BY RefreshFrame DEF RotationInv
<1>. QED  BY <1>1, <1>2, <1>3 DEF RotationInv

LEMMA HashOf ==
    ASSUME NEW h \in Heights
    PROVE  SeedOf(h) \in Hashes /\ NextSeeds(h) \subseteq Hashes \cup {NoSeed}
<1>. DEFINE a == 2 * ((h - 1) \div EpochLength) + 1
<1>1. h \in 1..MaxHeight  BY DEF Heights
<1>2. a + 0 \in Hashes /\ a + 2 \in Hashes /\ a + 3 \in Hashes  BY <1>1, RotationAssumption
<1>3. a \in Int  BY SMTT(30), <1>1, RotationAssumption
<1>. HIDE DEF a
<1>4. a \in Hashes  BY SMTT(30), <1>2, <1>3
<1>5. SeedOf(h) = a  BY DEF SeedOf, a
<1>. QED  BY <1>2, <1>4, <1>5 DEF NextSeeds

LEMMA DaemonMovesOn ==
    ASSUME RotationInv, NEW h \in Heights, NEW n \in Hashes \cup {NoSeed}, DaemonMoves(h, n)
    PROVE  RotationInv'
<1>1. ThreadsTyped /\ VerifierIsSound(verifier)  BY DEF RotationInv
<1>2. Keeps(verifier, verifier') /\ CountsStay(verifier, verifier') /\ VerifierIsSound(verifier')
  BY <1>1, NothingKept DEF DaemonMoves
<1>3. daemon'.moves \in 0..MaxMoves /\ daemon'.top \in Heights
  BY SMTT(30), <1>1, RotationAssumption DEF ThreadsTyped, DaemonMoves
<1>4. daemon' \in [height : Heights, next : Hashes \cup {NoSeed}, top : Heights, moves : 0..MaxMoves]
  BY <1>3 DEF DaemonMoves
<1>5. UNCHANGED <<template, allowed, deriving, refresh, jobs, shares, socket, stale, failures>>
  BY DEF DaemonMoves, clients, server
<1>6. ThreadsTyped'  BY <1>1, <1>4, <1>5 DEF ThreadsTyped
<1>. QED  BY <1>2, <1>5, <1>6, QuietStep

LEMMA NativeSteps ==
    ASSUME RotationInv, NEW s \in SeedIds,
           NativePrepared(s) \/ NativePrepareFails(s) \/ NativeReleased(s)
    PROVE  RotationInv'
<1>1. ThreadsTyped /\ VerifierIsSound(verifier)  BY DEF RotationInv
<1>2. PICK n : /\ \/ verifier.seeds[s].native = "preparing" /\ n \in {"ready", "failed"}
                  \/ verifier.seeds[s].native = "releasing" /\ n = "absent"
               /\ verifier' = [verifier EXCEPT !.seeds[s].native = n]
  BY DEF NativePrepared, NativePrepareFails, NativeReleased
<1>3. VerifierIsSound(verifier') /\ Keeps(verifier, verifier') /\ CountsStay(verifier, verifier')
  BY <1>1, <1>2, NativeChanged
<1>4. UNCHANGED <<daemon, template, allowed, deriving, refresh, jobs, shares, socket, stale>>
  BY DEF NativePrepared, NativePrepareFails, NativeReleased, clients, server
<1>5. failures' \in 0..MaxFailures
  BY SMTT(30), <1>1, RotationAssumption DEF ThreadsTyped, NativePrepared, NativePrepareFails, NativeReleased
<1>6. ThreadsTyped'  BY <1>1, <1>4, <1>5 DEF ThreadsTyped
<1>. QED  BY <1>3, <1>4, <1>6, QuietStep

-----------------------------------------------------------------------------
LEMMA RefreshStep ==
    ASSUME RotationInv, VerifierIsSound(verifier'), CountsStay(verifier, verifier'),
           template # NoTemplate /\ Held(verifier, template.seed) => Held(verifier', template.seed),
           deriving.template # NoTemplate /\ Held(verifier, deriving.template.seed)
               => Held(verifier', deriving.template.seed),
           refresh.pc # "allow" \/ deriving.template = NoTemplate,
           refresh' \in RefreshTypes, stale' \subseteq Connections, allowed' \in BOOLEAN,
           allowed' => allowed \/ template # NoTemplate,
           UNCHANGED <<daemon, template, deriving, socket, jobs, shares, failures>>,
           RefreshAgrees'
    PROVE  RotationInv'
<1>1. CountsAgree'  BY CountsFrame DEF RotationInv
<1>2. TemplateIsHeld'  BY DEF RotationInv, TemplateIsHeld
<1>3. ThreadsTyped'  BY DEF RotationInv, ThreadsTyped, RefreshTypes
<1>. QED  BY <1>1, <1>2, <1>3 DEF RotationInv

\* ... that keeps every seed.
LEMMA KeepingStep ==
    ASSUME RotationInv, VerifierIsSound(verifier'), CountsStay(verifier, verifier'),
           Keeps(verifier, verifier'),
           refresh.pc # "allow" \/ deriving.template = NoTemplate,
           refresh' \in RefreshTypes,
           UNCHANGED <<daemon, template, allowed, clients, failures>>,
           RefreshAgrees'
    PROVE  RotationInv'
<1>1. \A s : Held(verifier, s) => Held(verifier', s)  BY KeptStays
<1>2. stale' \subseteq Connections /\ allowed' \in BOOLEAN  BY DEF RotationInv, ThreadsTyped, clients
<1>. QED  BY <1>1, <1>2, RefreshStep DEF clients

LEMMA IdleFacts ==
    /\ Idle \in RefreshTypes /\ Idle.pc = "idle" /\ Idle.obsolete = {} /\ Idle.seed = NoSeed
BY DEF Idle, RefreshTypes

LEMMA FetchStep ==
    ASSUME RotationInv, Fetch
    PROVE  RotationInv'
<1>1. ThreadsTyped /\ VerifierIsSound(verifier)  BY DEF RotationInv
<1>2. VerifierIsSound(verifier') /\ CountsStay(verifier, verifier') /\ Keeps(verifier, verifier')
  BY <1>1, NothingKept DEF Fetch
<1>3. /\ refresh'.pc = "parse" /\ refresh'.height = daemon.height /\ refresh'.obsolete = {}
      /\ refresh' \in RefreshTypes
  BY <1>1 DEF Fetch, Idle, RefreshTypes, ThreadsTyped
<1>4. refresh'.height \in Heights  BY <1>1, <1>3 DEF ThreadsTyped
<1>5. RefreshAgrees'  BY <1>3, <1>4 DEF RefreshAgrees
<1>. QED  BY <1>2, <1>3, <1>5, KeepingStep DEF Fetch, server

LEMMA SnapshotStep ==
    ASSUME RotationInv, Snapshot
    PROVE  RotationInv'
<1>1. ThreadsTyped /\ VerifierIsSound(verifier) /\ RefreshAgrees  BY DEF RotationInv
<1>2. PICK v : v = ObserveAll(verifier)  OBVIOUS
<1>3. PICK pc \in {"hold", "reclaim"} :
         verifier' = v /\ refresh' = [refresh EXCEPT !.pc = pc, !.obsolete = Obsolete(v)]
  BY <1>2 DEF Snapshot
<1>4. VerifierIsSound(verifier') /\ CountsStay(verifier, verifier') /\ Keeps(verifier, verifier')
  BY <1>1, <1>2, <1>3, ObservedAll
<1>5. Obsolete(v) \subseteq SeedIds /\ template.seed \notin Obsolete(v)  BY DEF Obsolete
<1>6. PICK O \in SUBSET SeedIds : O = Obsolete(v)  BY <1>5
<1>7. /\ refresh'.pc = pc /\ refresh'.height = refresh.height /\ refresh'.obsolete = O
      /\ refresh' \in RefreshTypes
  BY <1>1, <1>3, <1>6 DEF RefreshTypes, ThreadsTyped
<1>8. refresh.height \in Heights  BY <1>1 DEF RefreshAgrees, Snapshot
<1>9. UNCHANGED template  BY DEF Snapshot, server
<1>10. RefreshAgrees'  BY <1>5, <1>6, <1>7, <1>8, <1>9 DEF RefreshAgrees
<1>. QED  BY <1>4, <1>7, <1>10, KeepingStep DEF Snapshot, server

LEMMA HoldStep ==
    ASSUME RotationInv, HoldIssuance
    PROVE  RotationInv'
<1>1. ThreadsTyped /\ VerifierIsSound(verifier) /\ RefreshAgrees  BY DEF RotationInv
<1>2. VerifierIsSound(verifier') /\ CountsStay(verifier, verifier')
  BY <1>1, NothingKept DEF HoldIssuance
<1>3. /\ refresh'.pc = "reclaim" /\ refresh'.height = refresh.height /\ refresh'.obsolete = refresh.obsolete
      /\ refresh' \in RefreshTypes
  BY <1>1 DEF HoldIssuance, RefreshTypes, ThreadsTyped
<1>4. RefreshAgrees'  BY <1>1, <1>3 DEF RefreshAgrees, HoldIssuance
<1>5. stale' \subseteq Connections /\ allowed' = FALSE  BY <1>1 DEF HoldIssuance, clients, ThreadsTyped
<1>. QED  BY <1>2, <1>3, <1>4, <1>5, RefreshStep DEF HoldIssuance, clients

\* request_seed_release of a seed that is neither the template's nor the job's being derived.
LEMMA ReleaseRequested ==
    ASSUME RotationInv, refresh.pc # "allow", NEW s \in SeedIds, s # template.seed
    PROVE  LET z == RequestSeedRelease(verifier, s) IN
           /\ VerifierIsSound(z) /\ CountsStay(verifier, z)
           /\ template # NoTemplate /\ Held(verifier, template.seed) => Held(z, template.seed)
           /\ deriving.template # NoTemplate /\ Held(verifier, deriving.template.seed)
                 => Held(z, deriving.template.seed) /\ deriving.template.seed # s
<1>. DEFINE z == RequestSeedRelease(verifier, s)
<1>1. VerifierIsSound(verifier) /\ TemplateIsHeld  BY DEF RotationInv
<1>2. /\ VerifierIsSound(z) /\ CountsStay(verifier, z)
      /\ \A t \in SeedIds : t # s => z.seeds[t] = verifier.seeds[t]
  BY SMTT(30), <1>1, Requested
<1>3. deriving.template # NoTemplate => deriving.template.seed = template.seed
  BY <1>1 DEF TemplateIsHeld
<1>. HIDE DEF z
<1>4. \A t : t # s /\ Held(verifier, t) => Held(z, t)  BY <1>2 DEF Held, Wanted
<1>5. /\ VerifierIsSound(z) /\ CountsStay(verifier, z)
      /\ template # NoTemplate /\ Held(verifier, template.seed) => Held(z, template.seed)
      /\ deriving.template # NoTemplate /\ Held(verifier, deriving.template.seed)
            => Held(z, deriving.template.seed) /\ deriving.template.seed # s
  BY <1>2, <1>3, <1>4
<1>. QED  BY <1>5 DEF z

LEMMA ReclaimStep ==
    ASSUME RotationInv, Reclaim
    PROVE  RotationInv'
<1>1. ThreadsTyped /\ VerifierIsSound(verifier) /\ RefreshAgrees  BY DEF RotationInv
<1>2. UNCHANGED <<daemon, template, allowed, clients, failures>> /\ refresh.pc = "reclaim"
  BY DEF Reclaim, server
<1>3. CASE refresh.obsolete = {} /\ refresh' = [refresh EXCEPT !.pc = "prepare"] /\ UNCHANGED verifier
  <2>1. VerifierIsSound(verifier') /\ CountsStay(verifier, verifier') /\ Keeps(verifier, verifier')
    BY <1>1, <1>3, NothingKept
  <2>2. /\ refresh'.pc = "prepare" /\ refresh'.height = refresh.height /\ refresh'.obsolete = {}
        /\ refresh' \in RefreshTypes
    BY <1>1, <1>3 DEF RefreshTypes, ThreadsTyped
  <2>3. RefreshAgrees'  BY <1>1, <1>2, <2>2 DEF RefreshAgrees
  <2>. QED  BY <1>2, <2>1, <2>2, <2>3, KeepingStep
<1>4. CASE /\ refresh.obsolete # {} /\ refresh' = [refresh EXCEPT !.pc = "await"]
           /\ verifier' = RequestSeedRelease(verifier, Min(refresh.obsolete))
  <2>1. refresh.obsolete \in SUBSET SeedIds  BY <1>1 DEF ThreadsTyped
  <2>2. PICK s \in refresh.obsolete : s = Min(refresh.obsolete)  BY <1>4, <2>1, LeastSeed
  <2>3. s \in SeedIds /\ s # template.seed  BY <1>1, <2>1, <2>2 DEF RefreshAgrees
  <2>4. verifier' = RequestSeedRelease(verifier, s)  BY <1>4, <2>2
  <2>5. /\ VerifierIsSound(verifier') /\ CountsStay(verifier, verifier')
        /\ template # NoTemplate /\ Held(verifier, template.seed) => Held(verifier', template.seed)
        /\ deriving.template # NoTemplate /\ Held(verifier, deriving.template.seed)
              => Held(verifier', deriving.template.seed)
    BY <1>2, <2>3, <2>4, ReleaseRequested
  <2>6. /\ refresh'.pc = "await" /\ refresh'.height = refresh.height
        /\ refresh'.obsolete = refresh.obsolete /\ refresh' \in RefreshTypes
    BY <1>1, <1>4 DEF RefreshTypes, ThreadsTyped
  <2>7. RefreshAgrees'  BY <1>1, <1>2, <1>4, <2>6 DEF RefreshAgrees
  <2>8. stale' \subseteq Connections /\ allowed' \in BOOLEAN  BY <1>1, <1>2 DEF clients, ThreadsTyped
  <2>. QED  BY <1>2, <2>5, <2>6, <2>7, <2>8, RefreshStep DEF clients
<1>. QED  BY <1>3, <1>4 DEF Reclaim

LEMMA AwaitStep ==
    ASSUME RotationInv, AwaitReleased
    PROVE  RotationInv'
<1>1. ThreadsTyped /\ VerifierIsSound(verifier) /\ RefreshAgrees  BY DEF RotationInv
<1>2. UNCHANGED <<daemon, template, allowed, clients, failures>> /\ refresh.pc = "await"
  BY DEF AwaitReleased, server
<1>3. refresh.obsolete \in SUBSET SeedIds /\ refresh.obsolete # {}
  BY <1>1, <1>2 DEF ThreadsTyped, RefreshAgrees
<1>4. PICK s \in refresh.obsolete : s = Min(refresh.obsolete)  BY <1>3, LeastSeed
<1>5. s \in SeedIds /\ s # template.seed  BY <1>1, <1>3, <1>4 DEF RefreshAgrees
<1>6. PICK v : v = RequestSeedRelease(verifier, s)  OBVIOUS
<1>7. /\ VerifierIsSound(v) /\ CountsStay(verifier, v)
      /\ template # NoTemplate /\ Held(verifier, template.seed) => Held(v, template.seed)
      /\ deriving.template # NoTemplate /\ Held(verifier, deriving.template.seed)
            => Held(v, deriving.template.seed)
  BY <1>2, <1>5, <1>6, ReleaseRequested
<1>8. stale' \subseteq Connections /\ allowed' \in BOOLEAN  BY <1>1, <1>2 DEF clients, ThreadsTyped
<1>9. CASE /\ ~Known(v, s) \/ v.seeds[s].native = "absent"
           /\ verifier' = [v EXCEPT !.seeds[s] = NoRecord]
           /\ refresh' = [refresh EXCEPT !.pc = "reclaim", !.obsolete = @ \ {s}]
  <2>1. VerifierIsSound(verifier') /\ Keeps(v, verifier') /\ CountsStay(v, verifier')
    BY <1>5, <1>7, <1>9, Forgotten
  <2>2. CountsStay(verifier, verifier')  BY <1>7, <2>1 DEF CountsStay, SameCounts
  <2>3. \A t : Held(v, t) => Held(verifier', t)  BY <2>1, KeptStays
  <2>4. /\ template # NoTemplate /\ Held(verifier, template.seed) => Held(verifier', template.seed)
        /\ deriving.template # NoTemplate /\ Held(verifier, deriving.template.seed)
              => Held(verifier', deriving.template.seed)
    BY <1>7, <2>3
  <2>5. /\ refresh'.pc = "reclaim" /\ refresh'.height = refresh.height
        /\ refresh'.obsolete = refresh.obsolete \ {s} /\ refresh' \in RefreshTypes
    BY <1>1, <1>9 DEF RefreshTypes, ThreadsTyped
  <2>6. RefreshAgrees'  BY <1>1, <1>2, <2>5 DEF RefreshAgrees
  <2>. QED  BY <1>2, <1>8, <2>1, <2>2, <2>4, <2>5, <2>6, RefreshStep DEF clients
<1>10. CASE verifier' = v /\ refresh' = Idle
  <2>1. RefreshAgrees'  BY <1>10, IdleFacts DEF RefreshAgrees
  <2>. QED  BY <1>2, <1>7, <1>8, <1>10, <2>1, IdleFacts, RefreshStep DEF clients
<1>. QED  BY <1>4, <1>6, <1>9, <1>10 DEF AwaitReleased

LEMMA FreshFacts ==
    ASSUME FreshSeeds # {}
    PROVE  FreshSeed \in SeedIds /\ verifier.seeds[FreshSeed] = NoRecord
<1>1. FreshSeed \in FreshSeeds  BY DEF FreshSeed
<1>. QED  BY <1>1 DEF FreshSeeds

LEMMA PreparedIsSeed ==
    ASSUME NEW v, NEW hash, NEW fresh \in SeedIds
    PROVE  PreparedSeed(v, hash, fresh) \in SeedIds
<1>1. CASE ResidentSeeds(v, hash) # {}
  <2>1. PreparedSeed(v, hash, fresh) \in ResidentSeeds(v, hash)  BY <1>1 DEF PreparedSeed
  <2>. QED  BY <2>1 DEF ResidentSeeds
<1>2. CASE ResidentSeeds(v, hash) = {}  BY <1>2 DEF PreparedSeed
<1>. QED  BY <1>1, <1>2

LEMMA PrepareStep ==
    ASSUME RotationInv, Prepare
    PROVE  RotationInv'
<1>1. ThreadsTyped /\ VerifierIsSound(verifier) /\ RefreshAgrees  BY DEF RotationInv
<1>2. UNCHANGED <<daemon, template, allowed, clients, failures>> /\ refresh.pc = "prepare"
  BY DEF Prepare, server
<1>3. PICK fresh \in SeedIds : fresh = FreshSeed /\ verifier.seeds[fresh] = NoRecord
  BY FreshFacts DEF Prepare
<1>4. Target \in Hashes /\ refresh.height \in Heights  BY <1>1, <1>2, HashOf DEF Target, RefreshAgrees
<1>5. PICK hash \in Hashes : hash = Target  BY <1>4
<1>6. verifier' = PrepareSeed(verifier, hash, fresh)  BY <1>3, <1>5 DEF Prepare
<1>7. /\ VerifierIsSound(verifier') /\ Keeps(verifier, verifier') /\ CountsStay(verifier, verifier')
      /\ PrepareStatus(verifier, hash) = "ok" => Wanted(verifier', PreparedSeed(verifier, hash, fresh))
  BY <1>1, <1>3, <1>6, Prepared
<1>8. CASE PrepareStatus(verifier, hash) = "ok"
  <2>1. PICK s \in SeedIds : s = PreparedSeed(verifier, hash, fresh)  BY PreparedIsSeed
  <2>2. refresh' = [refresh EXCEPT !.pc = "wait", !.seed = s]  BY <1>3, <1>5, <1>8, <2>1 DEF Prepare
  <2>3. /\ refresh'.pc = "wait" /\ refresh'.height = refresh.height /\ refresh'.seed = s
        /\ refresh'.obsolete = refresh.obsolete /\ refresh' \in RefreshTypes
    BY <1>1, <2>2 DEF RefreshTypes, ThreadsTyped
  <2>4. RefreshAgrees'  BY <1>1, <1>2, <1>7, <1>8, <2>1, <2>3 DEF RefreshAgrees
  <2>. QED  BY <1>2, <1>7, <2>3, <2>4, KeepingStep
<1>9. CASE PrepareStatus(verifier, hash) # "ok"
  <2>1. refresh' = Idle  BY <1>5, <1>9 DEF Prepare
  <2>2. RefreshAgrees'  BY <2>1, IdleFacts DEF RefreshAgrees
  <2>. QED  BY <1>2, <1>7, <2>1, <2>2, IdleFacts, KeepingStep
<1>. QED  BY <1>8, <1>9

LEMMA ActivateStep ==
    ASSUME RotationInv, WaitAndActivate
    PROVE  RotationInv'
<1>1. ThreadsTyped /\ VerifierIsSound(verifier) /\ RefreshAgrees  BY DEF RotationInv
<1>2. UNCHANGED <<daemon, template, allowed, clients, failures>> /\ refresh.pc = "wait"
  BY DEF WaitAndActivate, server
<1>3. CASE /\ MayActivate(verifier, refresh.seed) /\ verifier' = ActivateSeed(verifier, refresh.seed)
           /\ refresh' = [refresh EXCEPT !.pc = "prefetch"]
  <2>1. Held(verifier, refresh.seed) /\ refresh.seed \in SeedIds
    BY <1>1, <1>2, <1>3 DEF RefreshAgrees, MayActivate, Held, IsReady, Wanted
  <2>2. PICK s \in SeedIds : s = refresh.seed  BY <2>1
  <2>3. verifier' = ActivateSeed(verifier, s)  BY <1>3, <2>2
  <2>4. VerifierIsSound(verifier') /\ Keeps(verifier, verifier') /\ CountsStay(verifier, verifier')
    BY <1>1, <2>3, Activated
  <2>5. Held(verifier', s)  BY <2>1, <2>2, <2>4, KeptStays
  <2>6. /\ refresh'.pc = "prefetch" /\ refresh'.height = refresh.height /\ refresh'.seed = s
        /\ refresh'.obsolete = refresh.obsolete /\ refresh' \in RefreshTypes
    BY <1>1, <1>3, <2>2 DEF RefreshTypes, ThreadsTyped
  <2>7. RefreshAgrees'  BY <1>1, <1>2, <2>5, <2>6 DEF RefreshAgrees
  <2>. QED  BY <1>2, <2>4, <2>6, <2>7, KeepingStep
<1>4. CASE refresh' = Idle /\ UNCHANGED verifier
  <2>1. VerifierIsSound(verifier') /\ CountsStay(verifier, verifier') /\ Keeps(verifier, verifier')
    BY <1>1, <1>4, NothingKept
  <2>2. RefreshAgrees'  BY <1>4, IdleFacts DEF RefreshAgrees
  <2>. QED  BY <1>2, <1>4, <2>1, <2>2, IdleFacts, KeepingStep
<1>. QED  BY <1>3, <1>4 DEF WaitAndActivate

LEMMA PrefetchStep ==
    ASSUME RotationInv, Prefetch
    PROVE  RotationInv'
<1>1. ThreadsTyped /\ VerifierIsSound(verifier) /\ RefreshAgrees  BY DEF RotationInv
<1>2. UNCHANGED <<daemon, template, allowed, clients, failures>> /\ refresh.pc = "prefetch"
  BY DEF Prefetch, server
<1>3. PICK fresh \in SeedIds : fresh = FreshSeed /\ verifier.seeds[fresh] = NoRecord
  BY FreshFacts DEF Prefetch
<1>4. VerifierIsSound(verifier') /\ CountsStay(verifier, verifier') /\ Keeps(verifier, verifier')
  <2>1. CASE refresh.next \in {NoSeed, Target}  BY <1>1, <2>1, NothingKept DEF Prefetch
  <2>2. CASE refresh.next \notin {NoSeed, Target}
    <3>1. PICK hash \in Hashes : hash = refresh.next  BY <1>1, <2>2 DEF ThreadsTyped
    <3>2. verifier' = PrepareSeed(verifier, hash, fresh)  BY <1>3, <2>2, <3>1 DEF Prefetch
    <3>. QED  BY <1>1, <1>3, <3>2, Prepared
  <2>. QED  BY <2>1, <2>2
<1>5. /\ refresh'.pc = "publish" /\ refresh'.height = refresh.height /\ refresh'.seed = refresh.seed
      /\ refresh'.obsolete = refresh.obsolete /\ refresh' \in RefreshTypes
  BY <1>1 DEF Prefetch, RefreshTypes, ThreadsTyped
<1>6. Held(verifier', refresh.seed)  BY <1>1, <1>2, <1>4, KeptStays DEF RefreshAgrees
<1>7. RefreshAgrees'  BY <1>1, <1>2, <1>5, <1>6 DEF RefreshAgrees
<1>. QED  BY <1>2, <1>4, <1>5, <1>7, KeepingStep

LEMMA PublishStep ==
    ASSUME RotationInv, Publish
    PROVE  RotationInv'
<1>1. ThreadsTyped /\ VerifierIsSound(verifier) /\ RefreshAgrees /\ TemplateIsHeld /\ CountsAgree
  BY DEF RotationInv
<1>2. UNCHANGED <<verifier, daemon, allowed, deriving, socket, stale, jobs, shares, failures>>
  BY DEF Publish, clients
<1>3. CountsStay(verifier, verifier') /\ VerifierIsSound(verifier')  BY <1>1, <1>2, NothingKept
<1>4. CountsAgree'  BY <1>1, <1>2, <1>3, CountsFrame
<1>5. refresh.height \in Heights /\ Held(verifier, refresh.seed) /\ refresh.obsolete = {}
  BY <1>1 DEF Publish, RefreshAgrees
<1>6. template.seed \in SeedIds \cup {NoSeed} /\ refresh.seed \in SeedIds
  BY <1>1, <1>5 DEF ThreadsTyped, Templates, Held, Wanted
<1>7. /\ template'.height = refresh.height /\ template'.seed = refresh.seed /\ template' \in Templates
  BY <1>5, <1>6 DEF Publish, Templates
<1>8. /\ refresh'.pc = "allow" /\ refresh'.height = refresh.height /\ refresh'.obsolete = {}
      /\ refresh' \in RefreshTypes
  BY <1>1, <1>5, <1>6 DEF Publish, RefreshTypes, ThreadsTyped
<1>9. ThreadsTyped'  BY <1>1, <1>2, <1>7, <1>8 DEF ThreadsTyped, RefreshTypes
<1>11. template' # NoTemplate
  <2>1. template'.seed # NoSeed  BY <1>6, <1>7, SeedsAssumption DEF NoSeed
  <2>. QED  BY SMTT(30), <2>1 DEF NoTemplate
<1>10. RefreshAgrees'  BY <1>5, <1>8, <1>11 DEF RefreshAgrees
<1>12. TemplateIsHeld'  BY <1>1, <1>2, <1>5, <1>7, <1>8, <1>11 DEF TemplateIsHeld
<1>. QED  BY <1>3, <1>4, <1>9, <1>10, <1>12 DEF RotationInv

LEMMA AllowStep ==
    ASSUME RotationInv, AllowIssuance
    PROVE  RotationInv'
<1>1. ThreadsTyped /\ VerifierIsSound(verifier) /\ RefreshAgrees  BY DEF RotationInv
<1>2. VerifierIsSound(verifier') /\ CountsStay(verifier, verifier')
  BY <1>1, NothingKept DEF AllowIssuance
<1>3. /\ refresh'.pc = "retire" /\ refresh'.height = refresh.height /\ refresh'.obsolete = refresh.obsolete
      /\ refresh' \in RefreshTypes
  BY <1>1 DEF AllowIssuance, RefreshTypes, ThreadsTyped
<1>4. RefreshAgrees'  BY <1>1, <1>3 DEF RefreshAgrees, AllowIssuance
<1>5. stale' \subseteq Connections /\ allowed' = TRUE  BY <1>1 DEF AllowIssuance, clients, ThreadsTyped
<1>6. template # NoTemplate /\ deriving.template = NoTemplate
  BY <1>1 DEF AllowIssuance, RefreshAgrees, IssuanceLocked
<1>. QED  BY <1>2, <1>3, <1>4, <1>5, <1>6, RefreshStep DEF AllowIssuance, clients

LEMMA RetireStep ==
    ASSUME RotationInv, RetireOldSeed
    PROVE  RotationInv'
<1>1. ThreadsTyped /\ VerifierIsSound(verifier) /\ RefreshAgrees  BY DEF RotationInv
<1>2. UNCHANGED <<daemon, template, allowed, deriving, socket, jobs, shares, failures>>
  BY DEF RetireOldSeed, server
<1>3. refresh' = Idle /\ stale' \subseteq Connections /\ refresh.pc = "retire"  BY DEF RetireOldSeed
<1>4. RefreshAgrees'  BY <1>3, IdleFacts DEF RefreshAgrees
<1>5. allowed' \in BOOLEAN  BY <1>1, <1>2 DEF ThreadsTyped
<1>6. /\ VerifierIsSound(verifier') /\ CountsStay(verifier, verifier')
      /\ template # NoTemplate /\ Held(verifier, template.seed) => Held(verifier', template.seed)
      /\ deriving.template # NoTemplate /\ Held(verifier, deriving.template.seed)
            => Held(verifier', deriving.template.seed)
  <2>1. CASE refresh.seed \in {NoSeed, template.seed}
    <3>1. verifier' = verifier  BY <2>1 DEF RetireOldSeed
    <3>. QED  BY <1>1, <3>1, NothingKept
  <2>2. CASE refresh.seed \notin {NoSeed, template.seed}
    <3>1. PICK s \in SeedIds : s = refresh.seed /\ s # template.seed  BY <1>1, <2>2 DEF ThreadsTyped
    <3>2. verifier' = RequestSeedRelease(verifier, s)  BY <2>2, <3>1 DEF RetireOldSeed
    <3>. QED  BY <1>3, <3>1, <3>2, ReleaseRequested
  <2>. QED  BY <2>1, <2>2
<1>. QED  BY <1>2, <1>3, <1>4, <1>5, <1>6, IdleFacts, RefreshStep

-----------------------------------------------------------------------------
LEMMA SharesFinite ==
    /\ \A s : IsFiniteSet(LeasesOn(s)) /\ IsFiniteSet(VerificationsOn(s))
              /\ Cardinality(LeasesOn(s)) \in Nat /\ Cardinality(VerificationsOn(s)) \in Nat
    /\ IsFiniteSet(Outstanding) /\ Cardinality(Outstanding) \in Nat
<1>1. ASSUME NEW S \in SUBSET Shares PROVE IsFiniteSet(S) /\ Cardinality(S) \in Nat
  BY RotationAssumption, FS_Subset, FS_CardinalityType
<1>2. Outstanding \in SUBSET Shares /\ \A s : LeasesOn(s) \in SUBSET Shares /\ VerificationsOn(s) \in SUBSET Shares
  BY DEF Outstanding, LeasesOn, VerificationsOn
<1>. QED  BY <1>1, <1>2

LEMMA JobsFinite ==
    ASSUME CountsAgree, NEW s
    PROVE  IsFiniteSet(JobsOn(s)) /\ Cardinality(JobsOn(s)) \in Nat
<1>1. IsFiniteSet(jobs) /\ JobsOn(s) \subseteq jobs  BY DEF CountsAgree, JobsOn
<1>. QED  BY <1>1, FS_Subset, FS_CardinalityType

\* A step that changes one share and the counters of its seed.
LEMMA ShareStep ==
    ASSUME RotationInv, NEW s \in SeedIds, VerifierIsSound(verifier'), Keeps(verifier, verifier'),
           NEW n, NEW m, Counted(verifier, verifier', s, n, m),
           n = Cardinality(JobsOn(s)) + Cardinality(LeasesOn(s)'),
           m = Cardinality(VerificationsOn(s)'),
           \A t \in SeedIds : t # s => LeasesOn(t)' = LeasesOn(t) /\ VerificationsOn(t)' = VerificationsOn(t),
           Cardinality(Outstanding') <= MaxOutstanding,
           \A y \in Shares : shares'[y].lease \/ shares'[y].verifying => shares'[y].seed \in SeedIds,
           shares' \in [Shares -> ShareRecords],
           UNCHANGED <<daemon, refresh, template, allowed, deriving, socket, stale, jobs, failures>>
    PROVE  RotationInv'
<1>1. ThreadsTyped'  BY DEF RotationInv, ThreadsTyped, ShareRecords
<1>2. TemplateIsHeld'  BY TemplateFrame DEF RotationInv
<1>3. RefreshAgrees'  BY RefreshFrame DEF RotationInv
<1>4. CountsAgree  BY DEF RotationInv
<1>5. ASSUME NEW t \in SeedIds
      PROVE  /\ verifier'.seeds[t].references = Cardinality(JobsOn(t)') + Cardinality(LeasesOn(t)')
             /\ verifier'.seeds[t].tracked = Cardinality(VerificationsOn(t)')
  <2>1. JobsOn(t)' = JobsOn(t)  BY DEF JobsOn
  <2>2. CASE t = s  BY <2>1, <2>2 DEF Counted
  <2>3. CASE t # s
    <3>1. SameCounts(verifier.seeds[t], verifier'.seeds[t])  BY <2>3 DEF Counted
    <3>2. /\ verifier.seeds[t].references = Cardinality(JobsOn(t)) + Cardinality(LeasesOn(t))
          /\ verifier.seeds[t].tracked = Cardinality(VerificationsOn(t))
      BY <1>4 DEF CountsAgree
    <3>3. LeasesOn(t)' = LeasesOn(t) /\ VerificationsOn(t)' = VerificationsOn(t)  BY <2>3
    <3>. QED  BY <2>1, <3>1, <3>2, <3>3 DEF SameCounts
  <2>. QED  BY <2>2, <2>3
<1>6. IsFiniteSet(jobs')  BY <1>4 DEF CountsAgree
<1>7. CountsAgree'  BY <1>5, <1>6 DEF CountsAgree
<1>. QED  BY <1>1, <1>2, <1>3, <1>7 DEF RotationInv

\* The sets of shares change by one share.
LEMMA OneShare ==
    ASSUME NEW x \in Shares, \A y \in Shares : y # x => shares'[y] = shares[y],
           shares[x].lease \in BOOLEAN, shares'[x].lease \in BOOLEAN,
           shares[x].verifying \in BOOLEAN, shares'[x].verifying \in BOOLEAN, NEW t
    PROVE  /\ LeasesOn(t)' = IF shares'[x].seed = t /\ shares'[x].lease
                             THEN LeasesOn(t) \cup {x} ELSE LeasesOn(t) \ {x}
           /\ VerificationsOn(t)' = IF shares'[x].seed = t /\ shares'[x].verifying
                                    THEN VerificationsOn(t) \cup {x} ELSE VerificationsOn(t) \ {x}
           /\ Outstanding' = IF shares'[x].verifying THEN Outstanding \cup {x} ELSE Outstanding \ {x}
BY DEF LeasesOn, VerificationsOn, Outstanding

\* The seed of a live job, of a lease or of a verification is ready.
LEMMA UsedIsReady ==
    ASSUME RotationInv, NEW s \in SeedIds, InUse(s)
    PROVE  /\ verifier.seeds[s].native = "ready" /\ ~verifier.seeds[s].release_started /\ Known(verifier, s)
<1>1. VerifierIsSound(verifier) /\ CountsAgree  BY DEF RotationInv
<1>2. /\ IsFiniteSet(JobsOn(s)) /\ Cardinality(JobsOn(s)) \in Nat
      /\ IsFiniteSet(LeasesOn(s)) /\ Cardinality(LeasesOn(s)) \in Nat
      /\ IsFiniteSet(VerificationsOn(s)) /\ Cardinality(VerificationsOn(s)) \in Nat
  BY <1>1, SharesFinite, JobsFinite
<1>3. JobsOn(s) # {} \/ LeasesOn(s) # {} \/ VerificationsOn(s) # {}  BY DEF InUse
<1>4. Cardinality(JobsOn(s)) > 0 \/ Cardinality(LeasesOn(s)) > 0 \/ Cardinality(VerificationsOn(s)) > 0
  <2>1. ASSUME NEW S, IsFiniteSet(S), Cardinality(S) \in Nat, S # {} PROVE Cardinality(S) > 0
    <3>1. Cardinality(S) # 0  BY <2>1, FS_EmptySet
    <3>. QED  BY SMTT(30), <2>1, <3>1
  <2>. QED  BY <1>2, <1>3, <2>1
<1>5. /\ verifier.seeds[s].references = Cardinality(JobsOn(s)) + Cardinality(LeasesOn(s))
      /\ verifier.seeds[s].tracked = Cardinality(VerificationsOn(s))
  BY <1>1 DEF CountsAgree
<1>6. verifier.seeds[s].references > 0 \/ verifier.seeds[s].tracked > 0  BY SMTT(30), <1>2, <1>4, <1>5
<1>. QED  BY <1>1, <1>6, CountedIsReady

LEMMA ShareTyped ==
    ASSUME RotationInv, NEW x \in Shares
    PROVE  /\ shares \in [Shares -> ShareRecords] /\ shares[x] \in ShareRecords
           /\ shares[x].lease \in BOOLEAN /\ shares[x].verifying \in BOOLEAN
           /\ \A y \in Shares : shares[y].lease \/ shares[y].verifying => shares[y].seed \in SeedIds
           /\ Cardinality(Outstanding) <= MaxOutstanding
<1>1. shares \in [Shares -> ShareRecords]  BY DEF RotationInv, ThreadsTyped, ShareRecords
<1>2. shares[x] \in ShareRecords  BY <1>1
<1>3. shares[x].lease \in BOOLEAN /\ shares[x].verifying \in BOOLEAN  BY <1>2 DEF ShareRecords
<1>. QED  BY <1>1, <1>2, <1>3 DEF RotationInv, CountsAgree

LEMMA NoShareFacts ==
    /\ NoShare \in ShareRecords /\ NoShare.seed = NoSeed /\ NoShare.lease = FALSE /\ NoShare.verifying = FALSE
    /\ NoSeed \notin SeedIds
<1>1. NoSeed \notin SeedIds  BY SeedsAssumption DEF NoSeed
<1>2. NoShare \in ShareRecords  BY DEF NoShare, ShareRecords
<1>. QED  BY <1>1, <1>2 DEF NoShare

LEMMA AdmitStep ==
    ASSUME RotationInv, NEW x \in Shares, NEW j \in jobs, Admit(x, j)
    PROVE  RotationInv'
<1>1. ThreadsTyped /\ VerifierIsSound(verifier) /\ CountsAgree  BY DEF RotationInv
<1>2. PICK s \in SeedIds : s = j.seed  BY <1>1 DEF ThreadsTyped
<1>3. j \in JobsOn(s)  BY <1>2 DEF JobsOn
<1>4. verifier.seeds[s].native = "ready"  BY <1>3, UsedIsReady DEF InUse
<1>5. verifier' = RetainSeed(verifier, s)  BY <1>2 DEF Admit
<1>6. /\ VerifierIsSound(verifier') /\ Keeps(verifier, verifier')
      /\ Counted(verifier, verifier', s, verifier.seeds[s].references + 1, verifier.seeds[s].tracked)
  BY <1>1, <1>4, <1>5, Retained
<1>. DEFINE r == [seed |-> s, lease |-> TRUE, verifying |-> FALSE]
<1>7. r \in ShareRecords /\ r.seed = s /\ r.lease = TRUE /\ r.verifying = FALSE
  <2>1. r \in ShareRecords  BY DEF ShareRecords
  <2>. QED  BY <2>1
<1>8. shares' = [shares EXCEPT ![x] = r] /\ shares[x] = NoShare  BY <1>2 DEF Admit
<1>. HIDE DEF r
<1>9. shares' \in [Shares -> ShareRecords] /\ shares'[x] = r /\ \A y \in Shares : y # x => shares'[y] = shares[y]
  BY <1>7, <1>8, ShareTyped
<1>10. /\ shares[x].seed = NoSeed /\ shares[x].lease = FALSE /\ shares[x].verifying = FALSE
       /\ shares'[x].seed = s /\ shares'[x].lease = TRUE /\ shares'[x].verifying = FALSE
  BY <1>7, <1>8, <1>9, NoShareFacts
<1>11. ASSUME NEW t \in SeedIds
       PROVE  /\ LeasesOn(t)' = IF shares'[x].seed = t /\ shares'[x].lease
                                THEN LeasesOn(t) \cup {x} ELSE LeasesOn(t) \ {x}
              /\ VerificationsOn(t)' = IF shares'[x].seed = t /\ shares'[x].verifying
                                       THEN VerificationsOn(t) \cup {x} ELSE VerificationsOn(t) \ {x}
              /\ Outstanding' = IF shares'[x].verifying THEN Outstanding \cup {x} ELSE Outstanding \ {x}
  BY <1>9, <1>10, OneShare
<1>12. \A t : x \notin LeasesOn(t) /\ x \notin VerificationsOn(t) /\ x \notin Outstanding
  BY <1>10 DEF LeasesOn, VerificationsOn, Outstanding
<1>13. LeasesOn(s)' = LeasesOn(s) \cup {x} /\ VerificationsOn(s)' = VerificationsOn(s) /\ Outstanding' = Outstanding
  <2>1. /\ LeasesOn(s)' = LeasesOn(s) \cup {x} /\ VerificationsOn(s)' = VerificationsOn(s) \ {x}
        /\ Outstanding' = Outstanding \ {x}
    BY <1>10, <1>11
  <2>2. VerificationsOn(s) \ {x} = VerificationsOn(s) /\ Outstanding \ {x} = Outstanding  BY <1>12
  <2>. QED  BY <2>1, <2>2
<1>14. \A t \in SeedIds : t # s => LeasesOn(t)' = LeasesOn(t) /\ VerificationsOn(t)' = VerificationsOn(t)
  BY SMTT(30), <1>10, <1>11, <1>12
<1>15. Cardinality(LeasesOn(s) \cup {x}) = Cardinality(LeasesOn(s)) + 1
  <2>1. IsFiniteSet(LeasesOn(s)) /\ x \notin LeasesOn(s)  BY <1>12, SharesFinite
  <2>. QED  BY <2>1, FS_AddElement
<1>16. /\ verifier.seeds[s].references = Cardinality(JobsOn(s)) + Cardinality(LeasesOn(s))
       /\ verifier.seeds[s].tracked = Cardinality(VerificationsOn(s))
       /\ Cardinality(JobsOn(s)) \in Nat /\ Cardinality(LeasesOn(s)) \in Nat
  BY <1>1, SharesFinite, JobsFinite DEF CountsAgree
<1>17. verifier.seeds[s].references + 1 = Cardinality(JobsOn(s)) + Cardinality(LeasesOn(s)')
  BY SMTT(30), <1>13, <1>15, <1>16
<1>18. \A y \in Shares : shares'[y].lease \/ shares'[y].verifying => shares'[y].seed \in SeedIds
  BY <1>9, <1>10, ShareTyped
<1>19. Cardinality(Outstanding') <= MaxOutstanding  BY <1>13, ShareTyped
<1>20. UNCHANGED <<daemon, refresh, template, allowed, deriving, socket, stale, jobs, failures>>
  BY DEF Admit, server
<1>. QED  BY <1>6, <1>9, <1>13, <1>14, <1>16, <1>17, <1>18, <1>19, <1>20, ShareStep

LEMMA SubmitStep ==
    ASSUME RotationInv, NEW x \in Shares, SubmitVerify(x)
    PROVE  RotationInv'
<1>1. ThreadsTyped /\ VerifierIsSound(verifier) /\ CountsAgree  BY DEF RotationInv
<1>2. shares[x].lease /\ ~shares[x].verifying  BY DEF SubmitVerify
<1>3. PICK s \in SeedIds : s = shares[x].seed  BY <1>2, ShareTyped
<1>4. verifier.seeds[s].native = "ready"  BY <1>3 DEF SubmitVerify, MaySubmit, IsReady
<1>5. verifier' = TrackSubmission(verifier, s)  BY <1>3 DEF SubmitVerify
<1>6. /\ VerifierIsSound(verifier') /\ Keeps(verifier, verifier')
      /\ Counted(verifier, verifier', s, verifier.seeds[s].references, verifier.seeds[s].tracked + 1)
  BY <1>1, <1>4, <1>5, Tracked
<1>. DEFINE r == [shares[x] EXCEPT !.verifying = TRUE]
<1>7. r \in ShareRecords /\ r.seed = s /\ r.lease = shares[x].lease /\ r.verifying = TRUE
  <2>1. r \in ShareRecords  BY ShareTyped DEF ShareRecords
  <2>. QED  BY <1>3, <2>1, ShareTyped DEF ShareRecords
<1>8. shares' = [shares EXCEPT ![x] = r]  BY DEF SubmitVerify
<1>. HIDE DEF r
<1>9. shares' \in [Shares -> ShareRecords] /\ shares'[x] = r /\ \A y \in Shares : y # x => shares'[y] = shares[y]
  BY <1>7, <1>8, ShareTyped
<1>10. /\ shares'[x].seed = s /\ shares'[x].lease = TRUE /\ shares'[x].verifying = TRUE
       /\ shares[x].lease = TRUE /\ shares[x].verifying = FALSE
  BY <1>2, <1>7, <1>9, ShareTyped
<1>11. ASSUME NEW t \in SeedIds
       PROVE  /\ LeasesOn(t)' = IF shares'[x].seed = t /\ shares'[x].lease
                                THEN LeasesOn(t) \cup {x} ELSE LeasesOn(t) \ {x}
              /\ VerificationsOn(t)' = IF shares'[x].seed = t /\ shares'[x].verifying
                                       THEN VerificationsOn(t) \cup {x} ELSE VerificationsOn(t) \ {x}
              /\ Outstanding' = IF shares'[x].verifying THEN Outstanding \cup {x} ELSE Outstanding \ {x}
  BY <1>9, <1>10, OneShare
<1>12. \A t : (x \in LeasesOn(t) <=> t = s) /\ x \notin VerificationsOn(t) /\ x \notin Outstanding
  BY <1>3, <1>10 DEF LeasesOn, VerificationsOn, Outstanding
<1>13. /\ LeasesOn(s)' = LeasesOn(s) /\ VerificationsOn(s)' = VerificationsOn(s) \cup {x}
       /\ Outstanding' = Outstanding \cup {x}
  <2>1. /\ LeasesOn(s)' = LeasesOn(s) \cup {x} /\ VerificationsOn(s)' = VerificationsOn(s) \cup {x}
        /\ Outstanding' = Outstanding \cup {x}
    BY <1>10, <1>11
  <2>2. LeasesOn(s) \cup {x} = LeasesOn(s)  BY <1>12
  <2>. QED  BY <2>1, <2>2
<1>14. \A t \in SeedIds : t # s => LeasesOn(t)' = LeasesOn(t) /\ VerificationsOn(t)' = VerificationsOn(t)
  BY SMTT(30), <1>10, <1>11, <1>12
<1>15. /\ Cardinality(VerificationsOn(s) \cup {x}) = Cardinality(VerificationsOn(s)) + 1
       /\ Cardinality(Outstanding \cup {x}) = Cardinality(Outstanding) + 1
  <2>1. /\ IsFiniteSet(VerificationsOn(s)) /\ x \notin VerificationsOn(s)
        /\ IsFiniteSet(Outstanding) /\ x \notin Outstanding
    BY <1>12, SharesFinite
  <2>. QED  BY <2>1, FS_AddElement
<1>16. /\ verifier.seeds[s].references = Cardinality(JobsOn(s)) + Cardinality(LeasesOn(s))
       /\ verifier.seeds[s].tracked = Cardinality(VerificationsOn(s))
  BY <1>1 DEF CountsAgree
<1>17. verifier.seeds[s].tracked + 1 = Cardinality(VerificationsOn(s)')
  BY <1>13, <1>15, <1>16
<1>18. \A y \in Shares : shares'[y].lease \/ shares'[y].verifying => shares'[y].seed \in SeedIds
  BY <1>9, <1>10, ShareTyped
<1>19. Cardinality(Outstanding') <= MaxOutstanding
  <2>1. Cardinality(Outstanding) < MaxOutstanding  BY DEF SubmitVerify
  <2>. QED  BY SMTT(30), <1>13, <1>15, <2>1, SharesFinite, RotationAssumption
<1>20. UNCHANGED <<daemon, refresh, template, allowed, deriving, socket, stale, jobs, failures>>
  BY DEF SubmitVerify, server
<1>. QED  BY <1>6, <1>9, <1>13, <1>14, <1>16, <1>17, <1>18, <1>19, <1>20, ShareStep

LEMMA CompletesStep ==
    ASSUME RotationInv, NEW x \in Shares, Completes(x)
    PROVE  RotationInv'
<1>1. ThreadsTyped /\ VerifierIsSound(verifier) /\ CountsAgree  BY DEF RotationInv
<1>2. shares[x].verifying /\ shares[x].lease \in BOOLEAN /\ shares[x] \in ShareRecords
  BY ShareTyped DEF Completes
<1>3. PICK s \in SeedIds : s = shares[x].seed  BY <1>2, ShareTyped
<1>4. /\ verifier.seeds[s].references = Cardinality(JobsOn(s)) + Cardinality(LeasesOn(s))
      /\ verifier.seeds[s].tracked = Cardinality(VerificationsOn(s))
  BY <1>1 DEF CountsAgree
<1>5. x \in VerificationsOn(s) /\ IsFiniteSet(VerificationsOn(s)) /\ x \in Outstanding /\ IsFiniteSet(Outstanding)
  BY <1>2, <1>3, SharesFinite DEF VerificationsOn, Outstanding
<1>6. /\ Cardinality(VerificationsOn(s) \ {x}) = Cardinality(VerificationsOn(s)) - 1
      /\ Cardinality(Outstanding \ {x}) = Cardinality(Outstanding) - 1
  BY <1>5, FS_RemoveElement
<1>7. verifier.seeds[s].tracked > 0
  <2>1. Cardinality(VerificationsOn(s)) # 0  BY <1>5, FS_EmptySet
  <2>. QED  BY SMTT(30), <1>4, <2>1, SharesFinite
<1>8. verifier' = CorrelateCompletion(verifier, s)  BY <1>3 DEF Completes
<1>9. /\ VerifierIsSound(verifier') /\ Keeps(verifier, verifier')
      /\ Counted(verifier, verifier', s, verifier.seeds[s].references, verifier.seeds[s].tracked - 1)
  BY <1>1, <1>7, <1>8, Correlated
<1>10. PICK r : r = IF shares[x].lease THEN [shares[x] EXCEPT !.verifying = FALSE] ELSE NoShare  OBVIOUS
<1>11. shares' = [shares EXCEPT ![x] = r]  BY <1>10 DEF Completes
<1>12. r \in ShareRecords /\ r.lease = shares[x].lease /\ r.verifying = FALSE /\ (r.lease => r.seed = s)
  <2>1. CASE shares[x].lease
    <3>1. r = [shares[x] EXCEPT !.verifying = FALSE]  BY <1>10, <2>1
    <3>2. r \in ShareRecords  BY <1>2, <3>1 DEF ShareRecords
    <3>. QED  BY <1>2, <1>3, <3>1, <3>2 DEF ShareRecords
  <2>2. CASE ~shares[x].lease  BY <1>2, <1>10, <2>2, NoShareFacts
  <2>. QED  BY <2>1, <2>2
<1>13. shares' \in [Shares -> ShareRecords] /\ shares'[x] = r /\ \A y \in Shares : y # x => shares'[y] = shares[y]
  BY <1>11, <1>12, ShareTyped
<1>14. /\ shares'[x].lease = shares[x].lease /\ shares'[x].verifying = FALSE
       /\ shares'[x].lease => shares'[x].seed = s
       /\ shares[x].lease \in BOOLEAN /\ shares[x].verifying \in BOOLEAN
  BY <1>12, <1>13, ShareTyped
<1>15. ASSUME NEW t \in SeedIds
       PROVE  /\ LeasesOn(t)' = LeasesOn(t)
              /\ VerificationsOn(t)' = VerificationsOn(t) \ {x} /\ Outstanding' = Outstanding \ {x}
  <2>1. /\ LeasesOn(t)' = IF shares'[x].seed = t /\ shares'[x].lease
                          THEN LeasesOn(t) \cup {x} ELSE LeasesOn(t) \ {x}
        /\ VerificationsOn(t)' = IF shares'[x].seed = t /\ shares'[x].verifying
                                 THEN VerificationsOn(t) \cup {x} ELSE VerificationsOn(t) \ {x}
        /\ Outstanding' = IF shares'[x].verifying THEN Outstanding \cup {x} ELSE Outstanding \ {x}
    BY <1>13, <1>14, OneShare
  <2>2. VerificationsOn(t)' = VerificationsOn(t) \ {x} /\ Outstanding' = Outstanding \ {x}  BY <1>14, <2>1
  <2>3. x \in LeasesOn(t) <=> s = t /\ shares[x].lease  BY <1>3 DEF LeasesOn
  <2>4. shares'[x].seed = t /\ shares'[x].lease <=> s = t /\ shares[x].lease  BY <1>14
  <2>5. CASE x \in LeasesOn(t)
    <3>1. LeasesOn(t)' = LeasesOn(t) \cup {x}  BY <2>1, <2>3, <2>4, <2>5
    <3>. QED  BY <2>2, <2>5, <3>1
  <2>6. CASE x \notin LeasesOn(t)
    <3>1. LeasesOn(t)' = LeasesOn(t) \ {x}  BY <2>1, <2>3, <2>4, <2>6
    <3>. QED  BY <2>2, <2>6, <3>1
  <2>. QED  BY <2>5, <2>6
<1>16. \A t \in SeedIds : t # s => LeasesOn(t)' = LeasesOn(t) /\ VerificationsOn(t)' = VerificationsOn(t)
  <2>1. \A t : t # s => x \notin VerificationsOn(t)  BY <1>3 DEF VerificationsOn
  <2>2. \A t : t # s => VerificationsOn(t) \ {x} = VerificationsOn(t)  BY <2>1
  <2>. QED  BY <1>15, <2>2
<1>17. verifier.seeds[s].tracked - 1 = Cardinality(VerificationsOn(s)')  BY <1>4, <1>6, <1>15
<1>18. verifier.seeds[s].references = Cardinality(JobsOn(s)) + Cardinality(LeasesOn(s)')  BY <1>4, <1>15
<1>19. Cardinality(Outstanding') <= MaxOutstanding
  <2>1. Cardinality(Outstanding') = Cardinality(Outstanding) - 1  BY <1>6, <1>15
  <2>. QED  BY SMTT(30), <2>1, ShareTyped, SharesFinite, RotationAssumption
<1>20. \A y \in Shares : shares'[y].lease \/ shares'[y].verifying => shares'[y].seed \in SeedIds
  BY <1>13, <1>14, ShareTyped
<1>21. UNCHANGED <<daemon, refresh, template, allowed, deriving, socket, stale, jobs, failures>>
  BY DEF Completes, server
<1>. QED  BY <1>9, <1>13, <1>16, <1>17, <1>18, <1>19, <1>20, <1>21, ShareStep

LEMMA EndLeaseStep ==
    ASSUME RotationInv, NEW x \in Shares, EndLease(x)
    PROVE  RotationInv'
<1>1. ThreadsTyped /\ VerifierIsSound(verifier) /\ CountsAgree  BY DEF RotationInv
<1>2. shares[x].lease /\ shares[x].verifying \in BOOLEAN /\ shares[x] \in ShareRecords
  BY ShareTyped DEF EndLease
<1>3. PICK s \in SeedIds : s = shares[x].seed  BY <1>2, ShareTyped
<1>4. /\ verifier.seeds[s].references = Cardinality(JobsOn(s)) + Cardinality(LeasesOn(s))
      /\ verifier.seeds[s].tracked = Cardinality(VerificationsOn(s))
  BY <1>1 DEF CountsAgree
<1>5. x \in LeasesOn(s) /\ IsFiniteSet(LeasesOn(s))  BY <1>2, <1>3, SharesFinite DEF LeasesOn
<1>6. Cardinality(LeasesOn(s) \ {x}) = Cardinality(LeasesOn(s)) - 1  BY <1>5, FS_RemoveElement
<1>7. /\ Cardinality(LeasesOn(s)) \in Nat /\ Cardinality(JobsOn(s)) \in Nat /\ Cardinality(LeasesOn(s)) # 0
  BY <1>1, <1>5, FS_EmptySet, SharesFinite, JobsFinite
<1>8. 1 <= verifier.seeds[s].references  BY SMTT(30), <1>4, <1>7
<1>9. verifier' = DropSeedReferences(verifier, s, 1)  BY <1>3 DEF EndLease, DropSeedReference
<1>10. /\ VerifierIsSound(verifier') /\ Keeps(verifier, verifier')
       /\ Counted(verifier, verifier', s, verifier.seeds[s].references - 1, verifier.seeds[s].tracked)
  BY <1>1, <1>8, <1>9, Dropped
<1>11. PICK r : r = IF shares[x].verifying THEN [shares[x] EXCEPT !.lease = FALSE] ELSE NoShare  OBVIOUS
<1>12. shares' = [shares EXCEPT ![x] = r]  BY <1>11 DEF EndLease
<1>13. r \in ShareRecords /\ r.verifying = shares[x].verifying /\ r.lease = FALSE /\ (r.verifying => r.seed = s)
  <2>1. CASE shares[x].verifying
    <3>1. r = [shares[x] EXCEPT !.lease = FALSE]  BY <1>11, <2>1
    <3>2. r \in ShareRecords  BY <1>2, <3>1 DEF ShareRecords
    <3>. QED  BY <1>2, <1>3, <3>1, <3>2 DEF ShareRecords
  <2>2. CASE ~shares[x].verifying  BY <1>2, <1>11, <2>2, NoShareFacts
  <2>. QED  BY <2>1, <2>2
<1>14. shares' \in [Shares -> ShareRecords] /\ shares'[x] = r /\ \A y \in Shares : y # x => shares'[y] = shares[y]
  BY <1>12, <1>13, ShareTyped
<1>15. /\ shares'[x].verifying = shares[x].verifying /\ shares'[x].lease = FALSE
       /\ shares'[x].verifying => shares'[x].seed = s
       /\ shares[x].lease \in BOOLEAN /\ shares[x].verifying \in BOOLEAN
  BY <1>13, <1>14, ShareTyped
<1>16. ASSUME NEW t \in SeedIds
       PROVE  /\ VerificationsOn(t)' = VerificationsOn(t)
              /\ LeasesOn(t)' = LeasesOn(t) \ {x} /\ Outstanding' = Outstanding
  <2>1. /\ LeasesOn(t)' = IF shares'[x].seed = t /\ shares'[x].lease
                          THEN LeasesOn(t) \cup {x} ELSE LeasesOn(t) \ {x}
        /\ VerificationsOn(t)' = IF shares'[x].seed = t /\ shares'[x].verifying
                                 THEN VerificationsOn(t) \cup {x} ELSE VerificationsOn(t) \ {x}
    BY <1>14, <1>15, OneShare
  <2>2. LeasesOn(t)' = LeasesOn(t) \ {x}  BY <1>15, <2>1
  <2>3. Outstanding' = Outstanding  BY <1>14, <1>15 DEF Outstanding
  <2>4. x \in VerificationsOn(t) <=> s = t /\ shares[x].verifying  BY <1>3 DEF VerificationsOn
  <2>5. shares'[x].seed = t /\ shares'[x].verifying <=> s = t /\ shares[x].verifying  BY <1>15
  <2>6. CASE x \in VerificationsOn(t)
    <3>1. VerificationsOn(t)' = VerificationsOn(t) \cup {x}  BY <2>1, <2>4, <2>5, <2>6
    <3>. QED  BY <2>2, <2>3, <2>6, <3>1
  <2>7. CASE x \notin VerificationsOn(t)
    <3>1. VerificationsOn(t)' = VerificationsOn(t) \ {x}  BY <2>1, <2>4, <2>5, <2>7
    <3>. QED  BY <2>2, <2>3, <2>7, <3>1
  <2>. QED  BY <2>6, <2>7
<1>17. \A t \in SeedIds : t # s => LeasesOn(t)' = LeasesOn(t) /\ VerificationsOn(t)' = VerificationsOn(t)
  <2>1. \A t : t # s => x \notin LeasesOn(t)  BY <1>3 DEF LeasesOn
  <2>2. \A t : t # s => LeasesOn(t) \ {x} = LeasesOn(t)  BY <2>1
  <2>. QED  BY <1>16, <2>2
<1>18. verifier.seeds[s].tracked = Cardinality(VerificationsOn(s)')  BY <1>4, <1>16
<1>19. verifier.seeds[s].references - 1 = Cardinality(JobsOn(s)) + Cardinality(LeasesOn(s)')
  <2>1. Cardinality(LeasesOn(s)') = Cardinality(LeasesOn(s)) - 1  BY <1>6, <1>16
  <2>. QED  BY SMTT(30), <1>4, <1>7, <2>1
<1>20. Cardinality(Outstanding') <= MaxOutstanding  BY <1>16, ShareTyped
<1>21. \A y \in Shares : shares'[y].lease \/ shares'[y].verifying => shares'[y].seed \in SeedIds
  BY <1>14, <1>15, ShareTyped
<1>22. UNCHANGED <<daemon, refresh, template, allowed, deriving, socket, stale, jobs, failures>>
  BY DEF EndLease, server
<1>. QED  BY <1>10, <1>14, <1>17, <1>18, <1>19, <1>20, <1>21, <1>22, ShareStep

-----------------------------------------------------------------------------
\* The event loop.
LEMMA OnFinite ==
    ASSUME NEW J, IsFiniteSet(J), NEW s
    PROVE  IsFiniteSet(GoneOn(J, s)) /\ Cardinality(GoneOn(J, s)) \in Nat
<1>1. GoneOn(J, s) \subseteq J  BY DEF GoneOn
<1>. QED  BY <1>1, FS_Subset, FS_CardinalityType

LEMMA OnDifference ==
    ASSUME NEW J, IsFiniteSet(J), NEW gone \in SUBSET J, NEW s
    PROVE  /\ Cardinality(GoneOn(J \ gone, s)) = Cardinality(GoneOn(J, s)) - Cardinality(GoneOn(gone, s))
           /\ Cardinality(GoneOn(gone, s)) \in Nat
           /\ Cardinality(GoneOn(gone, s)) <= Cardinality(GoneOn(J, s))
<1>1. IsFiniteSet(GoneOn(J, s))  BY OnFinite
<1>2. GoneOn(gone, s) \subseteq GoneOn(J, s)  BY DEF GoneOn
<1>3. IsFiniteSet(GoneOn(gone, s)) /\ Cardinality(GoneOn(gone, s)) <= Cardinality(GoneOn(J, s))
  BY <1>1, <1>2, FS_Subset
<1>4. GoneOn(J \ gone, s) = GoneOn(J, s) \ GoneOn(gone, s)  BY DEF GoneOn
<1>5. GoneOn(J, s) \cap GoneOn(gone, s) = GoneOn(gone, s)  BY <1>2
<1>6. Cardinality(GoneOn(J, s) \ GoneOn(gone, s))
        = Cardinality(GoneOn(J, s)) - Cardinality(GoneOn(J, s) \cap GoneOn(gone, s))
  BY <1>1, FS_Difference
<1>7. Cardinality(GoneOn(gone, s)) \in Nat  BY <1>3, FS_CardinalityType
<1>. QED  BY <1>3, <1>4, <1>5, <1>6, <1>7

\* retire_job_context: the counters follow the jobs that are left.
LEMMA JobsLeave ==
    ASSUME NEW v, VerifierIsSound(v), NEW J, IsFiniteSet(J), NEW gone, gone \subseteq J, Counts(v, J),
           NEW z, z = DropJobs(v, gone)
    PROVE  VerifierIsSound(z) /\ Keeps(v, z) /\ Counts(z, J \ gone) /\ SameTracked(v, z)
<1>1. ASSUME NEW s \in SeedIds
      PROVE  /\ Cardinality(GoneOn(gone, s)) \in Nat /\ Cardinality(GoneOn(gone, s)) <= v.seeds[s].references
             /\ v.seeds[s].references - Cardinality(GoneOn(gone, s))
                  = Cardinality(GoneOn(J \ gone, s)) + Cardinality(LeasesOn(s))
  <2>1. /\ Cardinality(GoneOn(J \ gone, s)) = Cardinality(GoneOn(J, s)) - Cardinality(GoneOn(gone, s))
        /\ Cardinality(GoneOn(gone, s)) \in Nat
        /\ Cardinality(GoneOn(gone, s)) <= Cardinality(GoneOn(J, s))
    BY OnDifference
  <2>2. Cardinality(GoneOn(J, s)) \in Nat /\ Cardinality(LeasesOn(s)) \in Nat  BY OnFinite, SharesFinite
  <2>3. v.seeds[s].references = Cardinality(GoneOn(J, s)) + Cardinality(LeasesOn(s))  BY DEF Counts
  <2>. QED  BY SMTT(30), <2>1, <2>2, <2>3
<1>2. /\ VerifierIsSound(z) /\ Keeps(v, z)
      /\ \A s \in SeedIds :
            /\ z.seeds[s].references = v.seeds[s].references - Cardinality(GoneOn(gone, s))
            /\ z.seeds[s].tracked = v.seeds[s].tracked
  BY SMTT(30), <1>1, JobsDropped
<1>. QED  BY <1>1, <1>2 DEF Counts, SameTracked

LEMMA JobsStep ==
    ASSUME RotationInv, VerifierIsSound(verifier'), Keeps(verifier, verifier'),
           IsFiniteSet(jobs'), jobs' \subseteq [conn : Connections, height : Heights, seed : SeedIds],
           Counts(verifier', jobs'), SameTracked(verifier, verifier'),
           deriving' = deriving \/ deriving' = NotDeriving,
           socket' \in [Connections -> {"new", "open", "closed"}], stale' \subseteq Connections,
           UNCHANGED <<daemon, refresh, template, allowed, shares, failures>>
    PROVE  RotationInv'
<1>1. NotDeriving.template = NoTemplate /\ NotDeriving \in [conn : Connections, template : Templates]
  <2>1. (CHOOSE c \in Connections : TRUE) \in Connections  BY RotationAssumption
  <2>2. NoTemplate \in Templates  BY DEF NoTemplate, Templates
  <2>. QED  BY <2>1, <2>2 DEF NotDeriving
<1>2. ThreadsTyped'  BY SMTT(30), <1>1 DEF RotationInv, ThreadsTyped
<1>3. RefreshAgrees'  BY RefreshFrame DEF RotationInv
<1>4. TemplateIsHeld'
  <2>1. \A s : Held(verifier, s) => Held(verifier', s)  BY KeptStays
  <2>. QED  BY <1>1, <2>1 DEF RotationInv, TemplateIsHeld
<1>5. CountsAgree  BY DEF RotationInv
<1>6. ASSUME NEW s \in SeedIds
      PROVE  /\ verifier'.seeds[s].references = Cardinality(JobsOn(s)') + Cardinality(LeasesOn(s)')
             /\ verifier'.seeds[s].tracked = Cardinality(VerificationsOn(s)')
  <2>1. JobsOn(s)' = GoneOn(jobs', s)  BY DEF JobsOn, GoneOn
  <2>2. LeasesOn(s)' = LeasesOn(s) /\ VerificationsOn(s)' = VerificationsOn(s)  BY DEF LeasesOn, VerificationsOn
  <2>3. verifier.seeds[s].tracked = Cardinality(VerificationsOn(s))  BY <1>5 DEF CountsAgree
  <2>. QED  BY <2>1, <2>2, <2>3 DEF Counts, SameTracked
<1>7. Outstanding' = Outstanding  BY DEF Outstanding
<1>8. CountsAgree'  BY <1>5, <1>6, <1>7 DEF CountsAgree
<1>. QED  BY <1>2, <1>3, <1>4, <1>8 DEF RotationInv

LEMMA BeginStep ==
    ASSUME RotationInv, NEW c \in Connections, BeginJob(c)
    PROVE  RotationInv'
<1>1. ThreadsTyped /\ VerifierIsSound(verifier) /\ TemplateIsHeld /\ RefreshAgrees /\ CountsAgree
  BY DEF RotationInv
<1>2. UNCHANGED <<verifier, daemon, refresh, template, allowed, socket, stale, jobs, shares, failures>>
  BY DEF BeginJob, server
<1>3. deriving' \in [conn : Connections, template : Templates] /\ deriving'.template = template
  BY <1>1 DEF BeginJob, ThreadsTyped
<1>4. ThreadsTyped'  BY <1>1, <1>2, <1>3 DEF ThreadsTyped
<1>5. TemplateIsHeld'  BY <1>1, <1>2, <1>3 DEF TemplateIsHeld, BeginJob
<1>6. Keeps(verifier, verifier') /\ CountsStay(verifier, verifier') /\ VerifierIsSound(verifier')
  BY <1>1, <1>2, NothingKept
<1>7. RefreshAgrees' /\ CountsAgree'  BY <1>1, <1>2, <1>6, RefreshFrame, CountsFrame
<1>. QED  BY <1>4, <1>5, <1>6, <1>7 DEF RotationInv

LEMMA CloseStep ==
    ASSUME RotationInv, NEW c \in Connections, Close(c)
    PROVE  RotationInv'
<1>1. ThreadsTyped /\ VerifierIsSound(verifier) /\ CountsAgree  BY DEF RotationInv
<1>2. PICK gone : gone = {j \in jobs : j.conn = c}  OBVIOUS
<1>3. verifier' = DropJobs(verifier, gone) /\ jobs' = jobs \ gone /\ gone \in SUBSET jobs  BY <1>2 DEF Close
<1>4. IsFiniteSet(jobs) /\ Counts(verifier, jobs)  BY <1>1 DEF CountsAgree, JobsOn, GoneOn, Counts
<1>5. /\ VerifierIsSound(verifier') /\ Keeps(verifier, verifier')
      /\ Counts(verifier', jobs \ gone) /\ SameTracked(verifier, verifier')
  BY <1>1, <1>3, <1>4, JobsLeave
<1>6. IsFiniteSet(jobs') /\ jobs' \subseteq [conn : Connections, height : Heights, seed : SeedIds]
  BY <1>1, <1>3, <1>4, FS_Subset DEF ThreadsTyped
<1>7. socket' \in [Connections -> {"new", "open", "closed"}] /\ stale' \subseteq Connections
  BY <1>1 DEF Close, ThreadsTyped
<1>8. UNCHANGED <<daemon, refresh, template, allowed, deriving, shares, failures>>  BY DEF Close, server
<1>. QED  BY <1>3, <1>5, <1>6, <1>7, <1>8, JobsStep

\* retain_seed finds the seed of the job that was derived; the jobs are counted with it
\* before those of lower heights go.
LEMMA FinishStep ==
    ASSUME RotationInv, FinishJob
    PROVE  RotationInv'
<1>1. ThreadsTyped /\ VerifierIsSound(verifier) /\ TemplateIsHeld /\ CountsAgree  BY DEF RotationInv
<1>2. deriving.template # NoTemplate  BY DEF FinishJob, EventLoopFree
<1>3. PICK s \in SeedIds : s = deriving.template.seed /\ Held(verifier, s)
  BY <1>1, <1>2 DEF TemplateIsHeld, Held, Wanted
<1>4. deriving.template.height \in Heights /\ deriving.conn \in Connections
  BY <1>1, <1>2 DEF TemplateIsHeld, ThreadsTyped
<1>5. verifier.seeds[s].native = "ready" /\ MayRetain(verifier, s)
  <2>1. RecordIsSound(verifier.seeds[s])  BY <1>1, RecordOf
  <2>2. s # NoSeed  BY SeedsAssumption DEF NoSeed
  <2>. QED  BY <1>3, <2>1, <2>2 DEF Held, Wanted, MayRetain, Known, RecordIsSound
<1>6. PICK job \in [conn : Connections, height : Heights, seed : SeedIds] :
         job = [conn |-> deriving.conn, height |-> deriving.template.height, seed |-> s]
  BY <1>4
<1>7. job.seed = s /\ job.height \in Heights  BY <1>6
<1>8. PICK gone : gone = {j \in jobs : j.conn = deriving.conn /\ (TRUE => j.height < job.height)}  OBVIOUS
<1>9. job \notin gone /\ gone \in SUBSET jobs
  <2>1. ~(job.height < job.height)  BY SMTT(30), <1>7 DEF Heights
  <2>. QED  BY <1>8, <2>1
<1>10. PICK v : v = IF job \notin jobs THEN RetainSeed(verifier, s) ELSE verifier  OBVIOUS
<1>11. /\ verifier' = DropJobs(v, gone) /\ jobs' = (jobs \ gone) \cup {job}
       /\ socket' = [socket EXCEPT ![deriving.conn] = "open"]
       /\ stale' = stale \ {deriving.conn} /\ deriving' = NotDeriving
  <2>1. MayRetain(verifier, deriving.template.seed)  BY <1>3, <1>5
  <2>. QED  BY <1>3, <1>6, <1>7, <1>8, <1>10, <2>1 DEF FinishJob
<1>. DEFINE J == jobs \cup {job}
<1>12. IsFiniteSet(jobs) /\ IsFiniteSet(J)  BY <1>1, FS_AddElement DEF CountsAgree
<1>13. jobs' = J \ gone /\ gone \in SUBSET J  BY <1>9, <1>11
<1>14. \A t \in SeedIds :
          /\ verifier.seeds[t].references = Cardinality(GoneOn(jobs, t)) + Cardinality(LeasesOn(t))
          /\ Cardinality(GoneOn(jobs, t)) \in Nat /\ Cardinality(LeasesOn(t)) \in Nat
          /\ IsFiniteSet(GoneOn(jobs, t))
  BY <1>1, <1>12, OnFinite, SharesFinite DEF CountsAgree, JobsOn, GoneOn
<1>15. /\ VerifierIsSound(v) /\ Keeps(verifier, v)
       /\ \A t \in SeedIds :
             /\ v.seeds[t].references = Cardinality(GoneOn(J, t)) + Cardinality(LeasesOn(t))
             /\ v.seeds[t].tracked = verifier.seeds[t].tracked
  <2>1. CASE job \in jobs
    <3>1. v = verifier /\ J = jobs  BY <1>10, <2>1
    <3>. QED  BY <1>1, <1>14, <3>1, NothingKept
  <2>2. CASE job \notin jobs
    <3>1. v = RetainSeed(verifier, s)  BY <1>10, <2>2
    <3>2. /\ VerifierIsSound(v) /\ Keeps(verifier, v)
          /\ Counted(verifier, v, s, verifier.seeds[s].references + 1, verifier.seeds[s].tracked)
      BY <1>1, <1>5, <3>1, Retained
    <3>3. ASSUME NEW t \in SeedIds
          PROVE  /\ v.seeds[t].references = Cardinality(GoneOn(J, t)) + Cardinality(LeasesOn(t))
                 /\ v.seeds[t].tracked = verifier.seeds[t].tracked
      <4>1. CASE t = s
        <5>1. GoneOn(J, s) = GoneOn(jobs, s) \cup {job} /\ job \notin GoneOn(jobs, s)
          BY <1>7, <2>2 DEF GoneOn
        <5>2. Cardinality(GoneOn(jobs, s) \cup {job}) = Cardinality(GoneOn(jobs, s)) + 1
          BY <1>14, <5>1, FS_AddElement
        <5>3. Cardinality(GoneOn(J, s)) = Cardinality(GoneOn(jobs, s)) + 1  BY <5>1, <5>2
        <5>4. /\ v.seeds[s].references = verifier.seeds[s].references + 1
              /\ v.seeds[s].tracked = verifier.seeds[s].tracked
          BY <3>2 DEF Counted
        <5>. HIDE DEF J
        <5>. QED  BY SMTT(30), <1>14, <4>1, <5>3, <5>4
      <4>2. CASE t # s
        <5>1. GoneOn(J, t) = GoneOn(jobs, t)  BY <1>7, <4>2 DEF GoneOn
        <5>2. SameCounts(verifier.seeds[t], v.seeds[t])  BY <3>2, <4>2 DEF Counted
        <5>. QED  BY <1>14, <5>1, <5>2 DEF SameCounts
      <4>. QED  BY <4>1, <4>2
    <3>. QED  BY <3>2, <3>3
  <2>. QED  BY <2>1, <2>2
<1>. HIDE DEF J
<1>16. VerifierIsSound(verifier') /\ Keeps(v, verifier') /\ Counts(verifier', J \ gone) /\ SameTracked(v, verifier')
  <2>1. VerifierIsSound(v) /\ verifier' = DropJobs(v, gone) /\ IsFiniteSet(J) /\ gone \subseteq J
    BY <1>11, <1>12, <1>13, <1>15
  <2>2. Counts(v, J)  BY <1>15 DEF Counts
  <2>. QED  BY <2>1, <2>2, JobsLeave
<1>17. Keeps(verifier, verifier')  BY <1>15, <1>16, KeepsTransitive
<1>18. IsFiniteSet(jobs')  BY <1>12, <1>13, FS_Subset
<1>19. jobs' \subseteq [conn : Connections, height : Heights, seed : SeedIds]
  BY <1>1, <1>11 DEF ThreadsTyped
<1>20. socket' \in [Connections -> {"new", "open", "closed"}] /\ stale' \subseteq Connections
  BY <1>1, <1>11 DEF ThreadsTyped
<1>21. UNCHANGED <<daemon, refresh, template, allowed, shares, failures>>  BY DEF FinishJob, server
<1>22. Counts(verifier', jobs') /\ SameTracked(verifier, verifier')
  BY <1>13, <1>15, <1>16 DEF SameTracked
<1>23. VerifierIsSound(verifier') /\ deriving' = NotDeriving  BY <1>11, <1>16
<1>. QED  BY <1>17, <1>18, <1>19, <1>20, <1>21, <1>22, <1>23, JobsStep

-----------------------------------------------------------------------------
LEMMA InitSound ==
    ASSUME Init
    PROVE  RotationInv
<1>1. verifier.current = NoSeed /\ verifier.seeds = [s \in SeedIds |-> NoRecord]  BY DEF Init, VerifierInit
<1>2. verifier \in Verifiers  BY NoRecordFacts DEF Init, VerifierInit, Verifiers
<1>3. \A s \in SeedIds : verifier.seeds[s] = NoRecord  BY <1>1
<1>4. InLibrary(verifier) = {}  BY <1>3, NoRecordFacts DEF InLibrary
<1>5. IsFiniteSet(InLibrary(verifier)) /\ Cardinality(InLibrary(verifier)) <= MaxSeeds
  BY SMTT(30), <1>4, FS_EmptySet, SeedsAssumption
<1>6. VerifierIsSound(verifier)  BY <1>2, <1>3, <1>5, NoRecordFacts DEF VerifierIsSound
<1>7. shares \in [Shares -> ShareRecords] /\ \A x \in Shares : shares[x] = NoShare
  BY NoShareFacts DEF Init
<1>8. \A s \in SeedIds : JobsOn(s) = {} /\ LeasesOn(s) = {} /\ VerificationsOn(s) = {}
  BY <1>7, NoShareFacts DEF JobsOn, LeasesOn, VerificationsOn, Init
<1>9. Outstanding = {}  BY <1>7, NoShareFacts DEF Outstanding
<1>10. Cardinality({}) = 0 /\ IsFiniteSet(jobs)  BY FS_EmptySet DEF Init
<1>11. Cardinality(Outstanding) <= MaxOutstanding  BY SMTT(30), <1>9, <1>10, RotationAssumption
<1>12. CountsAgree  BY SMTT(30), <1>3, <1>7, <1>8, <1>10, <1>11, NoRecordFacts, NoShareFacts DEF CountsAgree
<1>13. (CHOOSE c \in Connections : TRUE) \in Connections  BY RotationAssumption
<1>14. NoTemplate \in Templates /\ NoTemplate.seed = NoSeed  BY DEF NoTemplate, Templates
<1>15. deriving \in [conn : Connections, template : Templates] /\ deriving.template = NoTemplate
  BY <1>13, <1>14 DEF Init, NotDeriving
<1>16. daemon \in [height : Heights, next : Hashes \cup {NoSeed}, top : Heights, moves : 0..MaxMoves]
  BY SMTT(30), RotationAssumption DEF Init
<1>17. failures \in 0..MaxFailures  BY SMTT(30), RotationAssumption DEF Init
<1>18. ThreadsTyped  BY <1>7, <1>14, <1>15, <1>16, <1>17, IdleFacts DEF ThreadsTyped, Init, RefreshTypes, ShareRecords
<1>19. TemplateIsHeld  BY <1>15 DEF TemplateIsHeld, Init
<1>20. RefreshAgrees  BY IdleFacts DEF RefreshAgrees, Init
<1>. QED  BY <1>6, <1>12, <1>18, <1>19, <1>20 DEF RotationInv

LEMMA NextSound ==
    ASSUME RotationInv, [Next]_vars
    PROVE  RotationInv'
<1>1. CASE Next
  <2>1. CASE \E h \in Heights, n \in Hashes \cup {NoSeed} : DaemonMoves(h, n)  BY <2>1, DaemonMovesOn
  <2>2. CASE \E s \in SeedIds : NativePrepared(s)  BY <2>2, NativeSteps
  <2>3. CASE \E s \in SeedIds : NativePrepareFails(s)  BY <2>3, NativeSteps
  <2>4. CASE \E s \in SeedIds : NativeReleased(s)  BY <2>4, NativeSteps
  <2>5. CASE Rotate
    BY <2>5, FetchStep, SnapshotStep, HoldStep, ReclaimStep, AwaitStep, PrepareStep, ActivateStep,
       PrefetchStep, PublishStep, AllowStep, RetireStep DEF Rotate
  <2>6. CASE \E c \in Connections : BeginJob(c)  BY <2>6, BeginStep
  <2>7. CASE FinishJob  BY <2>7, FinishStep
  <2>8. CASE \E c \in Connections : Close(c)  BY <2>8, CloseStep
  <2>9. CASE \E x \in Shares : \E j \in jobs : Admit(x, j)  BY <2>9, AdmitStep
  <2>10. CASE \E x \in Shares : SubmitVerify(x)  BY <2>10, SubmitStep
  <2>11. CASE \E x \in Shares : Completes(x)  BY <2>11, CompletesStep
  <2>12. CASE \E x \in Shares : EndLease(x)  BY <2>12, EndLeaseStep
  <2>. QED  BY <1>1, <2>1, <2>2, <2>3, <2>4, <2>5, <2>6, <2>7, <2>8, <2>9, <2>10, <2>11, <2>12 DEF Next
<1>2. CASE UNCHANGED vars
  <2>1. VerifierIsSound(verifier) /\ ThreadsTyped  BY DEF RotationInv
  <2>2. Keeps(verifier, verifier') /\ CountsStay(verifier, verifier') /\ VerifierIsSound(verifier')
    BY <1>2, <2>1, NothingKept DEF vars
  <2>3. ThreadsTyped'  BY <1>2, <2>1 DEF vars, ThreadsTyped
  <2>. QED  BY <1>2, <2>2, <2>3, QuietStep DEF vars
<1>. QED  BY <1>1, <1>2

\* The bounds of the counters: a connection has one job of a height and a seed.
LEMMA CountersBounded ==
    ASSUME RotationInv, NEW s \in SeedIds
    PROVE  /\ verifier.seeds[s].references \in 0..(Cardinality(Connections) * MaxHeight + Cardinality(Shares))
           /\ verifier.seeds[s].tracked \in 0..MaxOutstanding
<1>1. CountsAgree /\ ThreadsTyped  BY DEF RotationInv
<1>2. /\ verifier.seeds[s].references = Cardinality(JobsOn(s)) + Cardinality(LeasesOn(s))
      /\ verifier.seeds[s].tracked = Cardinality(VerificationsOn(s))
      /\ Cardinality(Outstanding) <= MaxOutstanding
  BY <1>1 DEF CountsAgree
<1>3. /\ Cardinality(JobsOn(s)) \in Nat /\ Cardinality(LeasesOn(s)) \in Nat
      /\ Cardinality(VerificationsOn(s)) \in Nat /\ Cardinality(Outstanding) \in Nat /\ IsFiniteSet(Outstanding)
  BY <1>1, JobsFinite, SharesFinite
<1>4. Cardinality(LeasesOn(s)) <= Cardinality(Shares) /\ Cardinality(Shares) \in Nat
  <2>1. LeasesOn(s) \subseteq Shares  BY DEF LeasesOn
  <2>. QED  BY <2>1, RotationAssumption, FS_Subset, FS_CardinalityType
<1>5. Cardinality(VerificationsOn(s)) <= Cardinality(Outstanding)
  <2>1. VerificationsOn(s) \subseteq Outstanding  BY DEF VerificationsOn, Outstanding
  <2>. QED  BY <1>3, <2>1, FS_Subset
<1>6. Cardinality(JobsOn(s)) <= Cardinality(Connections) * MaxHeight
      /\ Cardinality(Connections) * MaxHeight \in Nat
  <2>. DEFINE f == [j \in JobsOn(s) |-> <<j.conn, j.height>>]
  <2>1. \A j \in JobsOn(s) : j \in [conn : Connections, height : Heights, seed : SeedIds] /\ j.seed = s
    BY <1>1 DEF JobsOn, ThreadsTyped
  <2>2. f \in [JobsOn(s) -> Connections \X Heights]  BY <2>1
  <2>3. ASSUME NEW i \in JobsOn(s), NEW j \in JobsOn(s), f[i] = f[j]
        PROVE  i = j
    <3>1. i.conn = j.conn /\ i.height = j.height /\ i.seed = j.seed  BY <2>1, <2>3
    <3>. QED  BY SMTT(30), <2>1, <3>1
  <2>4. f \in Injection(JobsOn(s), Connections \X Heights)  BY <2>2, <2>3 DEF Injection, IsInjective
  <2>5. IsFiniteSet(Heights) /\ Cardinality(Heights) = MaxHeight
    <3>1. IsFiniteSet(1..MaxHeight) /\ Cardinality(1..MaxHeight) = IF 1 > MaxHeight THEN 0 ELSE MaxHeight - 1 + 1
      BY SMTT(30), RotationAssumption, FS_Interval
    <3>. QED  BY SMTT(30), <3>1, RotationAssumption DEF Heights
  <2>6. /\ IsFiniteSet(Connections \X Heights)
        /\ Cardinality(Connections \X Heights) = Cardinality(Connections) * MaxHeight
    BY <2>5, RotationAssumption, FS_Product
  <2>7. Cardinality(JobsOn(s)) <= Cardinality(Connections \X Heights)  BY <2>4, <2>6, FS_Injection
  <2>8. Cardinality(Connections \X Heights) \in Nat  BY <2>6, FS_CardinalityType
  <2>. QED  BY <2>6, <2>7, <2>8
<1>. DEFINE a == Cardinality(JobsOn(s))
            b == Cardinality(LeasesOn(s))
            p == Cardinality(Connections) * MaxHeight
            q == Cardinality(Shares)
<1>7. a \in Nat /\ b \in Nat /\ p \in Nat /\ q \in Nat /\ a <= p /\ b <= q  BY <1>3, <1>4, <1>6
<1>8. verifier.seeds[s].references = a + b  BY <1>2
<1>. HIDE DEF a, b, p, q
<1>9. verifier.seeds[s].references \in 0..(p + q)  BY SMTT(30), <1>7, <1>8
<1>10. verifier.seeds[s].tracked \in 0..MaxOutstanding  BY SMTT(30), <1>2, <1>3, <1>5, RotationAssumption
<1>. QED  BY <1>9, <1>10 DEF p, q

LEMMA InvImpliesUsed ==
    ASSUME RotationInv
    PROVE  UsedSeedStaysReady
<1>1. VerifierIsSound(verifier) /\ ThreadsTyped /\ TemplateIsHeld /\ CountsAgree  BY DEF RotationInv
<1>2. verifier \in Verifiers  BY <1>1 DEF VerifierIsSound
<1>. DEFINE m == Cardinality(Connections) * MaxHeight + Cardinality(Shares)
<1>3. VerifierTypeOK(m, MaxOutstanding)
  <2>1. ASSUME NEW s \in SeedIds
        PROVE  verifier.seeds[s] \in [hash : Hashes \cup {NoSeed},
                        native : {"absent", "preparing", "ready", "failed", "releasing"},
                        known : BOOLEAN, release_requested : BOOLEAN, release_started : BOOLEAN,
                        references : 0..m, tracked : 0..MaxOutstanding]
    <3>1. verifier.seeds[s].references \in 0..m /\ verifier.seeds[s].tracked \in 0..MaxOutstanding
      BY CountersBounded
    <3>2. verifier.seeds[s] \in Records  BY <1>1, RecordOf
    <3>. HIDE DEF m
    <3>. QED  BY <3>1, <3>2 DEF Records, NativeStates
  <2>2. verifier.current \in SeedIds \cup {NoSeed} /\ verifier.seeds \in [SeedIds -> Records]
    BY <1>2 DEF Verifiers
  <2>. HIDE DEF m
  <2>. QED  BY <2>1, <2>2 DEF VerifierTypeOK
<1>4. ASSUME NEW h \in Hashes PROVE Cardinality(ResidentSeeds(verifier, h)) <= 1
  <2>1. CASE ResidentSeeds(verifier, h) = {}  BY SMTT(30), <2>1, FS_EmptySet
  <2>2. CASE ResidentSeeds(verifier, h) # {}
    <3>1. PICK s : s \in ResidentSeeds(verifier, h)  BY <2>2
    <3>2. \A t \in ResidentSeeds(verifier, h) : t = s
      BY <1>1, <3>1 DEF ResidentSeeds, Known, VerifierIsSound
    <3>3. ResidentSeeds(verifier, h) = {s}  BY <3>1, <3>2
    <3>4. Cardinality({s}) = 1  BY FS_Singleton
    <3>. QED  BY SMTT(30), <3>3, <3>4
  <2>. QED  BY <2>1, <2>2
<1>5. Cardinality({s \in SeedIds : verifier.seeds[s].native # "absent"}) <= MaxSeeds
  BY <1>1 DEF VerifierIsSound, InLibrary
<1>6. RotationTypeOK  BY <1>1, <1>3, <1>4, <1>5 DEF RotationTypeOK, ThreadsTyped
<1>7. ASSUME NEW s \in SeedIds, InUse(s) PROVE IsReady(verifier, s) /\ MayRetain(verifier, s)
  BY <1>7, UsedIsReady DEF IsReady, MayRetain
<1>8. ASSUME NEW s, Held(verifier, s) PROVE MayRetain(verifier, s) /\ IsReady(verifier, s)
  <2>1. s \in SeedIds  BY <1>8 DEF Held, Wanted
  <2>2. RecordIsSound(verifier.seeds[s]) /\ s # NoSeed  BY <1>1, <2>1, RecordOf, SeedsAssumption DEF NoSeed
  <2>. QED  BY <1>8, <2>2 DEF Held, Wanted, MayRetain, Known, RecordIsSound, IsReady
<1>9. /\ deriving.template # NoTemplate => MayRetain(verifier, deriving.template.seed)
      /\ allowed => MayRetain(verifier, template.seed) /\ IsReady(verifier, template.seed)
  BY <1>1, <1>8 DEF TemplateIsHeld
<1>. QED  BY <1>1, <1>6, <1>7, <1>9 DEF UsedSeedStaysReady, CountsAgree

\* For every number of seeds, heights, connections, shares, verifications and tip
\* changes: a seed that a job, an admitted share or an outstanding verification uses is
\* ready and its release has not begun, and neither has that of the seed a job is being
\* derived from or of the installed template while jobs may be issued, although the
\* template thread requests releases between the steps of the others; the counters the
\* release decision rests on are exact (maybe_begin_seed_release_locked,
\* refresh_template).
THEOREM UsedSeedStaysReadyAlways == Spec => []UsedSeedStaysReady
<1>1. Init => RotationInv  BY InitSound
<1>2. RotationInv /\ [Next]_vars => RotationInv'  BY NextSound
<1>3. RotationInv => UsedSeedStaysReady  BY InvImpliesUsed
<1>. QED  BY <1>1, <1>2, <1>3, PTL DEF Spec

===============================================================================
