---------------------------- MODULE VerifierSeeds ----------------------------
(***************************************************************************)
(* The seed records of src/src/verifier/verifier.cpp, the adapter over the *)
(* MSPV library.  A seed is prepared, becomes ready, may be designated     *)
(* current, and is released when its release was requested and it is not   *)
(* current, no job or lease retains it and no verification is outstanding. *)
(* Every operator is one method under the adapter's mutex: it maps the     *)
(* verifier before the call to the verifier after it.  "native" is the     *)
(* library's own state of the seed (external).                             *)
(***************************************************************************)
EXTENDS Integers, FiniteSets, FiniteSetsExt

CONSTANTS
    SeedIds,    \* seed ids; an id nobody mentions stands for a fresh one
    Hashes,     \* seed hashes
    MaxSeeds    \* verifier.max_seeds: seeds the library keeps

ASSUME SeedsAssumption ==
    /\ SeedIds \subseteq Nat \ {0} /\ Hashes \subseteq Nat \ {0}
    /\ MaxSeeds \in Nat /\ MaxSeeds >= 2

VARIABLE verifier

NoSeed == 0

NoRecord == [hash |-> NoSeed, native |-> "absent", known |-> FALSE, release_requested |-> FALSE,
             release_started |-> FALSE, references |-> 0, tracked |-> 0]

VerifierTypeOK(MaxReferences, MaxTracked) ==
    /\ verifier.current \in SeedIds \cup {NoSeed}
    /\ verifier.seeds \in
           [SeedIds -> [hash : Hashes \cup {NoSeed},
                        native : {"absent", "preparing", "ready", "failed", "releasing"},
                        known : BOOLEAN, release_requested : BOOLEAN, release_started : BOOLEAN,
                        references : 0..MaxReferences, tracked : 0..MaxTracked]]

VerifierInit == verifier = [current |-> NoSeed, seeds |-> [s \in SeedIds |-> NoRecord]]

\* find_seed_locked
Known(v, s) == s # NoSeed /\ v.seeds[s].known

\* find_resident_seed_by_hash_locked; there is at most one.
ResidentSeeds(v, hash) == {s \in SeedIds : Known(v, s) /\ v.seeds[s].hash = hash}

IsReady(v, s) == v.seeds[s].native = "ready"

\* The record of a seed whose release has finished is dropped
\* (seed_snapshot_locked, wait_seed_released).
Observe(v, s) ==
    IF v.seeds[s].native = "absent" /\ v.seeds[s].release_started
    THEN [v EXCEPT !.seeds[s] = NoRecord] ELSE v

\* seed_snapshots: every record is looked up.
ObserveAll(v) == [v EXCEPT !.seeds = [s \in SeedIds |-> Observe(v, s).seeds[s]]]

\* Mutant: a release does not wait for the verifications.
MayReleaseUntracked(v, s) ==
    /\ v.seeds[s].release_requested /\ ~v.seeds[s].release_started
    /\ s # v.current
    /\ v.seeds[s].references = 0

\* The guards of maybe_begin_seed_release_locked.
MayRelease(v, s) ==
    /\ v.seeds[s].release_requested /\ ~v.seeds[s].release_started
    /\ s # v.current
    /\ v.seeds[s].references = 0 /\ v.seeds[s].tracked = 0

MaybeBeginRelease(v, s) ==
    IF MayRelease(v, s)
    THEN [v EXCEPT !.seeds[s].release_started = TRUE, !.seeds[s].native = "releasing"]
    ELSE v

PrepareStatus(v, hash) ==
    IF ResidentSeeds(v, hash) # {}
    THEN IF \E s \in ResidentSeeds(v, hash) : v.seeds[s].release_started THEN "releasing" ELSE "ok"
    ELSE IF Cardinality({s \in SeedIds : v.seeds[s].native # "absent"}) >= MaxSeeds
    THEN "capacity"
    ELSE "ok"

PreparedSeed(v, hash, fresh) ==
    IF ResidentSeeds(v, hash) # {} THEN CHOOSE s \in ResidentSeeds(v, hash) : TRUE ELSE fresh

\* Mutant: a requested release is not cancelled.
PrepareSeedNotCancelled(v, hash, fresh) ==
    LET s == PreparedSeed(v, hash, fresh)
    IN CASE PrepareStatus(v, hash) = "capacity" -> v
         [] PrepareStatus(v, hash) = "releasing" -> Observe(v, s)
         [] OTHER -> IF Known(v, s) THEN v
                     ELSE [v EXCEPT !.seeds[s] = [NoRecord EXCEPT !.hash = hash, !.known = TRUE,
                                                                  !.native = "preparing"]]

\* prepare_seed: a resident seed is kept and a release that has not begun is
\* cancelled; one that has begun is irreversible.
PrepareSeed(v, hash, fresh) ==
    LET s == PreparedSeed(v, hash, fresh)
    IN CASE PrepareStatus(v, hash) = "capacity" -> v
         [] PrepareStatus(v, hash) = "releasing" -> Observe(v, s)
         [] OTHER -> IF Known(v, s) THEN [v EXCEPT !.seeds[s].release_requested = FALSE]
                     ELSE [v EXCEPT !.seeds[s] = [NoRecord EXCEPT !.hash = hash, !.known = TRUE,
                                                                  !.native = "preparing"]]

MayActivate(v, s) == Known(v, s) /\ ~v.seeds[s].release_requested /\ IsReady(v, s)

\* activate_seed: the former current seed may be released now.
ActivateSeed(v, s) ==
    LET next == [v EXCEPT !.current = s]
    IN IF Known(v, v.current) THEN MaybeBeginRelease(next, v.current) ELSE next

MayRetain(v, s) == Known(v, s) /\ ~v.seeds[s].release_started

RetainSeed(v, s) == [v EXCEPT !.seeds[s].references = @ + 1]

\* drop_seed_reference, n times; refused when the seed is unknown or not retained.
\* The release can only begin with the last reference.
DropSeedReferences(v, s, n) ==
    IF Known(v, s) /\ v.seeds[s].references > 0 /\ n > 0
    THEN MaybeBeginRelease([v EXCEPT !.seeds[s].references = IF @ > n THEN @ - n ELSE 0], s)
    ELSE v

DropSeedReference(v, s) == DropSeedReferences(v, s, 1)

RequestSeedRelease(v, s) ==
    IF Known(v, s) THEN MaybeBeginRelease([v EXCEPT !.seeds[s].release_requested = TRUE], s)
    ELSE v

\* submit_locked, for a table with room.
MaySubmit(v, s) == MayRetain(v, s) /\ IsReady(v, s)

TrackSubmission(v, s) == [v EXCEPT !.seeds[s].tracked = @ + 1]

\* Mutant: the completion is not counted.
CorrelateCompletionUncounted(v, s) == IF Known(v, s) THEN MaybeBeginRelease(v, s) ELSE v

\* correlate_completion_locked
CorrelateCompletion(v, s) ==
    IF Known(v, s) THEN MaybeBeginRelease([v EXCEPT !.seeds[s].tracked = @ - 1], s) ELSE v
=============================================================================
