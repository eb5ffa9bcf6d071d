------------------------------- MODULE Entropy -------------------------------
(***************************************************************************)
(* EntropyManager in src/src/crypto/entropy.cpp and entropy_loop in        *)
(* src/src/runtime/runtime.cpp: the generator behind job ids and template  *)
(* entropy, and when it may still be used.                                 *)
(*                                                                         *)
(* Key and value are left out; sample is history: the operating system's   *)
(* entropy they come from.  Times are in seconds, relative: age since the  *)
(* last reseed, retry until the next timed one may be tried.  Each call    *)
(* holds mutex_.                                                           *)
(***************************************************************************)
EXTENDS Integers

CONSTANTS
    ReseedInterval,   \* config_.reseed_interval_seconds
    MaxReseedAge,     \* config_.max_reseed_age_seconds; ages above it are alike
    MaxGenerateCalls, \* config_.max_generate_calls
    MaxDelay          \* the 60 seconds at which timed_retry_delay_seconds_ stays

ASSUME EntropyAssumption ==
    /\ {ReseedInterval, MaxReseedAge, MaxGenerateCalls, MaxDelay} \subseteq Nat \ {0}
    /\ MaxReseedAge >= ReseedInterval

VARIABLES
    drbg,     \* age, retry, delay, generate_calls_, pid() = creator_pid_, degraded_
    os,       \* whether the operating system gives entropy
    sample    \* its last sample in use: age, outputs made of it, the age at the last one,
              \* and whether this process took it

entropyVars == <<drbg, os, sample>>

FreshGenerator == [age |-> 0, retry |-> ReseedInterval, delay |-> 1, calls |-> 0,
                   mine |-> TRUE, degraded |-> FALSE]
FreshSample == [age |-> 0, outputs |-> 0, used_at |-> -1, mine |-> TRUE]

EntropyInit == drbg = FreshGenerator /\ os = TRUE /\ sample = FreshSample

\* Mutant: the generator is taken for reseeded by a failed attempt.
BackedOffRenewed(d) == [d EXCEPT !.age = 0, !.degraded = TRUE]

\* try_timed_reseed_locked that fails.
BackedOff(d) ==
    [d EXCEPT !.degraded = TRUE, !.retry = d.delay,
              !.delay = IF 2 * @ < MaxDelay THEN 2 * @ ELSE MaxDelay]

\* Mutant: nothing is tried any more once the maximum age is reached.
TimedReseedIsDueWhileUsable(d) == d.age >= ReseedInterval /\ d.retry = 0 /\ d.age < MaxReseedAge

TimedReseedIsDue(d) == d.age >= ReseedInterval /\ d.retry = 0

AfterTimedReseed(d) ==
    IF TimedReseedIsDue(d) THEN IF os THEN FreshGenerator ELSE BackedOff(d) ELSE d

\* Mutant: one output more than the limit.
MustReseedLate == ~drbg.mine \/ drbg.calls > MaxGenerateCalls

\* A fork or the output limit forces a reseed.
MustReseed == ~drbg.mine \/ drbg.calls >= MaxGenerateCalls

\* generate: it throws without entropy when it must reseed, and beyond the maximum age.
Generate ==
    /\ MustReseed => os
    /\ LET d == AfterTimedReseed(IF MustReseed THEN FreshGenerator ELSE drbg)
           usable == d.age < MaxReseedAge
           read == os /\ (MustReseed \/ TimedReseedIsDue(drbg))
           s == IF read THEN FreshSample ELSE sample
       IN /\ drbg' = IF usable THEN [d EXCEPT !.calls = @ + 1] ELSE d
          /\ sample' = IF usable THEN [s EXCEPT !.outputs = @ + 1, !.used_at = s.age] ELSE s
    /\ UNCHANGED os

\* maintain, once a second: only a fork or time makes it reseed.
Maintain ==
    /\ IF drbg.mine THEN drbg' = AfterTimedReseed(drbg)
                    ELSE drbg' = IF os THEN FreshGenerator ELSE drbg
    /\ sample' = IF os /\ (~drbg.mine \/ TimedReseedIsDue(drbg)) THEN FreshSample ELSE sample
    /\ UNCHANGED os

\* The process goes on as the child of a fork: its memory is the parent's.
Fork ==
    /\ drbg' = [drbg EXCEPT !.mine = FALSE]
    /\ sample' = [sample EXCEPT !.mine = FALSE, !.outputs = 0, !.used_at = -1]
    /\ UNCHANGED os

SecondPasses ==
    /\ drbg' = [drbg EXCEPT !.age = IF @ < MaxReseedAge THEN @ + 1 ELSE @,
                            !.retry = IF @ > 0 THEN @ - 1 ELSE 0]
    /\ sample' = [sample EXCEPT !.age = IF @ < MaxReseedAge THEN @ + 1 ELSE @]
    /\ UNCHANGED os

SourceChanges == os' = ~os /\ UNCHANGED <<drbg, sample>>

EntropyNext == Generate \/ Maintain \/ Fork \/ SecondPasses \/ SourceChanges

\* entropy_loop goes on, and so does time.
EntropyFairness == WF_entropyVars(Maintain) /\ WF_entropyVars(SecondPasses)

EntropySpec == EntropyInit /\ [][EntropyNext]_entropyVars /\ EntropyFairness
-----------------------------------------------------------------------------
\* Output is only ever made of a sample that is younger than the maximum age, was taken
\* by this process, and has made fewer outputs than the limit, through any order of
\* failed and forced reseeds, forks and backed-off retries.
OutputsAreFresh ==
    /\ sample.used_at < MaxReseedAge
    /\ sample.outputs <= MaxGenerateCalls
    /\ sample.outputs > 0 => sample.mine

IssuanceAllowed == drbg.mine /\ drbg.age < MaxReseedAge

\* "Recovery from a successful reseed automatically permits new jobs again": when the
\* source works again for good, issuance comes back, however long it was out.
IssuanceRecovers == <>[]os => []<>IssuanceAllowed
=============================================================================
