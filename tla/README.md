# Verification of monero-solo-stratum

TLA+ specifications of the solo Monero Stratum server in `src/`, checked with
TLC on small instances and, for the parts marked below, proved with TLAPS for
every value of the constants.

## 1. The system

A single process serves XMRig miners over Stratum, hands each connection a
private variant of monerod's block template, judges the shares that come back,
and submits the blocks among them. Everything that must survive a crash is in
one SQLite database (WAL, `synchronous=FULL`); everything else is rebuilt.

| Part | Source | State | Operations | What is hard |
|---|---|---|---|---|
| Candidate journal | `src/src/db/database.cpp`, `schema.sql` | candidates, attempts, lookups, rounds, block notifications | journal, start/finish attempt, start/finish lookup, exhaust, claim/finish notification, reopen | two acceptance paths race; crash between intent and answer |
| Verdicts and evidence | `database.cpp` | candidate_verdicts, abuse_events | record, resolve on acceptance, resolve on rejection | verdict before, during and after the outcome |
| Candidate workers, boundary | `src/src/runtime/runtime.cpp` | task queue, boundary, fence, published template | take, submit, look up, requeue, give up, recover | owner and quick lookups, lost answers, stale templates |
| Share accounting | `database.cpp` | staged shares, buffered totals, round effort, finalization | insert, persist, accept, finalize, flush, recover | buffered work against a round that closes |
| Share processing | `runtime.cpp`, `share_policy.hpp` | in-flight shares, job leases | admit, process, retire | the same work credited twice; capacity and failure paths |
| Duplicate registry | `src/src/stratum/duplicate_registry.cpp` | entries, per-source counts, height buckets | reserve, release, retain, retire, release height, restore | a key collected while a share is in flight |
| Verifier mailbox, adapter | `src/src/verifier/*.cpp` | waiter slots, submission table, seeds | register, publish, wait, cancel, close; prepare, retain, release seed; submit, drain, shutdown | late completion, close while waiting, seed freed while used |
| Stratum server | `src/src/stratum/stratum.cpp` | connections, job queue, submit lanes, results | accept, read, login, submit, refresh, close, stop | result for a closed connection, drain on stop |
| Defense | `src/src/stratum/defense.cpp` | peers, strikes, token buckets, bans | admit, record, ban, expire | bounded tables, in-flight candidate count |
| Writer scheduler | `database.cpp` | two FIFO queues, reserve | lock, lock_priority, unlock | lost wake-ups, the reserve, off-by-one at the limit |
| Daemon client | `src/src/daemon/daemon.cpp` | in-flight and waiting requests | acquire, release, stop; classify | priority, refusal, stop while waiting |
| ZMQ hint reader | `src/src/daemon/zmq.cpp` | subscription | start, run, stop | hints may be lost |
| Block hook | `src/src/notify/blocknotify.cpp` | child process, delivery row | claim, fork, wait, kill, retry | timeout against exit, restart |
| Event stream | `src/src/events/event_stream.cpp`, `runtime.cpp` | clients, published id | publish, accept, service, close | contiguity, slow client |
| Entropy | `src/src/crypto/entropy.cpp` | generator state, reseed deadline | generate, reseed, maintain | output of an old or inherited seed; recovery after a long outage |
| Read-only API | `src/src/api/api.cpp` | | queries, pages | cursors against rows that are being added |
| HTTP server | `src/src/api/http.cpp` | queue, counts per peer, token buckets | accept, serve, admit, stop | counts changed apart, notifications outside the mutex |
| Targets and encodings | `src/src/monero/monero.cpp` | | compare, parse, encode, hash a tree | carries, widths, sizes at powers of two |
| Configuration, logging, hashing | `config.cpp`, `logger.cpp`, `util.cpp` | | | pure functions and I/O |
| Start and stop | `runtime.cpp`, `main.cpp` | threads, readiness | start, stop | order of stopping producers and consumers |

The parts meet in six places. A share goes from the Stratum event loop through a
submit lane to a worker, which asks the duplicate registry and the verifier and
writes the accounting (`SubmitLanes`, `ShareAdmission`, `RoundAccounting`). A share
that is a block is journaled and handed to the candidate workers, whose outcome
closes the round (`CandidateStore`, `CandidateRuntime`) and owes the hook a call
(`HookSupervisor`). The template thread publishes work only when no unresolved block
forbids it, and rotates verifier seeds under the jobs that use them
(`CandidateRuntime`, `SeedRotation`). Evidence from shares and candidates feeds the
defense engine, whose bans outlive the process (`CandidateVerdicts`,
`DefenseEngine`). Every method of the database passes the writer queue; events
committed there reach clients by the stream and by pages (`WriterScheduler`,
`EventFeed`). At the end `stop_locked` has to part all of them again (`Shutdown`).

## 2. Modules and how they correspond to the code

`PROJECT.json` maps each definition to its lines. Actions are whole critical
sections or committing transactions; a thread that waits between two of them is two
actions, so that anything may happen in between. Where a condition variable is
notified after its mutex is free, or a predicate is tested before the thread sleeps,
the two halves are separate steps.

| Module | Models | State and actions |
|---|---|---|
| `CandidateVerdicts` | `candidate_verdicts`, `abuse_events` | The verdict part of each transaction: record, suppress on acceptance, resolve on rejection. |
| `CandidateStore` | the candidate tables | One action per `Database` method that commits; `AcceptInTransaction` is shared by the two acceptance paths; `ReopenDatabase` is a crash at any moment and the recovery of `start_session`. |
| `CandidateLedger` | abstract specification | A block is opened, accepted (closing the next round) or rejected once, and announced once per owed delivery. |
| `CandidateRuntime` | candidate workers and publication | EXTENDS the store. `tasks` holds the owner and the quick lookups of every candidate; `boundary`, `fence`, `current_height`, `issuance` are the publication state; monerod (`in_chain`, `wire`) is external: it accepts, refuses, answers late or not at all. |
| `RoundAccounting` | shares, buffers, rounds | One record `db`; judged shares go from staged to buffered or written, `Flush` applies the buffers, `TryFinalize` freezes a round. |
| `DuplicateRegistry`, `ShareAdmission` | replay registry; life of a submission | The registry's methods are operators on its value; `ShareAdmission` runs the event loop, workers, verifier and candidate tasks over it, in verified and trusted mode. |
| `VerifierSeeds`, `SeedRotation` | verifier adapter; template thread | Adapter methods as operators on its value; the rotation is the sequence of steps of `parse_template` and `refresh_template`; the native library and monerod's epochs are external. |
| `SubmitLanes` | the two submit queues | Event loop, both kinds of workers with the condition variable (look, begin to wait, be woken), and `stop()` line by line. |
| `DefenseEngine` | `DefenseEngine` and the table `bans` | One action per method under the mutex; the callback that writes the row is a later action; `Restart` loads the rows again. |
| `WriterScheduler` | the lock of every `Database` method | Per caller: arriving, crowded (waits for room), queued, asleep, running, released; two FIFO queues and `running_`. The notification of `unlock` is a step of its own. |
| `EventFeed` | events from transaction to reader | EXTENDS `WriterScheduler`: writers insert, commit or roll back; the forwarding thread loads batches and publishes; clients of the stream follow it and page through the history; `stop_locked`'s last part. |
| `CompletionMailbox` | `completion_mailbox.cpp` | Methods as operators on its value, the sleepers of its condition variable included. |
| `DaemonScheduler` | admission of RPCs | Per thread: out, waiting, asleep, wire, released, refused; the three counters and `stopping`. |
| `Shutdown` | `stop_locked` and the threads it ends | EXTENDS the mailbox and the RPC scheduler: submit workers, verifier thread, candidate workers, template and accounting thread, and each statement of `stop_locked` that waits, joins or decides `clean_shutdown`. |
| `HttpServer` | `HttpServer` without `admit` | Accept thread, queue, workers, `active_` and `peer_active_`, `stop()`. |
| `RateLimiter` | `HttpServer::admit` | One action per call, and the clock. |
| `HookSupervisor` | `blocknotify.cpp` and its rows | Claim, launch, watch, grace period, sweep, finish, restart; the hook's processes are external. |
| `Entropy` | `EntropyManager`, `entropy_loop` | `Generate`, `Maintain`, forks, seconds, and a source that fails and works. |
| `ProofOfWork` | arithmetic of `monero.cpp` | Numbers as limbs and bytes with their widths as constants; one step computes one result, which the properties compare with the mathematical definition. |
| `CandidateStoreInv`, `CandidateRuntimeInv`, `ShareAdmissionInv`, `SeedRotationInv`, `RequestInv`, `ServerInv`, `ServicesInv` | inductive invariants | Of the modules each extends, and the shapes of steps the proofs sort by. No theorems: the provers are faster when all definitions come before the facts. |
| `CandidateProofs` | theorems | About `CandidateStore`: rounds and finality, the refinement and the heights of rounds, verdicts; about `CandidateRuntime`: its use of the store, its rejections, what it publishes. |
| `CandidateTrackingProofs` | theorem | About `CandidateRuntime`: owners, lookups and types. |
| `ShareWorkerProofs`, `ShareAdmissionProofs` | lemmas, theorems | About `ShareAdmission`: the registry and the steps of workers; those of the event loop, and the theorems. |
| `SeedRotationProofs` | theorem | About `VerifierSeeds` and `SeedRotation`. |
| `RequestProofs` | theorems | About `SubmitLanes` and `RateLimiter`. |
| `ServerProofs` | theorems | About `DaemonScheduler`, `CompletionMailbox` and `Shutdown`, and about `HttpServer`. |
| `ServicesProofs` | theorems | About `WriterScheduler`, `EventFeed`, `HookSupervisor` and `Entropy`, and about the bans of `DefenseEngine`. |

Abstractions that a reader should know:

* Blocks, shares, hashes, addresses and seeds are model values or small numbers. Two
  jobs of one connection with the same height and seed are one job.
* `VerifyCompletes` joins the worker's reservation of the computed hash, the
  journaling and the verdict; the lease keeps the replay bucket alive over them.
  `WaitAndActivate` joins two verifier calls, between which only the template thread
  itself could request a release.
* Submissions and requests are numbered in the order they arrive, and one that has
  ended keeps only what later steps or properties read.
* Spurious wakeups are left out: that can only make a liveness property harder to
  satisfy, and a predicate is tested again after every wake-up anyway.
* One clock stands for the wall clock and the steady clock of `DefenseEngine`; the
  token buckets there answer as they like; attempts per second are counted up to the
  threshold. `seen` and `announced` there, and likewise `fair` of `RateLimiter`, `sample`
  of `Entropy`, `succeeded` of `HookSupervisor` and the field `missed` of `stop_locked` in
  `Shutdown`, are history for the properties only. `announced` is the end of the ban that
  the process has made or restored for a peer; `missed` are the candidate workers that were
  about to wait when `stop_locked` notified them.
* In `HookSupervisor` the processes that a hook starts stay in its process group, which the
  supervisor kills (`blocknotify.cpp:401`). One that leaves it by `setsid` is out of the
  supervisor's reach, although the comment at `blocknotify.cpp:398` speaks of daemonized
  descendants. A crash of the server forgets the hook that runs; in reality its group lives
  on beside the hooks of the next process, so what `HooksAreSupervised` says of processes
  is said of those started since the last crash.
* `RateLimiter` counts tokens exactly, in units that make a tick's refill a whole
  number; the code's doubles round.
* In `Shutdown` a candidate task is one RPC and what is decided about a share is one
  step; `StratumServer::stop` is the condition that all admitted shares are handled,
  which `SubmitLanes` is about.
* `ProofOfWork` uses limbs of base 4 and 4-valued varint groups: the code's loops do
  not depend on the base, and all hashes of four limbs can then be enumerated. The
  accumulator of the product is a natural number: its values are below the square of the
  base, which is what the code's 64 bits hold.
* Loops over a set of jobs or rows whose order does not matter are in closed form:
  `RetireHeights` and `DropSeedReferences` take several references at once, `FirstRows`
  is the k lowest rows of the query. A seed gets an id nothing refers to any more
  (`FreshSeed`); the code's ids never repeat.
* Limits that the configuration can switch off (0) are on.
* Database errors appear where the code treats them as part of the protocol
  (`require` failures of a lookup, a failed flush or mark during shutdown); elsewhere a
  failing disk is not modelled: the code stops.

## 3. Runs

Eight runs pass and four show a disagreement. Deadlock is checked except in the runs
whose system really may stop (a bounded number of submissions, calls or clients, a
stopped server). The run `services` holds seven components that share no state, and
`shutdown` two: a behaviour is one of the component that `subject` names. A property of these runs often
joins several statements that one inductive argument needs together, its type invariant
included; its comment says which.

| Run | Question | Bounds |
|---|---|---|
| `candidate_store` | Do the tables agree on which block closed which round, are verdicts settled with their candidate and charged once, are outcomes final, is the ledger implemented? | two candidates of one height, two shares, two attempts, one lookup cycle, restarts at any time; `VerdictBound` (below) |
| `runtime_one_block` | Is an unresolved block never forgotten, resubmitted when ambiguous, or rejected while in the chain? Is a block in the chain recorded in the end, and do miners get work again? | one block, two attempts, three cycles, two workers, one crash |
| `runtime_blocks` | Is published work useful, and can a block in the chain always be recorded? | two blocks of one height and one of the next, two crashes |
| `share_admission` | Is a share credited twice; do refused shares, closed connections and slots come back? | two submissions, three jobs over two heights, registry of one key, both modes |
| `seed_rotation` | Is a used seed ever released; does the rotation arrive and reclaim? | three epochs, two seeds, one job and one share, tip moves both ways, one failure |
| `shutdown` | Does a completion reach its share, and only it? Are the RPC counters exact? Has a stop recorded as clean lost nothing? Does everybody return? Lanes: are the reserve, the counters and the ids exact, and is every admitted request answered? | two shares for one mailbox slot, one candidate worker and the template thread for one RPC slot, one task; failures of verifier and database at any time; three requests, one worker per lane, room for two |
| `defense` | Are slots, bans and evidence exact under full tables and restarts? | two addresses, one peer state, one ban entry, five seconds |
| `services` | Accounting: does each accepted share count once for its own round, and is every closed round finalized? Events: does a reader miss one, is each streamed, is the writer queue sound? HTTP: are the counts exact, is a queued client served? Rate limit: does forgetting a bucket matter? Hook: do hooks run alone, are they recorded as they ended, is every block announced? Entropy: is output fresh, does issuance recover? Arithmetic: do targets, parsing, varints and the tree hash agree with their definitions? | two shares, two rounds, a flush forced by two items; two writers, one of them urgent, and the forwarder with room for two, two rows per load, pages of one; four clients of two addresses for two workers; three peers for two buckets; two blocks, one with a hook that never succeeds, one restart; limits of 3 and 5 seconds and two outputs; texts of two digits, all hashes of four limbs, all varints of three bytes, trees of up to 17 leaves |
| `lookup_race` (violation) | Does the database stay operational when no write fails? | one block, two attempts |
| `lanes_stop` (violation) | Does `stop()` return? | one request |
| `verdict_order` (violation) | Does evidence against a miner wait for the daemon's outcome? | as `candidate_store` |
| `ban_lost` (violation) | Does a ban whose callback returned have a row that lasts as long? | as `defense` |

The bounds are the smallest at which the racing actors, the full table and the
repeated event all occur: two candidates for competing acceptances and a third for
the next height, two attempts so that an explicit refusal can follow a lost answer,
tables and queues of size one or two so that the second or third client meets the
limit, `MaxJobs = 3` so that a job can retire while a share of it is in flight and
work goes on, 17 leaves so that trees on both sides of 4, 8 and 16 occur. In
`shutdown` the second share and the RPCs do not occur together, and a request comes with
an id that is alive or with the first that is not, since the others are interchangeable; no
step under fairness is withheld by that. In `candidate_store`, once a verdict is recorded, `VerdictBound`
keeps out a second candidate that is sent, lost answers, lookups, claimed deliveries, a
share above height 1 and the last of the four verdicts: verdicts meet journaling,
refusal, acceptance and restart there, and without verdicts all the rest is explored.
In `share_admission` `JobBound` lets a third job come only after
the second has retired the first, and in `defense` `LastSecondBound` keeps candidates out
of the last second. The two candidates of `candidate_store` and the two addresses of
`defense` are symmetric: nothing in the specification or the properties tells them
apart. The proofs need no such bound. Every property was also run against a changed model (a dropped
guard, a missing reset, a wrong order) under the same configuration and fails there;
`PROJECT.json` lists these under `mutants`.

### Fairness

* `CandidateRuntime`: the template thread, the start of a stopped process and each
  step of a task are weakly fair (threads run, RPCs time out). Taking a due task is
  strongly fair because tasks are picked by due time; dispatch is, because the daemon
  client serves priority requests first; and a positive answer to a lookup of a block
  in the chain is, because a daemon that never answers gives nothing to conclude.
* `RoundAccounting`: the accounting thread flushes, and a worker judges each share it took.
* `SeedRotation`: template thread, native library, event loop for stale connections,
  completions and the end of leases. Its liveness properties are for behaviours in
  which no preparation fails: a failed current seed is not prepared again.
* `SubmitLanes`: workers, event loop and the stopping thread run; a worker that
  waits is not enabled until it is notified.
* `EventFeed`: each thread in the writer queue runs, a transaction once begun ends,
  and the forwarding thread runs. A bounded number of writers call, which is what keeps
  priority writers from starving the others.
* `HttpServer`: accept thread, workers and a `stop()` once called go on.
* `HookSupervisor`: the supervisor runs; a hook that is not broken ends, or its
  deadline passes; a retry delay ends. The last is strongly fair: the longest delay, an
  hour, is only allowed to end when nothing else is due, which happens again and again.
* `Entropy`: `entropy_loop` runs every second and time passes.
* `Shutdown`: every thread runs, the library hashes what it took, an RPC ends by its
  answer or its timeout, and the main thread stops a server whose `running_` is false.

### What the violations show

* `lookup_race`: a quick lookup whose candidate the retry has just accepted gets an
  exception from a `require` and calls `mark_database_unavailable`, which stops mining
  (`runtime.cpp:2837`).
* `lanes_stop`: `stop()` changes its flags and notifies without `submit_mutex_`, so a
  worker between its predicate and the wait sleeps through both notifications and is
  joined for ever (`stratum.cpp:417`). `http.cpp:303` and `runtime.cpp:4155` have the
  same form. `EveryoneReturns` therefore excepts a candidate worker that was about to wait
  at that moment (`missed`) and sleeps; a worker that slept already must be woken, and
  without `notify_all` the property fails.
* `verdict_order`: a verdict on a claimed candidate whose admission was deferred finds no
  candidate row and is charged at once (`database.cpp:4062`). If another share then
  journals the key, the verdict is not linked and the outcome, acceptance included, does not
  touch it; the blueprint (lines 1791-1798, 1813 and 2586) wants it pending.
  `VerdictsFollowOutcomes` says what holds nevertheless: linked verdicts follow the outcome,
  and an unlinked one is charged once, for its own share, and never again.
* `ban_lost`: a ban ends in memory by itself, but its row stays active until the next
  sweep; a peer banned again in between gets no new row (`database.cpp:3784`), and a
  restart forgets the ban. `ActiveBanIsEnforced` promises what is left: the process that
  made or restored a ban enforces it to its end, row or no row, and so does every process
  for the rows it finds.

Further differences from the blueprint were met while modelling and have no run:
a restart queues exhausted candidates again (`database.cpp:3402`, line 1944); exhaustion is
measured against the published height, which the candidate itself holds back
(`runtime.cpp:2987`, line 1941); an event committed between the forwarding thread's last
load and the request to stop is not streamed (`runtime.cpp:3506`); and
`issuance_allowed` (`entropy.cpp:248`) does not look at the output limit, at which
`generate` throws while the source fails.

## 4. Proofs

The theorems hold for every value of the constants that the named assumptions of the
modules allow: limits are positive naturals or what the constructors accept,
`NoCandidate` is no candidate, share ids are positive, heights are `1..MaxHeight`, there
are the two kinds of lookup that `reconcile_candidate` makes, and the threads,
submissions, connections and jobs that are counted form finite sets.

| Theorem | Statement |
|---|---|
| `RoundsCorrect` | `StoreSpec => []RoundsAreSound`, from the next three |
| `TypeCorrectness` | `StoreSpec => []StoreTypeOK` |
| `RoundsStayOpen` | `StoreSpec => []OneOpenRound` |
| `RoundsMatch` | `StoreSpec => []RoundsMatchAcceptances` |
| `NotificationsMatch` | `StoreSpec => []NotifiedIffAccepted` |
| `Finality` | `StoreSpec => OutcomesAreFinal` |
| `LedgerImplemented` | `StoreSpec => ImplementsLedger` |
| `RoundsEndAtTheirBlocks` | `StoreSpec => []ClosedRoundEndsAtItsBlock` |
| `EvidenceCorrect` | `StoreSpec => []VerdictsFollowOutcomes` |
| `RuntimeImplementsStore` | `Spec => StoreSpec` |
| `RuntimeKeepsRounds` | the store's theorems, for `Spec` |
| `BoundaryIsExact` | `Spec => []BoundaryIsUnresolved` |
| `RejectionsAreSafe` | `Spec => []RejectedIsNeverInChain` |
| `PublicationsAreUseful` | `Spec => []PublishedWorkIsUseful` |
| `BlocksAreRecordable` | `Spec => []BlockInChainIsRecordable` |
| `CandidatesAreTrackedAlways` | `Spec => []CandidatesAreTracked` |
| `CreditedOnceAlways` | `AdmissionSpec => []CreditedOnce` |
| `FailedShareIsRetryableAlways` | `AdmissionSpec => []FailedShareIsRetryable` |
| `NothingLeaksAlways` | `AdmissionSpec => []NothingLeaks` |
| `UsedSeedStaysReadyAlways` | `Spec => []UsedSeedStaysReady` (`SeedRotation`) |
| `SubmitsAreExactAlways` | `Spec => []SubmitsAreExact` (`SubmitLanes`) |
| `ForgettingIsFreeAlways` | `RateSpec => []ForgettingIsFree` |
| `SlotsAreExactAlways` | `ShutdownSpec => []SlotsAreExact` |
| `CompletionsReachTheirSharesAlways` | `ShutdownSpec => []CompletionsReachTheirShares` |
| `CleanStopLosesNothingAlways` | `ShutdownSpec => []CleanStopLosesNothing` |
| `HttpCountsAreExactAlways` | `HttpSpec => []HttpCountsAreExact` |
| `ReadersMissNothingAlways` | `FeedSpec => []ReadersMissNothing` |
| `WriterQueueCorrect` | `SchedulerSpec => []WriterQueueIsSound` |
| `HooksCorrect` | `HookSpec => []HooksAreSupervised` |
| `EntropyCorrect` | `EntropySpec => []OutputsAreFresh` |
| `BansAreEnforced` | `Spec => []ActiveBanIsEnforced` (`DefenseEngine`) |

### The candidate tables

The type invariant is inductive with lemmas on the record updates and on the verdict
operators. The three statements about rounds are not inductive one by one: that a
closed round has one accepted block needs the open round to be the newest and the
new winner not to be accepted already. `RoundsInv` conjoins them with the type
invariant. The argument has two halves: `StepIsQuietOrAccepts` shows that every step
either leaves rounds, acceptances and the existence of notifications alone or is the
acceptance transaction, and `QuietKeepsRounds` and `AcceptKeepsRounds` treat the two
cases, so that a new action needs only its line in the first lemma. `Finality` follows
step by step from the guards.

The refinement sorts the steps in the same way: one that the ledger does not see, one
that opens, rejects or delivers, and the acceptance, which needs `RoundsInv` to know
that the round it closes is the ledger's next. `HeightsInv` adds that a journaled block
and the origin of a share are no higher than the highest share of their round: the
transaction refuses a round with a higher one, and without the addition the round could
have a lower one. `EvidenceInv` adds `EventsAreTold`, that an event names the kind and
the share of its verdict: an event is written in three ways, and this is why two of
them never write the same one. `VerdictsAreBooked` ties each actionable verdict to its
event and to the candidate both name, or to none when the verdict came before its key was
journaled; it is what keeps such a verdict out of reach of the outcome.

### The candidate workers and publication

`RuntimeInv` says that a quick lookup never submits, that a candidate is dispatching only
while its owner waits for the daemon, that without an indeterminate attempt all attempts
but the active one are recorded refusals, that a rejected candidate has used up its
attempts and had none that was indeterminate, and that monerod has, or may still get,
only blocks that are accepted, had an indeterminate attempt or are just being answered
for. The last two exclude each other, which is `RejectedIsNeverInChain`.
With the type of `tasks`, every step of the runtime
is a step of the store or leaves it alone, so `Spec` implements `StoreSpec` and the
theorems above carry over.

`PublicationInv` relates the chain, the tables and the published height. Useful work is
not inductive alone: a template fetched before a block was accepted may be published
after it, which `FenceHolds` and the order of the templates (`ClocksInOrder`) exclude;
and while a block is unresolved no share above it enters its round (`NoLaterShare`),
which in turn rests on the published height being useful. That the round of a block in
the chain is still open needs `BlocksRise` and `ChainIsLinear`: a sibling of the same
height that closed the round first would be a second block of that height in the chain.

`TrackInv` follows owners and lookups. That a task finds its row free is not inductive:
owner and quick lookups take their cycle numbers at different times, and a restart takes
them from the database. `CyclesInv` says that the lookups a task has before it were never
started, that two tasks of a candidate never share a cycle and the owner's is the later
one, that no row is ahead of the owner or of `cycle_count`, and that a lookup under way is
that of a task; `OneLookup`, that one task of a candidate looks up at a time. Cycle
`MaxCycle` stands for all later ones, so its rows are used again; there the last two do
the work. `OwnerMode` says that the owner of an unresolved candidate looks up for good
exactly when it is ambiguous, and `QuickFollows` that a quick lookup is that of an attempt
that ended, so the slot of the next one is free. Most steps start no lookup and keep a
task in its cycle (`GoesOn`, `StartsNoLookup`); those that do have a lemma of their own
(`LookupStarts`, `OwnerAdvances`, `RestartCycles`).

### Shares and the registry

`AdmissionInv` counts: the references of a replay bucket are its live jobs, the leases
and the candidate tasks (`BucketsOK`), `pending` and `accepted_submits` are the shares
that wait for the verifier and those in flight. A count alone is not inductive, because
what a step takes back depends on what the share holds; `SubIsConsistent` and
`ConnIsConsistent` say that for each place in the life of a share and of a connection.
`KeysAreOwned` says which keys of the registry a share may own there, from which
`FailedShareIsRetryable` follows. `CreditedOnce` needs `CreditIsKept`: the key of a
credited share stays in the registry until its job is no longer live and no lease of it
is left, so whoever could still submit the hash finds it. The steps are sorted into those
of a worker (`WorkerMove`, `ShareWorkerProofs`) and those of the event loop, which close
connections and retire jobs (`ShareAdmissionProofs`).

### Seeds

`VerifierIsSound` is about the verifier alone: a release has begun only if it was
requested and nothing counts on the seed, what is counted is counted on a ready seed, and
no more seeds are in the library than fit. It is kept by each call (`Changed`, `Keeps`).
`TemplateIsHeld` and `RefreshAgrees` say what the template thread may count on between
its steps: the seed it is preparing is not being released, the installed one is ready,
and a job is derived from another seed than the installed one only until issuance is
allowed again. `CountsAgree` ties the counters to jobs, leases and verifications.

### Submit lanes and the rate limiter

`LanesInv` says where a request is: in exactly the queue of its lane, with one worker,
among the results, or at the event loop (`QueuesAgree`, `WorkersAgree`, `LoopAgrees`).
`ConnAgrees` says that the pending count and the ids of an open connection are those of
its requests; `GoneAgree`, that a worker goes only when the server stops and its queue is
empty, which then stays empty. `RateInv` says that a peer has the bucket it would have in
a table of any size or none, and that the bucket would then be full.

### Stop and HTTP

`ShutdownInv` follows a share through mailbox and library (`ShareIsFollowed`) and orders
the end of the threads: the verifier thread and the mailbox end only after a failure or
once the library is shut down (`VerifierEndsLate`), what `stop_locked` has waited for
stays done (`StopIsOrdered`), and `CleanSoFar` says at each statement what `clean` still
means there. `SlotsAreExact` is inductive with its types. `HttpCounts` adds that the
place the accept thread saw is still free when it takes it, since only it adds
connections, and that it is gone before the workers are joined and they before the queue
is cleared.

### Events

`FeedInv` rests on the writer queue: one transaction at a time holds an id that is not
committed, so the ids in the table are `1..Top` (`TableAgrees`). What is loaded and not
published follows the watermark (`ForwardAgrees`); `Follows` says frame by frame what a
client has received, has waiting and has paged, and that each goes on where the one
before ends.

### Writer queue, hook, entropy, bans

`SchedulerInv` conjoins types, `OneWriterAtATime`, `NoTurnIsLost` and `OrdinaryFits`.
`ReserveIsKept` speaks of one moment and is not inductive: it follows from
`OrdinaryFits`, that the ordinary callers admitted so far fit into what the reserve
leaves, which `has_capacity` keeps. `NoTurnIsLost` needs the first two: a turn comes free
or room appears only in `TakeTurn`, after which nobody sleeps, and in `Unlock`, after
which a notification is due; when a caller joins a queue or falls asleep, its own
predicate has just been tested. `HookInv` adds that the result in the supervisor's hands
is true of the hook it ran, through grace period and sweep. `EntropyInv` adds that the
generator's counters are those of the sample it uses, which is what its checks rely on.
`BansInv` strengthens `ActiveBanIsEnforced` from "the peer is denied now" to "to the end of
this ban", for the bans announced, the rows and the callbacks that still have to write one:
an entry or interval that ends earlier would do now and not later. A new ban replaces
neither, since only a peer that is not denied is banned; a restart announces what the rows
say and sets the interval to the latest end of the rows without a place.

### Only model-checked

All liveness properties (`ENABLED` and fairness are beyond the prover); and
`InflightIsExact`, `BanIsBacked` and `AccountingIsExact`, which sum over sets or sequences
with folds, and `TargetsAreExact` and `SerializationIsExact`, which say what loops compute
for every input: their proofs are inductions over data, whose rules the installed provers
cannot instantiate. The bounds of the runs apply to these.

## 5. Not modelled, and why

Configuration, logging, ZMQ hints and the queries of the read-only API change no state
of the system or are I/O; so are HTTP and JSON parsing, socket buffers and line framing.
Base58, the parsing of transactions and blocks, Keccak and HMAC are byte-level codecs
whose results the models take as given. A `start()` that fails half-way (it calls
`stop_locked`), allocation failures, hashrate buckets, session rows and the pruning of
old rows are left out. `PROJECT.json` lists what can go wrong in the modelled parts
under `hazards`, with the properties that would show it.

## 6. Plan

1. Done: the candidate core, admission, seeds, lanes, events, writer queue, mailbox, RPC
   admission and shutdown, HTTP, rate limit, hook, entropy and bans with their theorems;
   accounting, in-flight counts, targets and encodings model-checked.
2. Next modules: `Shutdown` composed with `EventFeed` and `HttpServer`; a `start()` that
   fails; sessions and pruning.
3. Next proofs: the safety of that composition.
