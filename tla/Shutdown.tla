------------------------------ MODULE Shutdown ------------------------------
(***************************************************************************)
(* stop_locked of src/src/runtime/runtime.cpp against the threads it joins:*)
(* submit workers that wait in the completion mailbox, the verifier        *)
(* thread, candidate workers and the template thread, which call the       *)
(* daemon, and the accounting thread.                                      *)
(*                                                                         *)
(* A share is admitted, registered, submitted to the verifier and waited   *)
(* for; what is decided about it is in ShareAdmission.  A candidate task   *)
(* is one RPC after which it is retained or finished; the rest is in       *)
(* CandidateRuntime.  StratumServer::stop, which returns when every        *)
(* admitted share is handled, is in SubmitLanes, and the forwarding of     *)
(* events in EventFeed.  The native verifier is external.                  *)
(***************************************************************************)
EXTENDS CompletionMailbox, DaemonScheduler

CONSTANTS
    CandidateThreads,   \* candidate_threads_
    TemplateThread,     \* template_thread_
    MaxTasks            \* bound on candidate tasks

ASSUME ShutdownAssumption ==
    /\ Threads = CandidateThreads \cup {TemplateThread}
    /\ Urgent = CandidateThreads /\ TemplateThread \notin CandidateThreads
    /\ MaxTasks \in Nat

VARIABLES
    shares,      \* per share: where its submit worker is and what the wait returned
    native,      \* per share: not submitted, hashing, ready, drained; whether it is shut down
    verifying,   \* the verifier thread and the completions it has drained
    tasks,       \* candidate_queue_: tasks due and not due, and how many were made
    candidate_threads,     \* per candidate worker
    templating,  \* the template thread: runs or gone
    buffered,    \* accounting not yet written
    flags,       \* running_, internal_failure_ and database_operational_
    stop_locked         \* stop_locked: where it is, clean_shutdown, the workers' stop request, and
                        \* (history) the workers on their way to sleep when it notified them

submits == <<mailbox, shares>>
verifier == <<native, verifying>>
candidates == <<tasks, candidate_threads, templating>>
session == <<buffered, flags, stop_locked>>
shutdownVars == <<submits, daemonVars, verifier, candidates, session>>

StopSteps == <<"none", "stratum", "drained", "requested", "join", "daemon", "verifier", "shut",
               "thread", "drain", "flush", "finish", "finished">>
StepNumber(step) == CHOOSE i \in DOMAIN StopSteps : StopSteps[i] = step
Reached(step) == StepNumber(stop_locked.pc) >= StepNumber(step)

ShutdownInit ==
    /\ MailboxInit
    /\ DaemonInit
    /\ shares = [t \in Tags |-> [pc |-> "none", got |-> "none"]]
    /\ native = [hashes |-> [t \in Tags |-> "none"], closed |-> FALSE]
    /\ verifying = [pc |-> "drain", batch |-> {}, closed |-> FALSE, failed |-> FALSE]
    /\ tasks = [due |-> 0, later |-> 0, made |-> 0]
    /\ candidate_threads = [w \in CandidateThreads |-> "look"]
    /\ templating = "run"
    /\ buffered = FALSE
    /\ flags = [running |-> TRUE, internal_failure |-> FALSE, database |-> TRUE]
    /\ stop_locked = [pc |-> "none", clean |-> TRUE, requested |-> FALSE, missed |-> {}]

MarkDatabaseUnavailable == [running |-> FALSE, internal_failure |-> TRUE, database |-> FALSE]
-----------------------------------------------------------------------------
\* Submit workers: process_share between admission and its decision.
\* A share enters while the Stratum server runs.
AdmitShare(t) ==
    /\ stop_locked.pc = "none" /\ shares[t].pc = "none"
    /\ shares' = [shares EXCEPT ![t].pc = "admitted"]
    /\ UNCHANGED <<mailbox, daemonVars, verifier, candidates, session>>

Finished(t, got) == [shares EXCEPT ![t] = [pc |-> "done", got |-> got]]

\* register_waiter, or "server_busy".
RegisterShare(t) ==
    /\ shares[t].pc = "admitted"
    /\ IF MayRegister(mailbox, t)
       THEN /\ mailbox' = Registered(mailbox, t)
            /\ shares' = [shares EXCEPT ![t].pc = "registered"]
       ELSE /\ shares' = Finished(t, "busy")
            /\ UNCHANGED mailbox
    /\ UNCHANGED <<daemonVars, verifier, candidates, session>>

\* submit_verify: taken, or refused by a full queue.
SubmitShare(t) ==
    /\ shares[t].pc = "registered"
    /\ native' = [native EXCEPT !.hashes[t] = "hashing"]
    /\ shares' = [shares EXCEPT ![t].pc = "submitted"]
    /\ UNCHANGED <<mailbox, daemonVars, verifying, candidates, session>>

RefuseShare(t) ==
    /\ shares[t].pc = "registered"
    /\ mailbox' = Cancelled(mailbox, t)
    /\ shares' = Finished(t, "busy")
    /\ UNCHANGED <<daemonVars, verifier, candidates, session>>

\* mark_share_verifying.
MarkShare(t) ==
    /\ shares[t].pc = "submitted"
    /\ shares' = [shares EXCEPT ![t].pc = "wait"]
    /\ UNCHANGED <<mailbox, daemonVars, verifier, candidates, session>>

\* It fails: the slot is given up, the completion will come for nobody, and the
\* submit handler marks the database unavailable.
MarkShareFails(t) ==
    /\ shares[t].pc = "submitted"
    /\ mailbox' = Cancelled(mailbox, t)
    /\ shares' = Finished(t, "database")
    /\ flags' = MarkDatabaseUnavailable
    /\ UNCHANGED <<daemonVars, verifier, candidates, buffered, stop_locked>>

\* wait: the worker sleeps, or returns with the completion or without.
SleepInWait(t) ==
    /\ shares[t].pc = "wait" /\ t \notin mailbox.asleep
    /\ ~WaitIsOver(mailbox, t)
    /\ mailbox' = [mailbox EXCEPT !.asleep = @ \cup {t}]
    /\ UNCHANGED <<shares, daemonVars, verifier, candidates, session>>

CandidateMutexFree == \A w \in CandidateThreads : candidate_threads[w] # "blocking"

\* candidate_condition_.notify_one()
WokenOne(ws) ==
    LET sleepers == {w \in CandidateThreads : ws[w] \in {"waiting", "timed"}}
    IN IF sleepers = {} THEN {ws} ELSE {[ws EXCEPT ![w] = "look"] : w \in sleepers}

\* The share is decided; when it is a block, enqueue_candidate makes a task of it.
ReturnFromWait(t, block) ==
    /\ shares[t].pc = "wait" /\ t \notin mailbox.asleep
    /\ WaitIsOver(mailbox, t)
    /\ mailbox' = Waited(mailbox, t)
    /\ LET full == mailbox.slots[t] = "full"
       IN /\ shares' = Finished(t, IF full THEN "own" ELSE "failed")
          /\ buffered' = (buffered \/ full)
          /\ block => full /\ tasks.made < MaxTasks /\ CandidateMutexFree
    /\ IF block
       THEN /\ tasks' = [tasks EXCEPT !.due = @ + 1, !.made = @ + 1]
            /\ candidate_threads' \in WokenOne(candidate_threads)
       ELSE UNCHANGED <<tasks, candidate_threads>>
    /\ UNCHANGED <<daemonVars, verifier, templating, flags, stop_locked>>
-----------------------------------------------------------------------------
\* The native library finishes a hash.
NativeHashes(t) ==
    /\ native.hashes[t] = "hashing"
    /\ native' = [native EXCEPT !.hashes[t] = "ready"]
    /\ UNCHANGED <<submits, daemonVars, verifying, candidates, session>>

Ready == {t \in Tags : native.hashes[t] = "ready"}
DrainedNative == [native EXCEPT !.hashes = [t \in Tags |-> IF t \in Ready THEN "drained" ELSE @[t]]]

\* verifier_loop: one call of drain_completions, ended by MSPV_TIMEOUT or MSPV_CLOSED.
DrainCompletions ==
    /\ verifying.pc = "drain" /\ ~Reached("thread")
    /\ Ready # {} \/ native.closed
    /\ native' = DrainedNative
    /\ verifying' = [verifying EXCEPT !.pc = "publish", !.batch = Ready, !.closed = native.closed]
    /\ UNCHANGED <<submits, daemonVars, candidates, session>>

PublishCompletion(t) ==
    /\ verifying.pc = "publish" /\ t \in verifying.batch
    /\ mailbox' = Published(mailbox, t)
    /\ verifying' = [verifying EXCEPT !.batch = @ \ {t}]
    /\ UNCHANGED <<shares, daemonVars, native, candidates, session>>

\* The batch is published: on to the next, or out of the loop.
EndBatch ==
    /\ verifying.pc = "publish" /\ verifying.batch = {}
    /\ verifying' = [verifying EXCEPT !.pc = IF verifying.closed THEN "exit" ELSE "drain"]
    /\ UNCHANGED <<submits, daemonVars, native, candidates, session>>

\* The thread is asked to stop between two calls.
LeaveLoop ==
    /\ verifying.pc = "drain" /\ Reached("thread")
    /\ verifying' = [verifying EXCEPT !.pc = "exit"]
    /\ UNCHANGED <<submits, daemonVars, native, candidates, session>>

\* A completion that matches no submission (the mailbox closes at once), or an error of
\* the library: what is left of the batch is dropped.
VerifierFails(mismatch) ==
    /\ verifying.pc \in {"drain", "publish"} /\ ~Reached("thread")
    /\ mailbox' = IF mismatch THEN Closed(mailbox) ELSE mailbox
    /\ verifying' = [pc |-> "fatal", batch |-> {}, closed |-> FALSE, failed |-> TRUE]
    /\ UNCHANGED <<shares, daemonVars, native, candidates, session>>

ReportFailure ==
    /\ verifying.pc = "fatal"
    /\ flags' = IF Reached("thread") THEN flags
                ELSE [flags EXCEPT !.internal_failure = TRUE, !.running = FALSE]
    /\ verifying' = [verifying EXCEPT !.pc = "exit"]
    /\ UNCHANGED <<submits, daemonVars, native, candidates, buffered, stop_locked>>

\* Mutant: the thread leaves the mailbox open.
MailboxAfterVerifierOpen == mailbox

MailboxAfterVerifier == Closed(mailbox)

VerifierExits ==
    /\ verifying.pc = "exit"
    /\ mailbox' = MailboxAfterVerifier
    /\ verifying' = [verifying EXCEPT !.pc = "gone"]
    /\ UNCHANGED <<shares, daemonVars, native, candidates, session>>
-----------------------------------------------------------------------------
\* A candidate worker looks at the queue under candidate_mutex_.  With nothing in it
\* the worker holds the mutex until it waits; with nothing due it waits for a time.
Look(w) ==
    /\ candidate_threads[w] = "look" /\ CandidateMutexFree
    /\ candidate_threads' = [candidate_threads EXCEPT ![w] = IF stop_locked.requested THEN "gone"
                                         ELSE IF tasks.due > 0 THEN "taken"
                                         ELSE IF tasks.later > 0 THEN "timed" ELSE "blocking"]
    /\ tasks' = [tasks EXCEPT !.due = IF candidate_threads'[w] = "taken" THEN @ - 1 ELSE @]
    /\ UNCHANGED <<submits, daemonVars, verifier, templating, session>>

BeginWait(w) ==
    /\ candidate_threads[w] = "blocking"
    /\ candidate_threads' = [candidate_threads EXCEPT ![w] = "waiting"]
    /\ UNCHANGED <<submits, daemonVars, verifier, tasks, templating, session>>

\* wait_until ends, and the first delayed task is due.
TimedWaitEnds(w) ==
    /\ candidate_threads[w] = "timed"
    /\ candidate_threads' = [candidate_threads EXCEPT ![w] = "look"]
    /\ tasks' = IF tasks.later > 0 THEN [tasks EXCEPT !.later = @ - 1, !.due = @ + 1] ELSE tasks
    /\ UNCHANGED <<submits, daemonVars, verifier, templating, session>>

\* The task's RPC; a worker that finds the database unavailable drops the task and leaves.
CallDaemon(w) ==
    /\ candidate_threads[w] = "taken"
    /\ IF flags.database THEN AskForSlot(w) ELSE UNCHANGED daemonVars
    /\ candidate_threads' = [candidate_threads EXCEPT ![w] = IF flags.database THEN "calling" ELSE "gone"]
    /\ UNCHANGED <<submits, verifier, tasks, templating, session>>

\* Its answer: the task is finished, or retained unless the server stops; its row is
\* durable either way.
EndTask(w, retain) ==
    /\ candidate_threads[w] = "calling" /\ rpcs[w] = "out"
    /\ retain => ~stop_locked.requested /\ CandidateMutexFree
    /\ tasks' = IF retain THEN [tasks EXCEPT !.later = @ + 1] ELSE tasks
    /\ \E ws \in IF retain THEN WokenOne(candidate_threads) ELSE {candidate_threads} :
          candidate_threads' = [ws EXCEPT ![w] = "look"]
    /\ UNCHANGED <<submits, daemonVars, verifier, templating, session>>

\* The template thread asks the daemon again and again.
RefreshTemplate ==
    /\ templating = "run" /\ ~Reached("join")
    /\ AskForSlot(TemplateThread)
    /\ UNCHANGED <<submits, verifier, candidates, session>>

TemplateThreadEnds ==
    /\ templating = "run" /\ Reached("join") /\ rpcs[TemplateThread] = "out"
    /\ templating' = "gone"
    /\ UNCHANGED <<submits, daemonVars, verifier, tasks, candidate_threads, session>>

Rpc(t) == RequestStep(t) /\ UNCHANGED <<submits, verifier, candidates, session>>

\* accounting_loop: the buffers are written, or the database fails.
FlushAccounting(ok) ==
    /\ ~Reached("flush") /\ buffered
    /\ buffered' = ~ok
    /\ flags' = IF ok THEN flags ELSE MarkDatabaseUnavailable
    /\ UNCHANGED <<submits, daemonVars, verifier, candidates, stop_locked>>
-----------------------------------------------------------------------------
\* stop_locked, after a signal or when running_ is found false.  The event
\* server_stopping is written, or the database fails.
StopBegins(ok) ==
    /\ stop_locked.pc = "none"
    /\ stop_locked' = [stop_locked EXCEPT !.pc = "stratum", !.clean = ~flags.internal_failure]
    /\ flags' = IF ok THEN [flags EXCEPT !.running = FALSE] ELSE MarkDatabaseUnavailable
    /\ UNCHANGED <<submits, daemonVars, verifier, candidates, buffered>>

\* Mutant: the workers are not waited for.
DrainedAtOnce == TRUE

Drained == \A t \in Tags : shares[t].pc \in {"none", "done"}

\* stratum_->stop() has drained what was admitted (SubmitLanes).
StratumStopped ==
    /\ stop_locked.pc = "stratum" /\ Drained
    /\ stop_locked' = [stop_locked EXCEPT !.pc = "drained", !.clean = @ /\ flags.database]
    /\ UNCHANGED <<submits, daemonVars, verifier, candidates, buffered, flags>>

\* request_stop, then notify_all, without candidate_mutex_.
RequestCandidateStop ==
    /\ stop_locked.pc = "drained"
    /\ stop_locked' = [stop_locked EXCEPT !.pc = "requested", !.requested = TRUE]
    /\ UNCHANGED <<submits, daemonVars, verifier, candidates, buffered, flags>>

\* Mutant: nobody is notified.
WokenByStopNone == candidate_threads

WokenByStop ==
    [w \in CandidateThreads |->
        IF candidate_threads[w] \in {"waiting", "timed"} THEN "look" ELSE candidate_threads[w]]

NotifyCandidates ==
    /\ stop_locked.pc = "requested"
    /\ candidate_threads' = WokenByStop
    /\ stop_locked' = [stop_locked EXCEPT !.pc = "join",
                         !.missed = {w \in CandidateThreads : candidate_threads[w] = "blocking"}]
    /\ UNCHANGED <<submits, daemonVars, verifier, tasks, templating, buffered, flags>>

\* Template and candidate threads are joined; the queue is abandoned.
ThreadsJoined ==
    /\ stop_locked.pc = "join" /\ templating = "gone"
    /\ \A w \in CandidateThreads : candidate_threads[w] = "gone"
    /\ tasks' = [tasks EXCEPT !.due = 0, !.later = 0]
    /\ stop_locked' = [stop_locked EXCEPT !.pc = "daemon"]
    /\ UNCHANGED <<submits, daemonVars, verifier, candidate_threads, templating, buffered, flags>>

DaemonStops ==
    /\ stop_locked.pc = "daemon"
    /\ StopDaemon
    /\ stop_locked' = [stop_locked EXCEPT !.pc = "verifier"]
    /\ UNCHANGED <<submits, verifier, candidates, buffered, flags>>

\* verifier_->shutdown(drain) returns when all work is hashed, or with an error.
ShutdownVerifier(ok) ==
    /\ stop_locked.pc = "verifier"
    /\ ok => \A t \in Tags : native.hashes[t] # "hashing"
    /\ native' = [native EXCEPT !.closed = ok]
    /\ stop_locked' = [stop_locked EXCEPT !.pc = "shut", !.clean = @ /\ ok]
    /\ UNCHANGED <<submits, daemonVars, verifying, candidates, buffered, flags>>

RequestVerifierStop ==
    /\ stop_locked.pc = "shut"
    /\ stop_locked' = [stop_locked EXCEPT !.pc = "thread"]
    /\ UNCHANGED <<submits, daemonVars, verifier, candidates, buffered, flags>>

VerifierJoined ==
    /\ stop_locked.pc = "thread" /\ verifying.pc = "gone"
    /\ stop_locked' = [stop_locked EXCEPT !.pc = "drain"]
    /\ UNCHANGED <<submits, daemonVars, verifier, candidates, buffered, flags>>

\* The rest is drained until MSPV_CLOSED, or for five seconds; the mailbox closes.
DrainRest ==
    /\ stop_locked.pc = "drain"
    /\ native' = DrainedNative
    /\ mailbox' = Closed(mailbox)
    /\ stop_locked' = [stop_locked EXCEPT !.pc = "flush", !.clean = @ /\ native.closed]
    /\ UNCHANGED <<shares, daemonVars, verifying, candidates, buffered, flags>>

\* The accounting thread is joined and the buffers are written.
FinalFlush(ok) ==
    /\ stop_locked.pc = "flush"
    /\ buffered' = (buffered /\ ~ok)
    /\ flags' = IF ok THEN flags ELSE MarkDatabaseUnavailable
    /\ stop_locked' = [stop_locked EXCEPT !.pc = "finish", !.clean = @ /\ ok]
    /\ UNCHANGED <<submits, daemonVars, verifier, candidates>>

\* finish_session
FinishSession ==
    /\ stop_locked.pc = "finish"
    /\ stop_locked' = [stop_locked EXCEPT !.pc = "finished", !.clean = @ /\ flags.database]
    /\ UNCHANGED <<submits, daemonVars, verifier, candidates, buffered, flags>>
-----------------------------------------------------------------------------
ShareStep(t) ==
    \/ RegisterShare(t) \/ SubmitShare(t) \/ RefuseShare(t) \/ MarkShare(t) \/ MarkShareFails(t)
    \/ SleepInWait(t) \/ \E block \in BOOLEAN : ReturnFromWait(t, block)
VerifierStep ==
    \/ DrainCompletions \/ (\E t \in Tags : PublishCompletion(t)) \/ EndBatch \/ LeaveLoop
    \/ ReportFailure \/ VerifierExits
CandidateStep(w) ==
    \/ Look(w) \/ BeginWait(w) \/ TimedWaitEnds(w) \/ CallDaemon(w)
    \/ \E retain \in BOOLEAN : EndTask(w, retain)
TemplateStep == RefreshTemplate \/ TemplateThreadEnds
StopLocked ==
    \/ StratumStopped \/ RequestCandidateStop \/ NotifyCandidates \/ ThreadsJoined \/ DaemonStops
    \/ (\E ok \in BOOLEAN : ShutdownVerifier(ok) \/ FinalFlush(ok))
    \/ RequestVerifierStop \/ VerifierJoined \/ DrainRest \/ FinishSession

ShutdownNext ==
    \/ \E t \in Tags : AdmitShare(t) \/ ShareStep(t) \/ NativeHashes(t)
    \/ VerifierStep
    \/ \E mismatch \in BOOLEAN : VerifierFails(mismatch)
    \/ \E w \in CandidateThreads : CandidateStep(w)
    \/ TemplateStep
    \/ \E t \in Threads : Rpc(t)
    \/ \E ok \in BOOLEAN : FlushAccounting(ok) \/ StopBegins(ok)
    \/ StopLocked

ShutdownSpec == ShutdownInit /\ [][ShutdownNext]_shutdownVars

\* Threads run, the library hashes what it took, an RPC ends by its answer or its
\* timeout, and the main thread stops a server whose running_ is false.  A thread that
\* waits for its slot gets scheduler_mutex_ in the end, also while it may send only now
\* and then.
ShutdownFairness ==
    /\ \A t \in Tags : WF_shutdownVars(ShareStep(t)) /\ WF_shutdownVars(NativeHashes(t))
    /\ WF_shutdownVars(VerifierStep)
    /\ \A w \in CandidateThreads : WF_shutdownVars(CandidateStep(w))
    /\ \A t \in Threads : WF_shutdownVars(Rpc(t))
    /\ WF_shutdownVars(TemplateThreadEnds)
    /\ WF_shutdownVars(~flags.running /\ \E ok \in BOOLEAN : StopBegins(ok))
    /\ WF_shutdownVars(StopLocked)

FairShutdownSpec == ShutdownSpec /\ ShutdownFairness
-----------------------------------------------------------------------------
\* A slot belongs to a share between register_waiter and the end of its wait, unless the
\* mailbox is closed; what a wait returns is the completion of that very share; and while
\* the verifier thread does not fail, no wait returns without one, also not during
\* shutdown ("drain every syntactically admitted submit while the completion mailbox,
\* verifier, and daemon are still live").
CompletionsReachTheirShares ==
    \A t \in Tags :
        /\ mailbox.slots[t] # "none" <=>
               ~mailbox.closed /\ shares[t].pc \in {"registered", "submitted", "wait"}
        /\ shares[t].got = "own" => native.hashes[t] = "drained"
        /\ shares[t].got = "failed" => verifying.failed

\* Whoever waits for a completion returns, however the verifier thread ends.
WaitersReturn == \A t \in Tags : shares[t].pc = "wait" ~> shares[t].pc = "done"

\* A session recorded as clean has lost nothing: every admitted share was decided, every
\* completion drained, no worker, RPC or slot is left, and the accounting is written.
CleanStopLosesNothing ==
    stop_locked.pc = "finished" /\ stop_locked.clean =>
        /\ Drained /\ Slots(mailbox) = {}
        /\ \A t \in Tags : native.hashes[t] \in {"none", "drained"}
        /\ \A t \in Threads : rpcs[t] = "out"
        /\ ~buffered /\ flags.database

\* stop_locked returns, unless a candidate worker sleeps that had found the queue empty and
\* had not begun to wait when candidate_condition_ was notified: the one notification that
\* such a worker gets is lost on it.  A worker that slept already, or came later, is no excuse.
StopEnds ==
    stop_locked.pc = "stratum" ~>
        stop_locked.pc = "finished" \/ \E w \in stop_locked.missed : candidate_threads[w] = "waiting"

\* Nobody waits for ever, neither in the mailbox nor in stop_locked.
EveryoneReturns == WaitersReturn /\ StopEnds
=============================================================================
