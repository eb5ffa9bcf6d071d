------------------------------ MODULE ServerInv -------------------------------
(***************************************************************************)
(* The inductive invariants of Shutdown and HttpServer and the parts they  *)
(* are made of, with the shapes of steps that ServerProofs reasons about.  *)
(***************************************************************************)
EXTENDS Shutdown, HttpServer

-----------------------------------------------------------------------------
(* Shutdown *)

Counters == [inflight : Nat, waiting : Nat, priority_waiting : Nat, stopping : BOOLEAN]

DaemonTypeOK == rpcs \in [Threads -> RequestStates] /\ scheduler \in Counters

DaemonInv == DaemonTypeOK /\ SlotsAreExact

OnWire == In({"wire"})

InQueue == In({"waiting", "asleep"})

UrgentInQueue == In({"waiting", "asleep"}) \cap Urgent

ShareStates == {"none", "admitted", "registered", "submitted", "wait", "done"}

WorkerStates == {"look", "blocking", "waiting", "timed", "taken", "calling", "gone"}

StopStates == {StopSteps[i] : i \in DOMAIN StopSteps}

Mailboxes == [closed : BOOLEAN, slots : [Tags -> {"none", "empty", "full"}], asleep : SUBSET Tags]

Results == {"none", "busy", "database", "own", "failed"}

Natives == [hashes : [Tags -> {"none", "hashing", "ready", "drained"}], closed : BOOLEAN]

VerifierStates == [pc : {"drain", "publish", "fatal", "exit", "gone"}, batch : SUBSET Tags,
                   closed : BOOLEAN, failed : BOOLEAN]

SharesTypeOK ==
    /\ mailbox \in Mailboxes
    /\ shares \in [Tags -> [pc : ShareStates, got : Results]]
    /\ native \in Natives
    /\ verifying \in VerifierStates

Flags == [running : BOOLEAN, internal_failure : BOOLEAN, database : BOOLEAN]

Stops == [pc : StopStates, clean : BOOLEAN, requested : BOOLEAN, missed : SUBSET CandidateThreads]

SessionTypeOK ==
    /\ candidate_threads \in [CandidateThreads -> WorkerStates]
    /\ templating \in {"run", "gone"}
    /\ buffered \in BOOLEAN
    /\ flags \in Flags
    /\ stop_locked \in Stops

\* Where a share is, in the mailbox and in the library.
ShareIsFollowed(t) ==
    /\ shares[t].pc \in {"none", "admitted", "registered"} => native.hashes[t] = "none"
    /\ shares[t].pc # "done" => shares[t].got = "none"
    /\ t \in verifying.batch \/ mailbox.slots[t] = "full" => native.hashes[t] = "drained"

\* The verifier thread gives up, and the mailbox closes, only after a failure or when
\* the library is shut down.
VerifierEndsLate ==
    /\ verifying.pc = "fatal" => verifying.failed
    /\ verifying.pc \in {"exit", "gone"} \/ mailbox.closed => verifying.failed \/ Reached("shut")
    /\ verifying.closed \/ native.closed => Reached("shut")

\* What has been waited for stays done.
StopIsOrdered ==
    /\ Reached("drained") => Drained
    /\ Reached("daemon") => templating = "gone" /\ \A w \in CandidateThreads : candidate_threads[w] = "gone"

\* What stop_locked still means when it says clean.
CleanSoFar ==
    stop_locked.clean =>
        /\ Reached("shut") => native.closed /\ \A t \in Tags : native.hashes[t] # "hashing"
        /\ Reached("flush") => \A t \in Tags : native.hashes[t] \in {"none", "drained"}
        /\ Reached("finish") => ~buffered
        /\ stop_locked.pc = "finished" => flags.database

\* Only a candidate worker with a task, or the template thread, is inside post().
CallersAreKnown ==
    /\ \A w \in CandidateThreads : candidate_threads[w] # "calling" => rpcs[w] = "out"
    /\ templating = "gone" => rpcs[TemplateThread] = "out"

ShutdownInv ==
    /\ SharesTypeOK /\ SessionTypeOK /\ DaemonInv
    /\ \A t \in Tags : ShareIsFollowed(t)
    /\ CompletionsReachTheirShares
    /\ VerifierEndsLate /\ StopIsOrdered /\ CleanSoFar /\ CallersAreKnown

\* How a step moves the candidate workers and the template thread.
WorkerMoves ==
    \/ \E w \in CandidateThreads :
          \/ Look(w) \/ BeginWait(w) \/ TimedWaitEnds(w) \/ CallDaemon(w)
          \/ \E retain \in BOOLEAN : EndTask(w, retain)
    \/ \E t \in Tags, block \in BOOLEAN : ReturnFromWait(t, block)
    \/ TemplateThreadEnds \/ NotifyCandidates

SharesInv == (\A t \in Tags : ShareIsFollowed(t)) /\ CompletionsReachTheirShares /\ VerifierEndsLate

-----------------------------------------------------------------------------
(* HttpServer *)

HttpStates == [running : BOOLEAN, queue : Seq(Peers), active : Nat, peers : [Peers -> Nat], accepted : Nat]

ServerStates == [pc : {"look", "blocking", "asleep", "serve", "served", "forgotten", "gone"},
                 peer : Peers \cup {NoPeer}, requests : Nat]

\* Whom a worker serves is known from where it is.
HttpTypes ==
    /\ http \in HttpStates
    /\ accepter \in [pc : {"accept", "have", "notify", "gone"}, peer : Peers \cup {NoPeer}]
    /\ accepter.pc = "have" => accepter.peer \in Peers
    /\ servers \in [HttpWorkers -> ServerStates]
    /\ \A w \in HttpWorkers : servers[w].pc \in {"serve", "served"} <=> servers[w].peer # NoPeer
    /\ halt \in {"none", "notify", "accept", "workers", "stopped"}

\* The connections of a set of workers, and those of p in a queue.
BusyIn(S) == {w \in HttpWorkers : S[w].pc \in {"serve", "served", "forgotten"}}

ServingIn(S, p) == {w \in HttpWorkers : S[w].peer = p}

QueuedIn(q, p) == {i \in DOMAIN q : q[i] = p}

\* The accept thread is the only one that adds a connection, so the place it saw is
\* still there; it is gone before the workers are joined, and they before the queue
\* is cleared.
HttpCounts ==
    /\ halt # "stopped" =>
          /\ http.active = Len(http.queue) + Cardinality(BusyIn(servers))
          /\ \A p \in Peers :
                http.peers[p] = Cardinality(ServingIn(servers, p)) + Cardinality(QueuedIn(http.queue, p))
    /\ http.active <= MaxConnections
    /\ accepter.pc = "have" => http.active < MaxConnections
    /\ \A p \in Peers : http.peers[p] <= PerPeer
    /\ halt \in {"workers", "stopped"} => accepter.pc = "gone"
    /\ halt = "stopped" => \A w \in HttpWorkers : servers[w].pc = "gone"

HttpInv == HttpTypes /\ HttpCounts

=============================================================================
