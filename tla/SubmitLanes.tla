----------------------------- MODULE SubmitLanes -----------------------------
(***************************************************************************)
(* Submissions in src/src/stratum/stratum.cpp between the event loop and   *)
(* the workers: two queues (claimed candidates and the rest) with a        *)
(* reserve for candidates, two pools of workers on one condition variable, *)
(* results that go back to the event loop, request ids owned while their   *)
(* request is alive, and stop(), which drains what was admitted.           *)
(*                                                                         *)
(* A worker that found its predicate false holds submit_mutex_ until it    *)
(* waits; notifications reach only workers that wait already.              *)
(***************************************************************************)
EXTENDS Integers, Sequences, FiniteSets, Functions

CONSTANTS
    Connections,        \* authenticated connections
    MaxRequests,        \* bound on submit requests
    Ids,                \* JSON-RPC ids
    Workers,            \* submit_workers
    CandidateWorkers,   \* candidate_submit_workers
    MaxPending,         \* max_pending_submits
    CandidateReserve,   \* candidate_submit_reserve
    MaxPerConnection    \* max_pending_submits_per_connection

ASSUME LanesAssumption ==
    /\ Connections # {} /\ Ids # {} /\ MaxRequests \in Nat
    /\ Workers \cap CandidateWorkers = {} /\ Workers # {} /\ CandidateWorkers # {}
    /\ MaxPending \in Nat /\ CandidateReserve \in 1..(MaxPending - 1)
    /\ MaxPerConnection \in Nat \ {0}

VARIABLES
    running,    \* running_
    loop,       \* the event loop: polling, inside handle_submit, or gone
    queues,     \* pending_submits_ and pending_candidate_submits_, by lane
    workers,    \* per worker
    requests,   \* per request: connection, id and where it is
    completed,  \* completed_submits_
    conns,      \* per connection: open, pending_submits and live_request_ids
    stop        \* where stop() is

vars == <<running, loop, queues, workers, requests, completed, conns, stop>>

Requests == 1..MaxRequests   \* in the order they arrive
NoRequest == 0

Lanes == {"ordinary", "candidate"}
AllWorkers == Workers \cup CandidateWorkers
Lane(w) == IF w \in CandidateWorkers THEN "candidate" ELSE "ordinary"

NewRequest == [conn |-> CHOOSE c \in Connections : TRUE, id |-> CHOOSE i \in Ids : TRUE,
               lane |-> "ordinary", state |-> "none"]

\* An answered or dropped request is remembered only by its connection.
Ended(c, outcome) == [NewRequest EXCEPT !.conn = c, !.state = outcome]

\* The limits of both lanes hold: also when all places are taken, ordinary work has
\* not taken those reserved for claimed candidates (handle_submit).
LanesTypeOK ==
    /\ running \in BOOLEAN
    /\ loop \in [pc : {"poll", "submit", "gone"}, request : Requests \cup {NoRequest}]
    /\ queues \in [Lanes -> Seq(Requests)]
    /\ \A l \in Lanes : IsInjective(queues[l])
    /\ Len(queues.ordinary) + Len(queues.candidate) <= MaxPending
    /\ Len(queues.ordinary) <= MaxPending - CandidateReserve
    /\ workers \in [AllWorkers -> [pc : {"check", "blocking", "waiting", "working", "handled", "gone"},
                                   request : Requests \cup {NoRequest}]]
    /\ requests \in [Requests -> [conn : Connections, id : Ids, lane : Lanes,
                                  state : {"none", "admitting", "queued", "working", "handled",
                                           "answered", "refused", "dropped"}]]
    /\ completed \subseteq Requests
    /\ conns \in [Connections -> [open : BOOLEAN, pending : 0..MaxPerConnection, ids : SUBSET Ids]]
    /\ stop \in {"none", "flagged", "notified", "joined", "signalled", "finished"}

Init ==
    /\ running = TRUE
    /\ loop = [pc |-> "poll", request |-> NoRequest]
    /\ queues = [l \in Lanes |-> <<>>]
    /\ workers = [w \in AllWorkers |-> [pc |-> "check", request |-> NoRequest]]
    /\ requests = [r \in Requests |-> NewRequest]
    /\ completed = {}
    /\ conns = [c \in Connections |-> [open |-> TRUE, pending |-> 0, ids |-> {}]]
    /\ stop = "none"

\* submit_mutex_ is free: the one thing done with it in two steps is to wait.
MutexFree == \A w \in AllWorkers : workers[w].pc # "blocking"

\* submit_condition_.notify_all()
Notified(ws) ==
    [w \in AllWorkers |-> IF ws[w].pc = "waiting" THEN [ws[w] EXCEPT !.pc = "check"] ELSE ws[w]]
-----------------------------------------------------------------------------
\* The event loop.
\* process_line up to handle_submit: the id is taken.  A request with an id in
\* use is answered "Server busy", and the id stays with its first owner.
Receive(r, c, i, lane) ==
    /\ loop.pc = "poll" /\ running
    /\ conns[c].open
    /\ \A q \in Requests : requests[q].state = "none" <=> q >= r
    /\ IF i \in conns[c].ids
       THEN /\ requests' = [requests EXCEPT ![r] = Ended(c, "refused")]
            /\ UNCHANGED <<conns, loop>>
       ELSE /\ requests' = [requests EXCEPT ![r] = [conn |-> c, id |-> i, lane |-> lane,
                                                    state |-> "admitting"]]
            /\ conns' = [conns EXCEPT ![c].ids = @ \cup {i}]
            /\ loop' = [pc |-> "submit", request |-> r]
    /\ UNCHANGED <<running, queues, workers, completed, stop>>

\* Mutant: the ordinary lane may take the reserve.
BusyUnreserved(lane, c) ==
    \/ conns[c].pending >= MaxPerConnection
    \/ Len(queues.ordinary) + Len(queues.candidate) >= MaxPending

\* Mutant: a connection may use the whole queue.
BusyAnyConnection(lane, c) ==
    \/ Len(queues.ordinary) + Len(queues.candidate) >= MaxPending
    \/ lane = "ordinary" /\ Len(queues.ordinary) >= MaxPending - CandidateReserve

\* The limits of handle_submit.
Busy(lane, c) ==
    \/ conns[c].pending >= MaxPerConnection
    \/ Len(queues.ordinary) + Len(queues.candidate) >= MaxPending
    \/ lane = "ordinary" /\ Len(queues.ordinary) >= MaxPending - CandidateReserve

\* Mutant: a refusal keeps the id.
RefusedKeepsId(r) == conns

\* An error answer gives the id back.
Refused(r) == [conns EXCEPT ![requests[r].conn].ids = @ \ {requests[r].id}]

\* Mutant: one worker is notified, of either lane.
WakeOneWorker(ws) ==
    IF \E w \in AllWorkers : ws[w].pc = "waiting"
    THEN [ws EXCEPT ![CHOOSE w \in AllWorkers : ws[w].pc = "waiting"].pc = "check"] ELSE ws

\* The notification after an admission.
WakeWorkers(ws) == Notified(ws)

\* Mutant: running_ is not looked at under the lock.
AdmissionClosedNever == FALSE

AdmissionClosed == ~running

\* handle_submit from the lock on; once the server stops it just returns.
HandleSubmit ==
    /\ loop.pc = "submit" /\ MutexFree
    /\ LET r == loop.request
           c == requests[r].conn
           lane == requests[r].lane
       IN IF AdmissionClosed
          THEN /\ requests' = [requests EXCEPT ![r] = Ended(c, "dropped")]
               /\ UNCHANGED <<conns, queues, workers>>
          ELSE IF Busy(lane, c)
          THEN /\ requests' = [requests EXCEPT ![r] = Ended(c, "refused")]
               /\ conns' = Refused(r)
               /\ UNCHANGED <<queues, workers>>
          ELSE /\ requests' = [requests EXCEPT ![r].state = "queued"]
               /\ conns' = [conns EXCEPT ![c].pending = @ + 1]
               /\ queues' = [queues EXCEPT ![lane] = Append(@, r)]
               /\ workers' = WakeWorkers(workers)
    /\ loop' = [pc |-> "poll", request |-> NoRequest]
    /\ UNCHANGED <<running, completed, stop>>

ResultsOf(c) == {r \in completed : requests[r].conn = c}

\* Mutant: the results of a connection are not counted off.
AnsweredUncounted(c) == [conns[c] EXCEPT !.ids = @ \ {requests[r].id : r \in ResultsOf(c)}]

Answered(c) == [conns[c] EXCEPT !.pending = @ - Cardinality(ResultsOf(c)),
                                !.ids = @ \ {requests[r].id : r \in ResultsOf(c)}]

\* drain_submit_results: connections whose output overflows are closed.
DrainResults(overflow) ==
    /\ loop.pc = "poll" /\ running /\ MutexFree
    /\ completed # {}
    /\ overflow \subseteq {c \in Connections : ResultsOf(c) # {} /\ conns[c].open}
    /\ conns' = [c \in Connections |->
                    IF ~conns[c].open THEN conns[c]
                    ELSE IF c \in overflow THEN [conns[c] EXCEPT !.open = FALSE]
                    ELSE Answered(c)]
    /\ requests' = [r \in Requests |->
                       IF r \notin completed THEN requests[r]
                       ELSE LET c == requests[r].conn
                            IN Ended(c, IF conns'[c].open THEN "answered" ELSE "dropped")]
    /\ completed' = {}
    /\ UNCHANGED <<running, loop, queues, workers, stop>>

\* close_connection: the peer leaves, is banned or timed out.
CloseConnection(c) ==
    /\ loop.pc = "poll" /\ running
    /\ conns[c].open
    /\ conns' = [conns EXCEPT ![c].open = FALSE]
    /\ UNCHANGED <<running, loop, queues, workers, requests, completed, stop>>

\* The event loop ends when the server stops.
LoopEnds ==
    /\ loop.pc = "poll" /\ ~running
    /\ loop' = [loop EXCEPT !.pc = "gone"]
    /\ UNCHANGED <<running, queues, workers, requests, completed, conns, stop>>

\* report_event_loop_failure
LoopFails ==
    /\ loop.pc = "poll" /\ running
    /\ running' = FALSE
    /\ loop' = [loop EXCEPT !.pc = "gone"]
    /\ workers' = Notified(workers)
    /\ UNCHANGED <<queues, requests, completed, conns, stop>>
-----------------------------------------------------------------------------
StopRequested == stop \in {"signalled", "finished"}

\* submit_worker looks at its queue under the lock.
Check(w) ==
    /\ workers[w].pc = "check" /\ MutexFree
    /\ LET q == queues[Lane(w)]
       IN IF q # <<>>
          THEN /\ queues' = [queues EXCEPT ![Lane(w)] = Tail(q)]
               /\ workers' = [workers EXCEPT ![w] = [pc |-> "working", request |-> Head(q)]]
               /\ requests' = [requests EXCEPT ![Head(q)].state = "working"]
          ELSE /\ workers' = [workers EXCEPT ![w].pc =
                                 IF ~running \/ StopRequested THEN "gone" ELSE "blocking"]
               /\ UNCHANGED <<queues, requests>>
    /\ UNCHANGED <<running, loop, completed, conns, stop>>

\* The worker waits, and the mutex is free.
Wait(w) ==
    /\ workers[w].pc = "blocking"
    /\ workers' = [workers EXCEPT ![w].pc = "waiting"]
    /\ UNCHANGED <<running, loop, queues, requests, completed, conns, stop>>

\* submits_ and the observer have run.
Handle(w) ==
    /\ workers[w].pc = "working"
    /\ workers' = [workers EXCEPT ![w].pc = "handled"]
    /\ requests' = [requests EXCEPT ![workers[w].request].state = "handled"]
    /\ UNCHANGED <<running, loop, queues, completed, conns, stop>>

\* The result goes to the event loop.
Complete(w) ==
    /\ workers[w].pc = "handled" /\ MutexFree
    /\ completed' = completed \cup {workers[w].request}
    /\ workers' = [workers EXCEPT ![w] = [pc |-> "check", request |-> NoRequest]]
    /\ UNCHANGED <<running, loop, queues, requests, conns, stop>>
-----------------------------------------------------------------------------
\* stop(), step by step; neither notification is given under submit_mutex_.
StopFlags ==
    /\ stop = "none"
    /\ running' = FALSE
    /\ stop' = "flagged"
    /\ UNCHANGED <<loop, queues, workers, requests, completed, conns>>

StopNotifies ==
    /\ stop = "flagged"
    /\ workers' = Notified(workers)
    /\ stop' = "notified"
    /\ UNCHANGED <<running, loop, queues, requests, completed, conns>>

StopJoinsLoop ==
    /\ stop = "notified" /\ loop.pc = "gone"
    /\ stop' = "joined"
    /\ UNCHANGED <<running, loop, queues, workers, requests, completed, conns>>

\* request_stop of the workers and the second notification.
StopSignals ==
    /\ stop = "joined"
    /\ workers' = Notified(workers)
    /\ stop' = "signalled"
    /\ UNCHANGED <<running, loop, queues, requests, completed, conns>>

\* The workers are joined; queues, results and connections are cleared.
StopFinishes ==
    /\ stop = "signalled"
    /\ \A w \in AllWorkers : workers[w].pc = "gone"
    /\ stop' = "finished"
    /\ queues' = [l \in Lanes |-> <<>>]
    /\ completed' = {}
    /\ conns' = [c \in Connections |-> [conns[c] EXCEPT !.open = FALSE]]
    /\ requests' = [r \in Requests |->
                       IF r \in completed \cup UNION {Range(queues[l]) : l \in Lanes}
                       THEN Ended(requests[r].conn, "dropped")
                       ELSE requests[r]]
    /\ UNCHANGED <<running, loop, workers>>

-----------------------------------------------------------------------------
Stopping == StopNotifies \/ StopJoinsLoop \/ StopSignals \/ StopFinishes
Work(w) == Check(w) \/ Wait(w) \/ Handle(w) \/ Complete(w)

Next ==
    \/ \E r \in Requests, c \in Connections, i \in Ids, l \in Lanes : Receive(r, c, i, l)
    \/ HandleSubmit
    \/ \E o \in SUBSET Connections : DrainResults(o)
    \/ \E c \in Connections : CloseConnection(c)
    \/ LoopEnds
    \/ LoopFails
    \/ \E w \in AllWorkers : Work(w)
    \/ StopFlags
    \/ Stopping

Spec == Init /\ [][Next]_vars

\* Threads keep running, also the one in stop() once it is called; nothing
\* makes a request arrive, a connection close or the server stop.
Fairness ==
    /\ \A w \in AllWorkers : WF_vars(Work(w))
    /\ WF_vars(HandleSubmit) /\ WF_vars(LoopEnds) /\ WF_vars(DrainResults({}))
    /\ WF_vars(Stopping)

FairSpec == Spec /\ Fairness
-----------------------------------------------------------------------------
InFlight(c) == {r \in Requests : requests[r].conn = c /\ requests[r].state \in {"queued", "working", "handled"}}

\* pending_submits, which only the event loop touches, counts the requests that
\* are queued, with a worker or on their way back; and of the requests alive on
\* a connection each has an id of its own, with no id left over from another
\* (live_request_ids).
PendingIsExact ==
    \A c \in Connections : conns[c].open =>
        /\ conns[c].pending = Cardinality(InFlight(c))
        /\ running =>
              LET alive == InFlight(c) \cup {r \in Requests : requests[r].conn = c
                                                               /\ requests[r].state = "admitting"}
              IN /\ conns[c].ids = {requests[r].id : r \in alive}
                 /\ Cardinality(conns[c].ids) = Cardinality(alive)

\* Every admitted request was handled by the time stop() has joined the workers
\* ("stop() closes ingress conceptually before it drains admitted submit work").
AdmittedIsHandled ==
    (\A w \in AllWorkers : workers[w].pc = "gone") =>
        \A r \in Requests : requests[r].state # "queued"

\* No request is lost or counted twice between the event loop and the workers, and
\* the candidates' places in the queue are not taken by others.
SubmitsAreExact == LanesTypeOK /\ PendingIsExact /\ AdmittedIsHandled

\* While the server runs, an admitted request is answered unless its connection
\* closes; both kinds of workers share the condition variable.
AdmittedIsAnswered ==
    \A r \in Requests :
        requests[r].state = "queued" ~>
            requests[r].state = "answered" \/ ~conns[requests[r].conn].open \/ ~running

\* stop() joins every worker and returns.
StopReturns == stop = "flagged" ~> stop = "finished"
=============================================================================
