----------------------------- MODULE HttpServer -----------------------------
(***************************************************************************)
(* HttpServer in src/src/api/http.cpp: one thread accepts clients into a   *)
(* bounded queue, a pool of workers serves them, stop() joins both.        *)
(*                                                                         *)
(* A worker that finds the queue empty holds queue_mutex_ until it sleeps  *)
(* ("blocking").  What a request asks and its rate limit are left out      *)
(* (RateLimiter); a connection serves a bounded number of requests.        *)
(***************************************************************************)
EXTENDS Integers, Sequences, FiniteSets

CONSTANTS
    Peers,            \* addresses of clients
    HttpWorkers,      \* workers_
    MaxConnections,   \* config_.max_connections
    QueueLimit,       \* kQueueLimit
    PerPeer,          \* kMaxConnectionsPerPeer
    MaxRequests,      \* kRequestsPerConnection
    MaxAccepted       \* bound on the clients that connect

NoPeer == "no peer"

ASSUME HttpAssumption ==
    /\ {MaxConnections, QueueLimit, PerPeer, MaxRequests} \subseteq Nat \ {0}
    /\ MaxAccepted \in Nat
    /\ NoPeer \notin Peers /\ IsFiniteSet(HttpWorkers)

VARIABLES
    http,       \* running_, queue_, active_, peer_active_ (0: no entry) and the clients accepted
    accepter,   \* accept_loop: where it is and the client it has accepted
    servers,    \* worker_loop: where each worker is, its client and the requests served
    halt        \* stop(): where it is

httpVars == <<http, accepter, servers, halt>>

HttpInit ==
    /\ http = [running |-> TRUE, queue |-> <<>>, active |-> 0, peers |-> [p \in Peers |-> 0],
               accepted |-> 0]
    /\ accepter = [pc |-> "accept", peer |-> NoPeer]
    /\ servers = [w \in HttpWorkers |-> [pc |-> "look", peer |-> NoPeer, requests |-> 0]]
    /\ halt = "none"

QueueMutexFree == \A w \in HttpWorkers : servers[w].pc # "blocking"
-----------------------------------------------------------------------------
\* accept4, and the test of active_ without the mutex.
AcceptHttp(p) ==
    /\ accepter.pc = "accept" /\ http.running
    /\ http.accepted < MaxAccepted
    /\ http' = [http EXCEPT !.accepted = @ + 1]
    /\ accepter' = IF http.active >= MaxConnections THEN accepter ELSE [pc |-> "have", peer |-> p]
    /\ UNCHANGED <<servers, halt>>

\* Mutant: the limit per peer is tested with >.
PeerIsFullOneMore(p) == http.peers[p] > PerPeer

PeerIsFull(p) == http.peers[p] >= PerPeer

\* The client joins the queue, or is closed.
QueueHttp ==
    /\ accepter.pc = "have" /\ QueueMutexFree
    /\ LET p == accepter.peer
       IN IF Len(http.queue) >= QueueLimit \/ PeerIsFull(p)
          THEN /\ accepter' = [pc |-> "accept", peer |-> NoPeer]
               /\ UNCHANGED http
          ELSE /\ http' = [http EXCEPT !.queue = Append(@, p), !.peers[p] = @ + 1,
                                       !.active = @ + 1]
               /\ accepter' = [pc |-> "notify", peer |-> NoPeer]
    /\ UNCHANGED <<servers, halt>>

Asleep == {w \in HttpWorkers : servers[w].pc = "asleep"}

\* Mutant: nobody is notified.
WokenByQueueNone == {servers}

\* notify_one
WokenByQueue ==
    IF Asleep = {} THEN {servers} ELSE {[servers EXCEPT ![w].pc = "look"] : w \in Asleep}

NotifyQueued ==
    /\ accepter.pc = "notify"
    /\ servers' \in WokenByQueue
    /\ accepter' = [accepter EXCEPT !.pc = "accept"]
    /\ UNCHANGED <<http, halt>>

LeaveAccept ==
    /\ accepter.pc = "accept" /\ ~http.running
    /\ accepter' = [accepter EXCEPT !.pc = "gone"]
    /\ UNCHANGED <<http, servers, halt>>
-----------------------------------------------------------------------------
\* A worker takes a client, leaves, or is about to sleep.
TakeHttp(w) ==
    /\ servers[w].pc = "look" /\ QueueMutexFree
    /\ IF http.queue # <<>>
       THEN /\ servers' = [servers EXCEPT ![w] = [pc |-> "serve", peer |-> Head(http.queue),
                                                  requests |-> 0]]
            /\ http' = [http EXCEPT !.queue = Tail(@)]
       ELSE /\ servers' = [servers EXCEPT ![w].pc = IF http.running THEN "blocking" ELSE "gone"]
            /\ UNCHANGED http
    /\ UNCHANGED <<accepter, halt>>

SleepHttp(w) ==
    /\ servers[w].pc = "blocking"
    /\ servers' = [servers EXCEPT ![w].pc = "asleep"]
    /\ UNCHANGED <<http, accepter, halt>>

\* serve: a request is answered and the connection kept.
AnswerHttp(w) ==
    /\ servers[w].pc = "serve" /\ http.running
    /\ servers[w].requests + 1 < MaxRequests
    /\ servers' = [servers EXCEPT ![w].requests = @ + 1]
    /\ UNCHANGED <<http, accepter, halt>>

\* serve returns: the last request, a deadline, an error, or the server stops.
CloseHttp(w) ==
    /\ servers[w].pc = "serve"
    /\ servers' = [servers EXCEPT ![w].pc = "served"]
    /\ UNCHANGED <<http, accepter, halt>>

\* Mutant: the entry is removed although a second connection of the peer lives.
PeersAfterErased(p) == [http.peers EXCEPT ![p] = 0]

PeersAfter(p) == [http.peers EXCEPT ![p] = @ - 1]

ForgetPeer(w) ==
    /\ servers[w].pc = "served" /\ QueueMutexFree
    /\ http' = [http EXCEPT !.peers = PeersAfter(servers[w].peer)]
    /\ servers' = [servers EXCEPT ![w].pc = "forgotten", ![w].peer = NoPeer]
    /\ UNCHANGED <<accepter, halt>>

ReleaseHttp(w) ==
    /\ servers[w].pc = "forgotten"
    /\ http' = [http EXCEPT !.active = @ - 1]
    /\ servers' = [servers EXCEPT ![w].pc = "look", ![w].requests = 0]
    /\ UNCHANGED <<accepter, halt>>
-----------------------------------------------------------------------------
WokenAll == [w \in HttpWorkers |-> IF w \in Asleep THEN [servers[w] EXCEPT !.pc = "look"]
                                   ELSE servers[w]]

\* running_ is set without the mutex; the pool is notified before and after the accept
\* thread is joined.
BeginHalt ==
    /\ halt = "none"
    /\ http' = [http EXCEPT !.running = FALSE]
    /\ halt' = "notify"
    /\ UNCHANGED <<accepter, servers>>

NotifyHalt ==
    /\ \/ halt = "notify" /\ halt' = "accept"
       \/ halt = "accept" /\ accepter.pc = "gone" /\ halt' = "workers"
    /\ servers' = WokenAll
    /\ UNCHANGED <<http, accepter>>

\* Mutant: clients still in the queue are left open.
QueueAfterHaltKept == http.queue

QueueAfterHalt == <<>>

\* The workers are joined and what is left in the queue is closed.
EndHalt ==
    /\ halt = "workers" /\ \A w \in HttpWorkers : servers[w].pc = "gone"
    /\ http' = [http EXCEPT !.queue = QueueAfterHalt, !.peers = [p \in Peers |-> 0]]
    /\ halt' = "stopped"
    /\ UNCHANGED <<accepter, servers>>

ServerStep(w) ==
    TakeHttp(w) \/ SleepHttp(w) \/ AnswerHttp(w) \/ CloseHttp(w) \/ ForgetPeer(w) \/ ReleaseHttp(w)
AccepterStep == QueueHttp \/ NotifyQueued \/ LeaveAccept

HttpNext ==
    \/ \E p \in Peers : AcceptHttp(p)
    \/ AccepterStep
    \/ \E w \in HttpWorkers : ServerStep(w)
    \/ BeginHalt \/ NotifyHalt \/ EndHalt

\* The threads run, and stop() once called goes on; nobody need connect.
HttpFairness ==
    /\ WF_httpVars(AccepterStep) /\ WF_httpVars(NotifyHalt \/ EndHalt)
    /\ \A w \in HttpWorkers : WF_httpVars(ServerStep(w))

HttpSpec == HttpInit /\ [][HttpNext]_httpVars /\ HttpFairness
-----------------------------------------------------------------------------
Serving(p) == {w \in HttpWorkers : servers[w].peer = p}
Queued(p) == {i \in DOMAIN http.queue : http.queue[i] = p}

\* active_ and peer_active_ count the connections that exist, although one is tested
\* without the mutex and both change at different moments: no connection is counted
\* twice or forgotten, and neither limit is ever exceeded.
HttpCountsAreExact ==
    /\ halt # "stopped" =>
          /\ http.active = Len(http.queue)
                 + Cardinality({w \in HttpWorkers : servers[w].pc \in {"serve", "served", "forgotten"}})
          /\ \A p \in Peers : http.peers[p] = Cardinality(Serving(p)) + Cardinality(Queued(p))
    /\ http.active <= MaxConnections /\ \A p \in Peers : http.peers[p] <= PerPeer

\* A burst of clients is served to the last one, or closed by stop(): no worker sleeps
\* while a client waits, whatever the order of notify_one, the check and the sleep.
QueueIsServed == http.queue # <<>> ~> http.queue = <<>>
=============================================================================
