------------------------------ MODULE RequestInv ------------------------------
(***************************************************************************)
(* The inductive invariants of SubmitLanes and RateLimiter and the parts   *)
(* they are made of, with the shapes of steps that RequestProofs reasons   *)
(* about.                                                                  *)
(***************************************************************************)
EXTENDS SubmitLanes, RateLimiter

-----------------------------------------------------------------------------
(* SubmitLanes *)

RequestStates == [conn : Connections, id : Ids, lane : Lanes,
                  state : {"none", "admitting", "queued", "working", "handled",
                           "answered", "refused", "dropped"}]

\* What is in a queue is queued for that lane, and the reverse.
QueuesAgree ==
    /\ \A l \in Lanes : \A k \in 1..Len(queues[l]) :
          requests[queues[l][k]].state = "queued" /\ requests[queues[l][k]].lane = l
    /\ \A r \in Requests : requests[r].state = "queued" =>
          \E k \in 1..Len(queues[requests[r].lane]) : queues[requests[r].lane][k] = r

Holds(w) == workers[w].pc \in {"working", "handled"}

\* A worker has a request of its own; a result is of a handled request that no worker has.
WorkersAgree ==
    /\ \A w \in AllWorkers : Holds(w) =>
          /\ workers[w].request \in Requests
          /\ requests[workers[w].request].state = workers[w].pc
          /\ workers[w].request \notin completed
    /\ \A v, w \in AllWorkers : Holds(v) /\ Holds(w) /\ workers[v].request = workers[w].request => v = w
    /\ \A r \in completed : requests[r].state = "handled"

\* A worker goes when the server stops and its queue is empty, which it then stays.
GoneAgree == \A w \in AllWorkers : workers[w].pc = "gone" => ~running /\ queues[Lane(w)] = <<>>

LoopAgrees ==
    /\ loop.pc = "submit" => loop.request \in Requests /\ requests[loop.request].state = "admitting"
    /\ \A r \in Requests : requests[r].state = "admitting" => loop.pc = "submit" /\ loop.request = r
    /\ stop # "none" => ~running

\* The requests of c that are alive.
Alive(c) == {r \in Requests : requests[r].conn = c /\ requests[r].state \in {"admitting", "queued", "working", "handled"}}

ConnAgrees(c) ==
    conns[c].open =>
        /\ conns[c].pending = Cardinality(InFlight(c))
        /\ running =>
              /\ \A r \in Alive(c) : requests[r].id \in conns[c].ids
              /\ \A i \in conns[c].ids : \E r \in Alive(c) : requests[r].id = i
              /\ \A q, r \in Alive(c) : requests[q].id = requests[r].id => q = r

LanesInv ==
    /\ LanesTypeOK
    /\ QueuesAgree
    /\ WorkersAgree
    /\ GoneAgree
    /\ LoopAgrees
    /\ \A c \in Connections : ConnAgrees(c)

Live == {"admitting", "queued", "working", "handled"}

-----------------------------------------------------------------------------
(* RateLimiter *)

\* A bucket that is full once refilled.
Full(b) == b.tokens + b.age * Rate >= Burst * Grain

BucketStates == [tokens : 0..(Burst * Grain), age : 0..Oldest]

\* A peer has the bucket it would have in a table of any size, or none, and then
\* that bucket would be full.
RateTable(bs) == \A p \in Askers : bs[p] = fair[p] \/ (bs[p] = NoBucket /\ Full(fair[p]))

RateInv ==
    /\ fair \in [Askers -> BucketStates]
    /\ buckets \in [Askers -> BucketStates \cup {NoBucket}]
    /\ RateTable(buckets)

=============================================================================
