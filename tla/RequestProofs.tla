---------------------------- MODULE RequestProofs -----------------------------
(***************************************************************************)
(* Proofs about what the server does with a request before it is handled:  *)
(* the lanes of submissions and the rate limiter, for any limits.          *)
(***************************************************************************)
EXTENDS RequestInv, FiniteSetTheorems, TLAPS

\* Leaves that need arithmetic or extensionality name SMT; the others are for Zenon.
USE ZenonT(30), SMTT(30)

-----------------------------------------------------------------------------
LEMMA EndedType ==
    ASSUME NEW c \in Connections,
           NEW o \in {"answered", "refused", "dropped"}
    PROVE  /\ NewRequest \in RequestStates /\ NewRequest.state = "none"
           /\ Ended(c, o) \in RequestStates
           /\ Ended(c, o).conn = c /\ Ended(c, o).state = o
<1>1. PICK d \in Connections : d = CHOOSE x \in Connections : TRUE  BY LanesAssumption
<1>2. PICK i \in Ids : i = CHOOSE x \in Ids : TRUE  BY LanesAssumption
<1>. QED  BY <1>1, <1>2 DEF Ended, NewRequest, RequestStates, Lanes

\* Appending what a sequence does not have keeps its elements distinct, and so does Tail.
LEMMA AppendDistinct ==
    ASSUME NEW S, NEW q \in Seq(S), NEW x \in S, IsInjective(q),
           \A k \in 1..Len(q) : q[k] # x
    PROVE  /\ Append(q, x) \in Seq(S) /\ IsInjective(Append(q, x))
           /\ Len(Append(q, x)) = Len(q) + 1 /\ Append(q, x)[Len(q) + 1] = x
           /\ \A k \in 1..Len(q) : Append(q, x)[k] = q[k]
<1>1. \A k \in 1..Len(Append(q, x)) : Append(q, x)[k] = IF k <= Len(q) THEN q[k] ELSE x  BY SMTT(30)
<1>2. /\ Append(q, x) \in Seq(S) /\ Len(Append(q, x)) = Len(q) + 1 /\ Append(q, x)[Len(q) + 1] = x
      /\ \A k \in 1..Len(q) : Append(q, x)[k] = q[k]
  BY SMTT(30)
<1>3. DOMAIN Append(q, x) = 1..(Len(q) + 1) /\ DOMAIN q = 1..Len(q)  BY SMTT(30)
<1>4. \A a, b \in 1..(Len(q) + 1) : Append(q, x)[a] = Append(q, x)[b] => a = b
  <2>1. \A a, b \in 1..Len(q) : q[a] = q[b] => a = b  BY <1>3 DEF IsInjective
  <2>. QED  BY SMTT(30), <2>1, <1>1, <1>2
<1>. QED  BY <1>2, <1>3, <1>4 DEF IsInjective

LEMMA TailDistinct ==
    ASSUME NEW S, NEW q \in Seq(S), q # <<>>, IsInjective(q)
    PROVE  /\ Head(q) \in S /\ Head(q) = q[1] /\ Len(q) >= 1
           /\ Tail(q) \in Seq(S) /\ IsInjective(Tail(q)) /\ Len(Tail(q)) = Len(q) - 1
           /\ \A k \in 1..(Len(q) - 1) : Tail(q)[k] = q[k + 1]
           /\ \A k \in 1..(Len(q) - 1) : Tail(q)[k] # Head(q)
<1>1. /\ Head(q) \in S /\ Head(q) = q[1] /\ Len(q) >= 1
      /\ Tail(q) \in Seq(S) /\ Len(Tail(q)) = Len(q) - 1
      /\ \A k \in 1..(Len(q) - 1) : Tail(q)[k] = q[k + 1]
  BY SMTT(30)
<1>2. DOMAIN Tail(q) = 1..(Len(q) - 1) /\ DOMAIN q = 1..Len(q) /\ Len(q) \in Nat  BY SMTT(30), <1>1
<1>3. \A a, b \in 1..Len(q) : q[a] = q[b] => a = b  BY <1>2 DEF IsInjective
<1>4. \A a, b \in 1..(Len(q) - 1) : Tail(q)[a] = Tail(q)[b] => a = b
  BY SMTT(30), <1>1, <1>2, <1>3
<1>5. \A k \in 1..(Len(q) - 1) : Tail(q)[k] # Head(q)  BY SMTT(30), <1>1, <1>2, <1>3
<1>. QED  BY <1>1, <1>2, <1>4, <1>5 DEF IsInjective

LEMMA NotifiedFacts ==
    ASSUME LanesTypeOK, workers' = Notified(workers)
    PROVE  /\ workers' \in [AllWorkers -> [pc : {"check", "blocking", "waiting", "working", "handled", "gone"},
                                           request : Requests \cup {NoRequest}]]
           /\ \A w \in AllWorkers : Holds(w)' <=> Holds(w)
           /\ \A w \in AllWorkers : workers'[w].request = workers[w].request
           /\ \A w \in AllWorkers : Holds(w) => workers'[w].pc = workers[w].pc
           /\ \A w \in AllWorkers : workers'[w].pc = "gone" <=> workers[w].pc = "gone"
<1>1. \A w \in AllWorkers : workers[w] \in [pc : {"check", "blocking", "waiting", "working", "handled", "gone"},
                                            request : Requests \cup {NoRequest}]
  BY DEF LanesTypeOK
<1>. QED  BY <1>1 DEF Notified, Holds

\* The limits of Busy leave room for one more.
LEMMA Room ==
    ASSUME NEW a \in Nat, NEW b \in Nat, NEW p \in 0..MaxPerConnection,
           ~(p >= MaxPerConnection), ~(a + b >= MaxPending)
    PROVE  /\ p + 1 \in 0..MaxPerConnection /\ a + b + 1 <= MaxPending
           /\ a + 1 + b <= MaxPending /\ a + (b + 1) <= MaxPending
           /\ ~(a >= MaxPending - CandidateReserve) => a + 1 <= MaxPending - CandidateReserve
<1>1. MaxPending \in Nat /\ CandidateReserve \in Nat /\ MaxPerConnection \in Nat  BY SMTT(30), LanesAssumption
<1>. QED  BY SMTT(30), <1>1

LEMMA LessRoom ==
    ASSUME NEW a \in Nat, NEW b \in Nat, NEW x \in Nat, NEW y \in Nat, a <= x, b <= y,
           x + y <= MaxPending, x <= MaxPending - CandidateReserve
    PROVE  a + b <= MaxPending /\ a <= MaxPending - CandidateReserve
<1>1. MaxPending \in Nat /\ CandidateReserve \in Nat  BY SMTT(30), LanesAssumption
<1>. QED  BY SMTT(30), <1>1

LEMMA RequestsFinite == IsFiniteSet(Requests)
BY SMTT(30), LanesAssumption, FS_Interval DEF Requests

LEMMA InitLanes == Init => LanesInv
<1>. SUFFICES ASSUME Init PROVE LanesInv  OBVIOUS
<1>1. NewRequest \in RequestStates /\ NewRequest.state = "none"  BY EndedType, LanesAssumption
<1>2. \A l \in Lanes : IsInjective(queues[l]) /\ Len(queues[l]) = 0 /\ queues[l] \in Seq(Requests)
  BY SMTT(30) DEF Init, Lanes, IsInjective
<1>3. LanesTypeOK
  <2>1. Len(queues.ordinary) = 0 /\ Len(queues.candidate) = 0  BY DEF Init, Lanes
  <2>2. 0 \in 0..MaxPerConnection /\ MaxPending \in Nat /\ CandidateReserve <= MaxPending /\ CandidateReserve \in Nat
    BY SMTT(30), LanesAssumption
  <2>3. requests \in [Requests -> RequestStates]  BY <1>1 DEF Init
  <2>4. Len(queues.ordinary) + Len(queues.candidate) <= MaxPending /\ Len(queues.ordinary) <= MaxPending - CandidateReserve
    BY SMTT(30), <2>1, <2>2
  <2>5. /\ loop \in [pc : {"poll", "submit", "gone"}, request : Requests \cup {NoRequest}]
        /\ workers \in [AllWorkers -> [pc : {"check", "blocking", "waiting", "working", "handled", "gone"},
                                       request : Requests \cup {NoRequest}]]
        /\ conns \in [Connections -> [open : BOOLEAN, pending : 0..MaxPerConnection, ids : SUBSET Ids]]
    BY <2>2 DEF Init
  <2>. QED  BY <1>2, <2>3, <2>4, <2>5 DEF Init, LanesTypeOK, RequestStates
<1>4. QueuesAgree  BY SMTT(30), <1>1, <1>2 DEF Init, QueuesAgree
<1>5. WorkersAgree /\ GoneAgree
  <2>1. \A w \in AllWorkers : workers[w].pc = "check"  BY DEF Init
  <2>2. \A w \in AllWorkers : ~Holds(w)  BY <2>1 DEF Holds
  <2>. QED  BY <2>1, <2>2 DEF Init, WorkersAgree, GoneAgree
<1>7. LoopAgrees
  <2>1. \A r \in Requests : requests[r].state = "none"  BY <1>1 DEF Init
  <2>. QED  BY <2>1 DEF Init, LoopAgrees
<1>6. ASSUME NEW c \in Connections PROVE ConnAgrees(c)
  <2>1. InFlight(c) = {} /\ Alive(c) = {}  BY <1>1 DEF Init, InFlight, Alive
  <2>. QED  BY <2>1, FS_EmptySet DEF ConnAgrees, Init
<1>. QED  BY <1>3, <1>4, <1>5, <1>6, <1>7 DEF LanesInv

-----------------------------------------------------------------------------
\* What one changed request leaves of the others.
LEMMA RequestEdit ==
    ASSUME LanesTypeOK, NEW r \in Requests, NEW n \in RequestStates,
           requests' = [requests EXCEPT ![r] = n]
    PROVE  /\ requests' \in [Requests -> RequestStates]
           /\ requests'[r] = n
           /\ \A q \in Requests : q # r => requests'[q] = requests[q]
BY DEF LanesTypeOK, RequestStates

LEMMA StateEdit ==
    ASSUME LanesTypeOK, NEW r \in Requests,
           NEW x \in {"queued", "working", "handled"},
           requests' = [requests EXCEPT ![r].state = x]
    PROVE  /\ requests' \in [Requests -> RequestStates]
           /\ requests'[r].state = x /\ requests'[r].conn = requests[r].conn
           /\ requests'[r].id = requests[r].id /\ requests'[r].lane = requests[r].lane
           /\ \A q \in Requests : q # r => requests'[q] = requests[q]
BY DEF LanesTypeOK, RequestStates

\* A connection whose requests in flight, ids and live requests are the same.
LEMMA ConnSame ==
    ASSUME NEW c \in Connections, ConnAgrees(c), running' => running,
           conns'[c].open => conns'[c] = conns[c],
           \A r \in Requests : requests'[r] = requests[r]
                               \/ /\ requests'[r].conn = requests[r].conn /\ requests'[r].id = requests[r].id
                                  /\ requests[r].state \in {"queued", "working", "handled"}
                                  /\ requests'[r].state \in {"queued", "working", "handled"}
                               \/ /\ requests[r].state \notin Live \/ requests[r].conn # c
                                  /\ requests'[r].state \notin Live \/ requests'[r].conn # c
    PROVE  ConnAgrees(c)'
<1>1. InFlight(c)' = InFlight(c)  BY DEF InFlight, Live
<1>2. Alive(c)' = Alive(c)  BY DEF Alive, Live
<1>3. \A r \in Alive(c) : requests'[r].id = requests[r].id  BY DEF Alive, Live
<1>. QED  BY SMTT(30), <1>1, <1>2, <1>3 DEF ConnAgrees

\* Nothing of a worker's has changed but whether it waits.
LEMMA WorkersSame ==
    ASSUME LanesInv,
           \A w \in AllWorkers : Holds(w)' <=> Holds(w),
           \A w \in AllWorkers : workers'[w].request = workers[w].request,
           \A w \in AllWorkers : Holds(w) => workers'[w].pc = workers[w].pc,
           \A r \in Requests : requests[r].state \in {"working", "handled"} => requests'[r] = requests[r],
           completed' = completed
    PROVE  WorkersAgree'
<1>1. WorkersAgree /\ completed \subseteq Requests  BY DEF LanesInv, LanesTypeOK
<1>2. ASSUME NEW w \in AllWorkers, Holds(w)'
      PROVE  /\ workers'[w].request \in Requests
             /\ requests'[workers'[w].request].state = workers'[w].pc
             /\ workers'[w].request \notin completed'
  <2>1. workers[w].pc \in {"working", "handled"} /\ workers[w].request \in Requests
        /\ requests[workers[w].request].state = workers[w].pc /\ workers[w].request \notin completed
        /\ workers'[w].pc = workers[w].pc /\ workers'[w].request = workers[w].request
    BY <1>1, <1>2 DEF WorkersAgree, Holds
  <2>. QED  BY <2>1
<1>3. \A r \in completed' : requests'[r].state = "handled"  BY <1>1 DEF WorkersAgree
<1>4. \A v, w \in AllWorkers : Holds(v)' /\ Holds(w)' /\ workers'[v].request = workers'[w].request => v = w
  BY <1>1 DEF WorkersAgree
<1>. QED  BY <1>2, <1>3, <1>4 DEF WorkersAgree, Holds

-----------------------------------------------------------------------------
\* The request's place in a connection: one taken on, one that left.
LEMMA ReceiveInv ==
    ASSUME LanesInv, NEW r \in Requests, NEW c \in Connections, NEW i \in Ids, NEW l \in Lanes,
           Receive(r, c, i, l)
    PROVE  LanesInv'
<1>1. /\ LanesTypeOK /\ QueuesAgree /\ WorkersAgree /\ GoneAgree /\ LoopAgrees
      /\ \A d \in Connections : ConnAgrees(d)
  BY DEF LanesInv
<1>2. /\ loop.pc = "poll" /\ conns[c].open /\ requests[r].state = "none" /\ running
      /\ UNCHANGED <<running, queues, workers, completed, stop>>
  <2>1. r >= r  BY SMTT(30) DEF Requests
  <2>. QED  BY <2>1 DEF Receive
<1>3. \A q \in Requests : requests[q].state # "admitting"  BY <1>1, <1>2 DEF LoopAgrees
<1>4. ASSUME NEW n \in RequestStates, requests' = [requests EXCEPT ![r] = n], n.state \in {"refused", "admitting"}
      PROVE  /\ requests' \in [Requests -> RequestStates] /\ requests'[r] = n
             /\ \A q \in Requests : q # r => requests'[q] = requests[q]
             /\ QueuesAgree' /\ WorkersAgree' /\ GoneAgree'
  <2>1. /\ requests' \in [Requests -> RequestStates] /\ requests'[r] = n
        /\ \A q \in Requests : q # r => requests'[q] = requests[q]
    BY <1>1, <1>4, RequestEdit
  <2>2. QueuesAgree'
    <3>1. \A m \in Lanes : \A k \in 1..Len(queues[m]) : queues[m][k] \in Requests /\ queues[m][k] # r
      BY SMTT(30), <1>1, <1>2 DEF QueuesAgree, LanesTypeOK
    <3>2. \A m \in Lanes : \A k \in 1..Len(queues[m]) : requests'[queues[m][k]] = requests[queues[m][k]]
      BY <2>1, <3>1
    <3>3. \A q \in Requests : requests'[q].state = "queued" => q # r /\ requests'[q] = requests[q]
      BY <1>4, <2>1
    <3>4. QueuesAgree /\ queues' = queues  BY <1>1, <1>2
    <3>. QED  BY SMTT(30), <3>2, <3>3, <3>4 DEF QueuesAgree
  <2>3. WorkersAgree'
    <3>1. \A q \in Requests : requests[q].state \in {"working", "handled"} => requests'[q] = requests[q]
      BY <1>2, <2>1
    <3>2. \A w \in AllWorkers : Holds(w)' <=> Holds(w)  BY <1>2 DEF Holds
    <3>. QED  BY <1>2, <3>1, <3>2, WorkersSame
  <2>4. GoneAgree'  BY <1>1, <1>2 DEF GoneAgree
  <2>. QED  BY <2>1, <2>2, <2>3, <2>4
<1>5. CASE i \in conns[c].ids
  <2>1. /\ requests' = [requests EXCEPT ![r] = Ended(c, "refused")] /\ UNCHANGED <<conns, loop>>
        /\ Ended(c, "refused") \in RequestStates /\ Ended(c, "refused").state = "refused"
    BY <1>5, EndedType DEF Receive
  <2>2. /\ requests' \in [Requests -> RequestStates] /\ requests'[r].state = "refused"
        /\ \A q \in Requests : q # r => requests'[q] = requests[q]
        /\ QueuesAgree' /\ WorkersAgree' /\ GoneAgree'
    BY <2>1, <1>4
  <2>3. LanesTypeOK'  BY <1>1, <1>2, <2>1, <2>2 DEF LanesTypeOK, RequestStates
  <2>4. LoopAgrees'  BY <1>1, <1>2, <1>3, <2>1, <2>2 DEF LoopAgrees
  <2>5. ASSUME NEW d \in Connections PROVE ConnAgrees(d)'
    <3>1. \A q \in Requests : requests'[q] = requests[q]
                              \/ /\ requests[q].state \notin Live /\ requests'[q].state \notin Live
      BY <1>2, <2>2 DEF Live
    <3>. QED  BY <1>1, <1>2, <2>1, <3>1, ConnSame
  <2>. QED  BY <2>2, <2>3, <2>4, <2>5 DEF LanesInv
<1>6. CASE i \notin conns[c].ids
  <2>. DEFINE n == [conn |-> c, id |-> i, lane |-> l, state |-> "admitting"]
  <2>1. /\ requests' = [requests EXCEPT ![r] = n]
        /\ conns' = [conns EXCEPT ![c].ids = @ \cup {i}]
        /\ loop' = [pc |-> "submit", request |-> r]
    BY <1>6 DEF Receive
  <2>2. n \in RequestStates /\ n.state = "admitting" /\ n.conn = c /\ n.id = i  BY DEF RequestStates
  <2>3. /\ requests' \in [Requests -> RequestStates]
        /\ requests'[r].state = "admitting" /\ requests'[r].conn = c /\ requests'[r].id = i
        /\ \A q \in Requests : q # r => requests'[q] = requests[q]
        /\ QueuesAgree' /\ WorkersAgree' /\ GoneAgree'
    BY <1>4, <2>1, <2>2
  <2>. HIDE DEF n
  <2>4. /\ conns' \in [Connections -> [open : BOOLEAN, pending : 0..MaxPerConnection, ids : SUBSET Ids]]
        /\ conns'[c].pending = conns[c].pending /\ conns'[c].ids = conns[c].ids \cup {i}
        /\ \A d \in Connections : d # c => conns'[d] = conns[d]
    BY <1>1, <2>1 DEF LanesTypeOK
  <2>5. LanesTypeOK'
    <3>1. loop' \in [pc : {"poll", "submit", "gone"}, request : Requests \cup {NoRequest}]  BY <2>1
    <3>. QED  BY <1>1, <1>2, <2>3, <2>4, <3>1 DEF LanesTypeOK, RequestStates
  <2>6. LoopAgrees'  BY <1>1, <1>2, <1>3, <2>1, <2>3 DEF LoopAgrees
  <2>7. ASSUME NEW d \in Connections, d # c PROVE ConnAgrees(d)'
    <3>1. \A q \in Requests : requests'[q] = requests[q]
                              \/ /\ requests[q].state \notin Live
                                 /\ requests'[q].conn # d
      BY <1>2, <2>3, <2>7 DEF Live
    <3>. QED  BY <1>1, <1>2, <2>4, <2>7, <3>1, ConnSame
  <2>8. ConnAgrees(c)'
    <3>1. InFlight(c)' = InFlight(c)  BY <1>2, <2>3 DEF InFlight
    <3>2. Alive(c)' = Alive(c) \cup {r} /\ r \notin Alive(c) /\ \A q \in Alive(c) : requests'[q] = requests[q]
      BY <1>2, <2>3 DEF Alive
    <3>3. /\ conns[c].pending = Cardinality(InFlight(c))
          /\ \A q \in Alive(c) : requests[q].id \in conns[c].ids
          /\ \A j \in conns[c].ids : \E q \in Alive(c) : requests[q].id = j
          /\ \A p, q \in Alive(c) : requests[p].id = requests[q].id => p = q
      BY <1>1, <1>2 DEF ConnAgrees
    <3>4. /\ \A q \in Alive(c)' : requests'[q].id \in conns'[c].ids
          /\ \A j \in conns'[c].ids : \E q \in Alive(c)' : requests'[q].id = j
          /\ \A p, q \in Alive(c)' : requests'[p].id = requests'[q].id => p = q
      BY SMTT(30), <1>6, <2>3, <2>4, <3>2, <3>3
    <3>. QED  BY <2>4, <3>1, <3>3, <3>4 DEF ConnAgrees
  <2>. QED  BY <2>3, <2>5, <2>6, <2>7, <2>8 DEF LanesInv
<1>. QED  BY <1>5, <1>6

-----------------------------------------------------------------------------
\* A request that leaves the loop without being admitted.
LEMMA LeftInv ==
    ASSUME LanesInv, loop.pc = "submit", NEW n \in RequestStates, n.state \in {"refused", "dropped"},
           requests' = [requests EXCEPT ![loop.request] = n],
           loop' = [pc |-> "poll", request |-> NoRequest],
           UNCHANGED <<running, queues, workers, completed, stop>>
    PROVE  /\ requests' \in [Requests -> RequestStates] /\ requests'[loop.request] = n
           /\ \A q \in Requests : q # loop.request => requests'[q] = requests[q]
           /\ loop' \in [pc : {"poll", "submit", "gone"}, request : Requests \cup {NoRequest}]
           /\ QueuesAgree' /\ WorkersAgree' /\ GoneAgree' /\ LoopAgrees'
<1>1. /\ LanesTypeOK /\ QueuesAgree /\ WorkersAgree /\ GoneAgree /\ LoopAgrees
  BY DEF LanesInv
<1>2. PICK r \in Requests : r = loop.request /\ requests[r].state = "admitting"
  BY <1>1 DEF LoopAgrees
<1>3. /\ requests' \in [Requests -> RequestStates] /\ requests'[r] = n
      /\ \A q \in Requests : q # r => requests'[q] = requests[q]
  BY <1>1, <1>2, RequestEdit
<1>4. QueuesAgree'
  <2>1. \A m \in Lanes : \A k \in 1..Len(queues[m]) : queues[m][k] \in Requests /\ queues[m][k] # r
    BY SMTT(30), <1>1, <1>2 DEF QueuesAgree, LanesTypeOK
  <2>. QED  BY SMTT(30), <1>1, <1>3, <2>1 DEF QueuesAgree
<1>5. WorkersAgree'
  <2>1. \A q \in Requests : requests[q].state \in {"working", "handled"} => requests'[q] = requests[q]
    BY <1>2, <1>3
  <2>2. \A w \in AllWorkers : Holds(w)' <=> Holds(w)  BY DEF Holds
  <2>. QED  BY <2>1, <2>2, WorkersSame
<1>6. GoneAgree'  BY <1>1 DEF GoneAgree
<1>7. LoopAgrees'
  <2>1. \A q \in Requests : requests'[q].state # "admitting"  BY <1>1, <1>2, <1>3 DEF LoopAgrees
  <2>. QED  BY <1>1, <2>1 DEF LoopAgrees
<1>. QED  BY <1>2, <1>3, <1>4, <1>5, <1>6, <1>7 DEF NoRequest

LEMMA HandleSubmitInv == LanesInv /\ HandleSubmit => LanesInv'
<1>. SUFFICES ASSUME LanesInv, HandleSubmit PROVE LanesInv'  OBVIOUS
<1>1. /\ LanesTypeOK /\ QueuesAgree /\ WorkersAgree /\ GoneAgree /\ LoopAgrees
      /\ \A d \in Connections : ConnAgrees(d)
  BY DEF LanesInv
<1>2. /\ loop.pc = "submit" /\ loop' = [pc |-> "poll", request |-> NoRequest]
      /\ UNCHANGED <<running, completed, stop>>
  BY DEF HandleSubmit
<1>3. PICK r \in Requests : r = loop.request /\ requests[r].state = "admitting"
  BY <1>1, <1>2 DEF LoopAgrees
<1>4. PICK c \in Connections : c = requests[r].conn  BY <1>1 DEF LanesTypeOK
<1>5. PICK l \in Lanes : l = requests[r].lane  BY <1>1 DEF LanesTypeOK
<1>6. CASE ~running
  <2>1. /\ requests' = [requests EXCEPT ![loop.request] = Ended(c, "dropped")]
        /\ UNCHANGED <<conns, queues, workers>>
        /\ Ended(c, "dropped") \in RequestStates /\ Ended(c, "dropped").state = "dropped"
    BY <1>3, <1>4, <1>6, EndedType DEF HandleSubmit, AdmissionClosed
  <2>2. /\ requests' \in [Requests -> RequestStates] /\ requests'[r].state = "dropped"
        /\ \A q \in Requests : q # r => requests'[q] = requests[q]
        /\ loop' \in [pc : {"poll", "submit", "gone"}, request : Requests \cup {NoRequest}]
        /\ QueuesAgree' /\ WorkersAgree' /\ GoneAgree' /\ LoopAgrees'
    BY <1>2, <1>3, <2>1, LeftInv
  <2>3. LanesTypeOK'  BY <1>1, <1>2, <2>1, <2>2 DEF LanesTypeOK, RequestStates
  <2>4. ASSUME NEW d \in Connections PROVE ConnAgrees(d)'
    <3>1. InFlight(d)' = InFlight(d)  BY <1>3, <2>2 DEF InFlight
    <3>. QED  BY <1>1, <1>2, <1>6, <2>1, <3>1 DEF ConnAgrees
  <2>. QED  BY <2>2, <2>3, <2>4 DEF LanesInv
<1>7. CASE running /\ Busy(l, c)
  <2>1. /\ requests' = [requests EXCEPT ![loop.request] = Ended(c, "refused")]
        /\ conns' = [conns EXCEPT ![c].ids = @ \ {requests[r].id}]
        /\ UNCHANGED <<queues, workers>>
        /\ Ended(c, "refused") \in RequestStates /\ Ended(c, "refused").state = "refused"
    BY <1>3, <1>4, <1>5, <1>7, EndedType DEF HandleSubmit, AdmissionClosed, Refused
  <2>2. /\ requests' \in [Requests -> RequestStates] /\ requests'[r].state = "refused"
        /\ \A q \in Requests : q # r => requests'[q] = requests[q]
        /\ loop' \in [pc : {"poll", "submit", "gone"}, request : Requests \cup {NoRequest}]
        /\ QueuesAgree' /\ WorkersAgree' /\ GoneAgree' /\ LoopAgrees'
    BY <1>2, <1>3, <2>1, LeftInv
  <2>3. /\ conns' \in [Connections -> [open : BOOLEAN, pending : 0..MaxPerConnection, ids : SUBSET Ids]]
        /\ conns'[c].pending = conns[c].pending /\ conns'[c].ids = conns[c].ids \ {requests[r].id}
        /\ conns'[c].open = conns[c].open
        /\ \A d \in Connections : d # c => conns'[d] = conns[d]
    BY <1>1, <2>1 DEF LanesTypeOK
  <2>4. LanesTypeOK'  BY <1>1, <1>2, <2>1, <2>2, <2>3 DEF LanesTypeOK, RequestStates
  <2>5. ASSUME NEW d \in Connections, d # c PROVE ConnAgrees(d)'
    <3>1. \A q \in Requests : requests'[q] = requests[q]
                              \/ /\ requests[q].conn # d
                                 /\ requests'[q].state \notin Live
      BY <1>3, <1>4, <2>2, <2>5 DEF Live
    <3>. QED  BY <1>1, <1>2, <2>3, <2>5, <3>1, ConnSame
  <2>6. ConnAgrees(c)'
    <3>. SUFFICES ASSUME conns[c].open PROVE ConnAgrees(c)'  BY <2>3 DEF ConnAgrees
    <3>1. InFlight(c)' = InFlight(c)  BY <1>3, <2>2 DEF InFlight
    <3>2. Alive(c)' = Alive(c) \ {r} /\ r \in Alive(c) /\ \A q \in Alive(c)' : requests'[q] = requests[q]
      BY <1>3, <1>4, <2>2 DEF Alive
    <3>3. /\ conns[c].pending = Cardinality(InFlight(c))
          /\ \A q \in Alive(c) : requests[q].id \in conns[c].ids
          /\ \A j \in conns[c].ids : \E q \in Alive(c) : requests[q].id = j
          /\ \A p, q \in Alive(c) : requests[p].id = requests[q].id => p = q
      BY <1>1, <1>7 DEF ConnAgrees
    <3>4. /\ \A q \in Alive(c)' : requests'[q].id \in conns'[c].ids
          /\ \A j \in conns'[c].ids : \E q \in Alive(c)' : requests'[q].id = j
          /\ \A p, q \in Alive(c)' : requests'[p].id = requests'[q].id => p = q
      BY SMTT(30), <2>3, <3>2, <3>3
    <3>. QED  BY <2>3, <3>1, <3>3, <3>4 DEF ConnAgrees
  <2>. QED  BY <2>2, <2>4, <2>5, <2>6 DEF LanesInv
<1>8. CASE running /\ ~Busy(l, c)
  <2>1. /\ requests' = [requests EXCEPT ![r].state = "queued"]
        /\ conns' = [conns EXCEPT ![c].pending = @ + 1]
        /\ queues' = [queues EXCEPT ![l] = Append(@, r)]
        /\ workers' = Notified(workers)
    BY <1>3, <1>4, <1>5, <1>8 DEF HandleSubmit, AdmissionClosed, WakeWorkers
  <2>2. /\ requests' \in [Requests -> RequestStates]
        /\ requests'[r].state = "queued" /\ requests'[r].conn = c
        /\ requests'[r].id = requests[r].id /\ requests'[r].lane = l
        /\ \A q \in Requests : q # r => requests'[q] = requests[q]
    BY <1>1, <1>4, <1>5, <2>1, StateEdit
  <2>3. /\ workers' \in [AllWorkers -> [pc : {"check", "blocking", "waiting", "working", "handled", "gone"},
                                        request : Requests \cup {NoRequest}]]
        /\ \A w \in AllWorkers : Holds(w)' <=> Holds(w)
        /\ \A w \in AllWorkers : workers'[w].request = workers[w].request
        /\ \A w \in AllWorkers : Holds(w) => workers'[w].pc = workers[w].pc
        /\ \A w \in AllWorkers : workers'[w].pc = "gone" <=> workers[w].pc = "gone"
    BY <1>1, <2>1, NotifiedFacts
  <2>4. /\ conns[c].pending + 1 \in 0..MaxPerConnection
        /\ (Len(queues.ordinary) + 1) + Len(queues.candidate) <= MaxPending
        /\ Len(queues.ordinary) + (Len(queues.candidate) + 1) <= MaxPending
        /\ l = "ordinary" => Len(queues.ordinary) + 1 <= MaxPending - CandidateReserve
    <3>1. conns[c].pending \in 0..MaxPerConnection  BY <1>1 DEF LanesTypeOK
    <3>2. Len(queues.ordinary) \in Nat /\ Len(queues.candidate) \in Nat  BY SMTT(30), <1>1 DEF LanesTypeOK, Lanes
    <3>3. /\ ~(conns[c].pending >= MaxPerConnection)
          /\ ~(Len(queues.ordinary) + Len(queues.candidate) >= MaxPending)
          /\ l = "ordinary" => ~(Len(queues.ordinary) >= MaxPending - CandidateReserve)
      BY <1>8 DEF Busy
    <3>. QED  BY <3>1, <3>2, <3>3, Room
  <2>5. /\ conns' \in [Connections -> [open : BOOLEAN, pending : 0..MaxPerConnection, ids : SUBSET Ids]]
        /\ conns'[c].pending = conns[c].pending + 1 /\ conns'[c].ids = conns[c].ids
        /\ conns'[c].open = conns[c].open
        /\ \A d \in Connections : d # c => conns'[d] = conns[d]
    BY <1>1, <2>1, <2>4 DEF LanesTypeOK
  <2>6. /\ \A m \in Lanes : \A k \in 1..Len(queues[m]) : queues[m][k] \in Requests /\ queues[m][k] # r
        /\ queues[l] \in Seq(Requests) /\ IsInjective(queues[l])
    BY SMTT(30), <1>1, <1>3 DEF QueuesAgree, LanesTypeOK
  <2>7. /\ queues'[l] = Append(queues[l], r) /\ queues' \in [Lanes -> Seq(Requests)]
        /\ \A m \in Lanes : m # l => queues'[m] = queues[m]
    BY SMTT(30), <1>1, <2>1 DEF LanesTypeOK
  <2>8. /\ IsInjective(queues'[l])
        /\ Len(queues'[l]) = Len(queues[l]) + 1 /\ queues'[l][Len(queues[l]) + 1] = r
        /\ \A k \in 1..Len(queues[l]) : queues'[l][k] = queues[l][k]
    BY SMTT(30), <2>6, <2>7, AppendDistinct
  <2>9. LanesTypeOK'
    <3>1. loop' \in [pc : {"poll", "submit", "gone"}, request : Requests \cup {NoRequest}]  BY <1>2
    <3>2. \A m \in Lanes : IsInjective(queues'[m])  BY <1>1, <2>7, <2>8 DEF LanesTypeOK
    <3>3. /\ Len(queues'.ordinary) + Len(queues'.candidate) <= MaxPending
          /\ Len(queues'.ordinary) <= MaxPending - CandidateReserve
      <4>1. Len(queues.ordinary) \in Nat /\ Len(queues.candidate) \in Nat
            /\ Len(queues.ordinary) <= MaxPending - CandidateReserve
        BY SMTT(30), <1>1 DEF LanesTypeOK, Lanes
      <4>2. CASE l = "ordinary"
        <5>1. Len(queues'.ordinary) = Len(queues.ordinary) + 1 /\ Len(queues'.candidate) = Len(queues.candidate)
          BY <4>2, <2>7, <2>8 DEF Lanes
        <5>. QED  BY <4>2, <5>1, <2>4
      <4>3. CASE l = "candidate"
        <5>1. Len(queues'.ordinary) = Len(queues.ordinary) /\ Len(queues'.candidate) = Len(queues.candidate) + 1
          BY <4>3, <2>7, <2>8 DEF Lanes
        <5>. QED  BY <4>1, <5>1, <2>4
      <4>. QED  BY <4>2, <4>3 DEF Lanes
    <3>. QED  BY <1>1, <1>2, <2>2, <2>3, <2>5, <2>7, <3>1, <3>2, <3>3 DEF LanesTypeOK, RequestStates
  <2>10. QueuesAgree'
    <3>1. ASSUME NEW m \in Lanes, NEW k \in 1..Len(queues'[m])
          PROVE  requests'[queues'[m][k]].state = "queued" /\ requests'[queues'[m][k]].lane = m
      <4>1. CASE m # l
        <5>1. queues'[m] = queues[m] /\ k \in 1..Len(queues[m])  BY <4>1, <2>7
        <5>2. queues[m][k] \in Requests /\ queues[m][k] # r  BY <5>1, <2>6
        <5>3. requests[queues[m][k]].state = "queued" /\ requests[queues[m][k]].lane = m
          BY <5>1, <1>1 DEF QueuesAgree
        <5>. QED  BY <5>1, <5>2, <5>3, <2>2
      <4>2. CASE m = l /\ k = Len(queues[l]) + 1
        BY <4>2, <2>2, <2>8
      <4>3. CASE m = l /\ k # Len(queues[l]) + 1
        <5>1. k \in 1..Len(queues[l])  BY SMTT(30), <4>3, <2>6, <2>8
        <5>. QED  BY SMTT(30), <4>3, <5>1, <1>1, <2>2, <2>6, <2>8 DEF QueuesAgree
      <4>. QED  BY <4>1, <4>2, <4>3
    <3>2. ASSUME NEW q \in Requests, requests'[q].state = "queued"
          PROVE  \E k \in 1..Len(queues'[requests'[q].lane]) : queues'[requests'[q].lane][k] = q
      <4>1. CASE q = r
        <5>1. Len(queues[l]) + 1 \in 1..Len(queues'[l])  BY SMTT(30), <2>6, <2>8
        <5>. QED  BY <4>1, <5>1, <2>2, <2>8
      <4>2. CASE q # r
        <5>1. requests'[q] = requests[q] /\ requests[q].lane \in Lanes  BY <4>2, <2>2, <1>1 DEF LanesTypeOK
        <5>2. PICK k \in 1..Len(queues[requests[q].lane]) : queues[requests[q].lane][k] = q
          BY <5>1, <3>2, <1>1 DEF QueuesAgree
        <5>3. k \in 1..Len(queues'[requests[q].lane]) /\ queues'[requests[q].lane][k] = q
          <6>1. CASE requests[q].lane = l
            <7>1. k \in 1..Len(queues[l]) /\ Len(queues[l]) \in Nat /\ queues[l][k] = q  BY SMTT(30), <5>2, <2>6, <6>1
            <7>2. k \in 1..(Len(queues[l]) + 1)  BY SMTT(30), <7>1
            <7>. QED  BY <6>1, <7>1, <7>2, <2>8
          <6>2. CASE requests[q].lane # l
            <7>1. queues'[requests[q].lane] = queues[requests[q].lane]  BY <6>2, <5>1, <2>7
            <7>. QED  BY <7>1, <5>2
          <6>. QED  BY <6>1, <6>2
        <5>. QED  BY <5>1, <5>3
      <4>. QED  BY <4>1, <4>2
    <3>. QED  BY <3>1, <3>2 DEF QueuesAgree
  <2>11. WorkersAgree'
    <3>1. \A q \in Requests : requests[q].state \in {"working", "handled"} => requests'[q] = requests[q]
      BY <1>3, <2>2
    <3>. QED  BY <1>2, <2>3, <3>1, WorkersSame
  <2>12. GoneAgree'  BY <1>1, <1>2, <1>8, <2>3 DEF GoneAgree
  <2>13. LoopAgrees'
    <3>1. \A q \in Requests : requests'[q].state # "admitting"  BY <1>1, <1>3, <2>2 DEF LoopAgrees
    <3>. QED  BY <1>1, <1>2, <3>1 DEF LoopAgrees
  <2>14. ASSUME NEW d \in Connections, d # c PROVE ConnAgrees(d)'
    <3>1. \A q \in Requests : requests'[q] = requests[q]
                              \/ /\ requests[q].conn # d
                                 /\ requests'[q].conn # d
      BY <1>4, <2>2, <2>14
    <3>. QED  BY <1>1, <1>2, <2>5, <2>14, <3>1, ConnSame
  <2>15. ConnAgrees(c)'
    <3>. SUFFICES ASSUME conns[c].open PROVE ConnAgrees(c)'  BY <2>5 DEF ConnAgrees
    <3>1. InFlight(c)' = InFlight(c) \cup {r} /\ r \notin InFlight(c) /\ InFlight(c) \subseteq Requests
      BY <1>3, <1>4, <2>2 DEF InFlight
    <3>2. Alive(c)' = Alive(c) /\ \A q \in Alive(c) : requests'[q].id = requests[q].id
      BY <1>3, <1>4, <2>2 DEF Alive
    <3>3. IsFiniteSet(InFlight(c))  BY <3>1, RequestsFinite, FS_Subset
    <3>4. Cardinality(InFlight(c)') = Cardinality(InFlight(c)) + 1
      BY <3>1, <3>3, FS_AddElement
    <3>. QED  BY SMTT(30), <1>1, <1>2, <2>5, <3>2, <3>4 DEF ConnAgrees
  <2>. QED  BY <2>9, <2>10, <2>11, <2>12, <2>13, <2>14, <2>15 DEF LanesInv
<1>. QED  BY <1>6, <1>7, <1>8

-----------------------------------------------------------------------------
LEMMA CheckInv ==
    ASSUME LanesInv, NEW w \in AllWorkers, Check(w)
    PROVE  LanesInv'
<1>1. /\ LanesTypeOK /\ QueuesAgree /\ WorkersAgree /\ GoneAgree /\ LoopAgrees
      /\ \A d \in Connections : ConnAgrees(d)
  BY DEF LanesInv
<1>2. workers[w].pc = "check" /\ ~Holds(w) /\ UNCHANGED <<running, loop, completed, conns, stop>>
  BY DEF Check, Holds
<1>3. PICK l \in Lanes : l = Lane(w)  BY DEF Lane, Lanes
<1>4. queues[l] \in Seq(Requests) /\ IsInjective(queues[l])  BY <1>1 DEF LanesTypeOK
<1>5. CASE queues[l] = <<>>
  <2>1. /\ workers' = [workers EXCEPT ![w].pc = IF ~running \/ StopRequested THEN "gone" ELSE "blocking"]
        /\ UNCHANGED <<queues, requests>>
    BY <1>3, <1>5 DEF Check
  <2>2. /\ workers' \in [AllWorkers -> [pc : {"check", "blocking", "waiting", "working", "handled", "gone"},
                                        request : Requests \cup {NoRequest}]]
        /\ workers'[w].pc \in {"gone", "blocking"} /\ workers'[w].request = workers[w].request
        /\ workers'[w].pc = "gone" => ~running \/ StopRequested
        /\ \A v \in AllWorkers : v # w => workers'[v] = workers[v]
    BY <1>1, <2>1 DEF LanesTypeOK
  <2>3. ~running \/ StopRequested => ~running  BY <1>1 DEF LoopAgrees, StopRequested
  <2>4. LanesTypeOK'  BY <1>1, <1>2, <2>1, <2>2 DEF LanesTypeOK
  <2>5. QueuesAgree' /\ LoopAgrees'  BY SMTT(30), <1>1, <1>2, <2>1 DEF QueuesAgree, LoopAgrees
  <2>6. WorkersAgree'
    <3>1. \A v \in AllWorkers : Holds(v)' <=> Holds(v)  BY <1>2, <2>2 DEF Holds
    <3>2. /\ \A v \in AllWorkers : workers'[v].request = workers[v].request
          /\ \A v \in AllWorkers : Holds(v) => workers'[v].pc = workers[v].pc
      BY <1>2, <2>2
    <3>. QED  BY <1>2, <2>1, <3>1, <3>2, WorkersSame
  <2>7. GoneAgree'  BY <1>1, <1>2, <1>3, <1>5, <2>1, <2>2, <2>3 DEF GoneAgree
  <2>8. \A d \in Connections : ConnAgrees(d)'  BY <1>1, <1>2, <2>1, ConnSame
  <2>. QED  BY <2>4, <2>5, <2>6, <2>7, <2>8 DEF LanesInv
<1>6. CASE queues[l] # <<>>
  <2>0. PICK r \in Requests : r = Head(queues[l])  BY <1>4, <1>6, TailDistinct
  <2>1. /\ queues' = [queues EXCEPT ![l] = Tail(queues[l])]
        /\ workers' = [workers EXCEPT ![w] = [pc |-> "working", request |-> r]]
        /\ requests' = [requests EXCEPT ![r].state = "working"]
    BY <1>3, <1>6, <2>0 DEF Check
  <2>2. /\ r = queues[l][1] /\ Len(queues[l]) >= 1 /\ Len(queues[l]) \in Nat
        /\ Tail(queues[l]) \in Seq(Requests) /\ IsInjective(Tail(queues[l]))
        /\ Len(Tail(queues[l])) = Len(queues[l]) - 1
        /\ \A k \in 1..(Len(queues[l]) - 1) : Tail(queues[l])[k] = queues[l][k + 1]
        /\ \A k \in 1..(Len(queues[l]) - 1) : Tail(queues[l])[k] # r
    BY SMTT(30), <1>4, <1>6, <2>0, TailDistinct
  <2>3. requests[r].state = "queued" /\ requests[r].lane = l
    <3>1. 1 \in 1..Len(queues[l])  BY SMTT(30), <2>2
    <3>. QED  BY SMTT(30), <2>2, <3>1, <1>1 DEF QueuesAgree
  <2>4. /\ requests' \in [Requests -> RequestStates]
        /\ requests'[r].state = "working" /\ requests'[r].conn = requests[r].conn
        /\ requests'[r].id = requests[r].id /\ requests'[r].lane = requests[r].lane
        /\ \A q \in Requests : q # r => requests'[q] = requests[q]
    BY <1>1, <2>1, StateEdit
  <2>5. /\ workers' \in [AllWorkers -> [pc : {"check", "blocking", "waiting", "working", "handled", "gone"},
                                        request : Requests \cup {NoRequest}]]
        /\ workers'[w].pc = "working" /\ workers'[w].request = r
        /\ \A v \in AllWorkers : v # w => workers'[v] = workers[v]
    BY <1>1, <2>1 DEF LanesTypeOK
  <2>6. /\ queues' \in [Lanes -> Seq(Requests)] /\ queues'[l] = Tail(queues[l])
        /\ \A m \in Lanes : m # l => queues'[m] = queues[m]
    BY <1>1, <2>1, <2>2 DEF LanesTypeOK
  <2>7. LanesTypeOK'
    <3>1. \A m \in Lanes : IsInjective(queues'[m])  BY <1>1, <2>2, <2>6 DEF LanesTypeOK
    <3>2. ASSUME NEW m \in Lanes
          PROVE  Len(queues'[m]) \in Nat /\ Len(queues[m]) \in Nat /\ Len(queues'[m]) <= Len(queues[m])
      <4>1. Len(queues'[m]) \in Nat /\ Len(queues[m]) \in Nat  BY SMTT(30), <1>1, <2>6 DEF LanesTypeOK
      <4>2. CASE m = l
        <5>1. Len(queues'[m]) = Len(queues[m]) - 1  BY <4>2, <2>2, <2>6
        <5>. QED  BY SMTT(30), <4>1, <5>1
      <4>3. CASE m # l
        <5>1. Len(queues'[m]) = Len(queues[m])  BY <4>3, <2>6
        <5>. QED  BY SMTT(30), <4>1, <5>1
      <4>. QED  BY <4>2, <4>3
    <3>3. /\ Len(queues'.ordinary) + Len(queues'.candidate) <= MaxPending
          /\ Len(queues'.ordinary) <= MaxPending - CandidateReserve
      <4>1. /\ Len(queues.ordinary) + Len(queues.candidate) <= MaxPending
            /\ Len(queues.ordinary) <= MaxPending - CandidateReserve
        BY <1>1 DEF LanesTypeOK
      <4>2. /\ Len(queues'.ordinary) \in Nat /\ Len(queues.ordinary) \in Nat
            /\ Len(queues'.ordinary) <= Len(queues.ordinary)
            /\ Len(queues'.candidate) \in Nat /\ Len(queues.candidate) \in Nat
            /\ Len(queues'.candidate) <= Len(queues.candidate)
        BY <3>2 DEF Lanes
      <4>. QED  BY <4>1, <4>2, LessRoom
    <3>. QED  BY <1>1, <1>2, <2>4, <2>5, <2>6, <3>1, <3>3 DEF LanesTypeOK, RequestStates
  <2>8. QueuesAgree'
    <3>1. ASSUME NEW m \in Lanes, NEW k \in 1..Len(queues'[m])
          PROVE  requests'[queues'[m][k]].state = "queued" /\ requests'[queues'[m][k]].lane = m
      <4>1. CASE m # l
        <5>1. queues'[m] = queues[m] /\ k \in 1..Len(queues[m])  BY <4>1, <2>6
        <5>2. requests[queues[m][k]].state = "queued" /\ requests[queues[m][k]].lane = m
          BY <5>1, <1>1 DEF QueuesAgree
        <5>3. queues[m] \in Seq(Requests)  BY <1>1 DEF LanesTypeOK
        <5>4. queues[m][k] \in Requests  BY SMTT(30), <5>1, <5>3
        <5>. QED  BY <4>1, <5>1, <5>2, <5>4, <2>3, <2>4
      <4>2. CASE m = l
        <5>1. k \in 1..(Len(queues[l]) - 1) /\ queues'[m] = Tail(queues[l])  BY <4>2, <2>2, <2>6
        <5>2. k + 1 \in 1..Len(queues[l])  BY SMTT(30), <5>1, <2>2
        <5>3. queues'[m][k] = queues[l][k + 1] /\ queues'[m][k] # r  BY <5>1, <2>2
        <5>4. requests[queues[l][k + 1]].state = "queued" /\ requests[queues[l][k + 1]].lane = l
          BY <5>2, <1>1 DEF QueuesAgree
        <5>5. queues[l][k + 1] \in Requests  BY SMTT(30), <5>2, <1>4
        <5>. QED  BY <4>2, <5>3, <5>4, <5>5, <2>4
      <4>. QED  BY <4>1, <4>2
    <3>2. ASSUME NEW q \in Requests, requests'[q].state = "queued"
          PROVE  \E k \in 1..Len(queues'[requests'[q].lane]) : queues'[requests'[q].lane][k] = q
      <4>1. q # r /\ requests'[q] = requests[q] /\ requests[q].lane \in Lanes
        BY <3>2, <2>4, <1>1 DEF LanesTypeOK
      <4>2. PICK k \in 1..Len(queues[requests[q].lane]) : queues[requests[q].lane][k] = q
        BY <4>1, <3>2, <1>1 DEF QueuesAgree
      <4>3. CASE requests[q].lane # l  BY <4>1, <4>2, <4>3, <2>6
      <4>4. CASE requests[q].lane = l
        <5>1. k # 1 /\ k \in 1..Len(queues[l])  BY <4>1, <4>2, <4>4, <2>2
        <5>2. k - 1 \in 1..(Len(queues[l]) - 1) /\ (k - 1) + 1 = k  BY SMTT(30), <5>1, <2>2
        <5>3. Tail(queues[l])[k - 1] = q  BY <4>2, <4>4, <5>2, <2>2
        <5>4. k - 1 \in 1..Len(queues'[l]) /\ queues'[l][k - 1] = q  BY <5>2, <5>3, <2>2, <2>6
        <5>. QED  BY <4>1, <4>4, <5>4
      <4>. QED  BY <4>3, <4>4
    <3>. QED  BY <3>1, <3>2 DEF QueuesAgree
  <2>9. WorkersAgree'
    <3>1. \A v \in AllWorkers : v # w => (Holds(v)' <=> Holds(v))  BY <2>5 DEF Holds
    <3>2. \A v \in AllWorkers : Holds(v) => /\ workers[v].request \in Requests /\ workers[v].request # r
                                            /\ requests[workers[v].request].state = workers[v].pc
                                            /\ workers[v].request \notin completed
      BY <1>1, <2>3 DEF WorkersAgree, Holds
    <3>3. r \notin completed  BY <1>1, <2>3 DEF WorkersAgree
    <3>4. ASSUME NEW v \in AllWorkers, Holds(v)'
          PROVE  /\ workers'[v].request \in Requests
                 /\ requests'[workers'[v].request].state = workers'[v].pc
                 /\ workers'[v].request \notin completed'
      <4>1. CASE v = w  BY <4>1, <1>2, <2>4, <2>5, <3>3
      <4>2. CASE v # w  BY SMTT(30), <4>2, <1>2, <2>4, <2>5, <3>1, <3>2, <3>4
      <4>. QED  BY <4>1, <4>2
    <3>5. \A u, v \in AllWorkers : Holds(u)' /\ Holds(v)' /\ workers'[u].request = workers'[v].request => u = v
      <4>1. \A u, v \in AllWorkers : Holds(u) /\ Holds(v) /\ workers[u].request = workers[v].request => u = v
        BY <1>1 DEF WorkersAgree
      <4>. QED  BY <2>5, <3>1, <3>2, <4>1
    <3>6. \A q \in completed' : requests'[q].state = "handled"
      <4>1. completed \subseteq Requests /\ \A q \in completed : requests[q].state = "handled"
        BY <1>1 DEF WorkersAgree, LanesTypeOK
      <4>. QED  BY <1>2, <2>4, <3>3, <4>1
    <3>. QED  BY <3>4, <3>5, <3>6 DEF WorkersAgree, Holds
  <2>10. GoneAgree'
    <3>1. \A v \in AllWorkers : Lane(v) \in Lanes  BY DEF Lane, Lanes
    <3>2. \A v \in AllWorkers : workers'[v].pc = "gone" => v # w /\ workers[v].pc = "gone"  BY <2>5
    <3>3. \A v \in AllWorkers : workers[v].pc = "gone" => ~running /\ queues[Lane(v)] = <<>>
      BY <1>1 DEF GoneAgree
    <3>4. \A v \in AllWorkers : workers[v].pc = "gone" => queues'[Lane(v)] = queues[Lane(v)]
      BY <1>6, <2>6, <3>1, <3>3
    <3>. QED  BY <1>2, <3>2, <3>3, <3>4 DEF GoneAgree, Lane
  <2>11. LoopAgrees'
    <3>1. \A q \in Requests : requests'[q].state = "admitting" => requests[q].state = "admitting"
      BY <2>4
    <3>2. loop.pc = "submit" => loop.request \in Requests /\ requests'[loop.request].state = "admitting"
      BY <1>1, <2>3, <2>4 DEF LoopAgrees
    <3>. QED  BY <1>1, <1>2, <3>1, <3>2 DEF LoopAgrees
  <2>12. ASSUME NEW d \in Connections PROVE ConnAgrees(d)'
    <3>1. \A q \in Requests : requests'[q] = requests[q]
                              \/ /\ requests'[q].conn = requests[q].conn /\ requests'[q].id = requests[q].id
                                 /\ requests[q].state \in {"queued", "working", "handled"}
                                 /\ requests'[q].state \in {"queued", "working", "handled"}
      BY <2>3, <2>4
    <3>. QED  BY <1>1, <1>2, <3>1, ConnSame
  <2>. QED  BY <2>7, <2>8, <2>9, <2>10, <2>11, <2>12 DEF LanesInv
<1>. QED  BY <1>5, <1>6

-----------------------------------------------------------------------------
LEMMA HandleInv ==
    ASSUME LanesInv, NEW w \in AllWorkers, Handle(w)
    PROVE  LanesInv'
<1>1. /\ LanesTypeOK /\ QueuesAgree /\ WorkersAgree /\ GoneAgree /\ LoopAgrees
      /\ \A d \in Connections : ConnAgrees(d)
  BY DEF LanesInv
<1>2. workers[w].pc = "working" /\ UNCHANGED <<running, loop, queues, completed, conns, stop>>
  BY DEF Handle
<1>3. PICK r \in Requests : /\ r = workers[w].request /\ requests[r].state = "working" /\ r \notin completed
                            /\ \A v \in AllWorkers : Holds(v) /\ workers[v].request = r => v = w
  BY SMTT(30), <1>1, <1>2 DEF WorkersAgree, Holds
<1>4. /\ requests' \in [Requests -> RequestStates]
      /\ requests'[r].state = "handled" /\ requests'[r].conn = requests[r].conn
      /\ requests'[r].id = requests[r].id /\ requests'[r].lane = requests[r].lane
      /\ \A q \in Requests : q # r => requests'[q] = requests[q]
  <2>1. requests' = [requests EXCEPT ![r].state = "handled"]  BY <1>3 DEF Handle
  <2>. QED  BY <1>1, <2>1, StateEdit
<1>5. /\ workers' \in [AllWorkers -> [pc : {"check", "blocking", "waiting", "working", "handled", "gone"},
                                      request : Requests \cup {NoRequest}]]
      /\ workers'[w].pc = "handled" /\ workers'[w].request = r
      /\ \A v \in AllWorkers : v # w => workers'[v] = workers[v]
  BY <1>1, <1>3 DEF LanesTypeOK, Handle
<1>6. LanesTypeOK'  BY <1>1, <1>2, <1>4, <1>5 DEF LanesTypeOK, RequestStates
<1>7. QueuesAgree'
  <2>1. \A m \in Lanes : \A k \in 1..Len(queues[m]) : queues[m][k] \in Requests /\ queues[m][k] # r
    BY SMTT(30), <1>1, <1>3 DEF QueuesAgree, LanesTypeOK
  <2>. QED  BY SMTT(30), <1>1, <1>2, <1>4, <2>1 DEF QueuesAgree
<1>8. WorkersAgree'
  <2>1. \A v \in AllWorkers : Holds(v)' <=> Holds(v)  BY <1>2, <1>5 DEF Holds
  <2>2. \A v \in AllWorkers : Holds(v) => /\ workers[v].request \in Requests
                                          /\ requests[workers[v].request].state = workers[v].pc
                                          /\ workers[v].request \notin completed
    BY <1>1 DEF WorkersAgree
  <2>3. ASSUME NEW v \in AllWorkers, Holds(v)'
        PROVE  /\ workers'[v].request \in Requests
               /\ requests'[workers'[v].request].state = workers'[v].pc
               /\ workers'[v].request \notin completed'
    <3>1. CASE v = w  BY <3>1, <1>2, <1>3, <1>4, <1>5
    <3>2. CASE v # w
      <4>1. workers[v].request # r  BY <3>2, <2>1, <2>3, <1>3
      <4>. QED  BY SMTT(30), <3>2, <4>1, <1>2, <1>4, <1>5, <2>1, <2>2, <2>3
    <3>. QED  BY <3>1, <3>2
  <2>4. \A u, v \in AllWorkers : Holds(u)' /\ Holds(v)' /\ workers'[u].request = workers'[v].request => u = v
    <3>1. \A v \in AllWorkers : workers'[v].request = workers[v].request  BY <1>3, <1>5
    <3>. QED  BY <1>1, <2>1, <3>1 DEF WorkersAgree
  <2>5. \A q \in completed' : requests'[q].state = "handled"
    <3>1. completed \subseteq Requests /\ \A q \in completed : requests[q].state = "handled"
      BY <1>1 DEF WorkersAgree, LanesTypeOK
    <3>. QED  BY <1>2, <1>3, <1>4, <3>1
  <2>. QED  BY <2>3, <2>4, <2>5 DEF WorkersAgree, Holds
<1>9. GoneAgree'  BY <1>1, <1>2, <1>5 DEF GoneAgree
<1>10. LoopAgrees'
  <2>1. \A q \in Requests : requests'[q].state = "admitting" => requests[q].state = "admitting"
    BY <1>4
  <2>2. loop.pc = "submit" => loop.request \in Requests /\ requests'[loop.request].state = "admitting"
    BY <1>1, <1>3, <1>4 DEF LoopAgrees
  <2>. QED  BY <1>1, <1>2, <2>1, <2>2 DEF LoopAgrees
<1>11. ASSUME NEW d \in Connections PROVE ConnAgrees(d)'
  <2>1. \A q \in Requests : requests'[q] = requests[q]
                            \/ /\ requests'[q].conn = requests[q].conn /\ requests'[q].id = requests[q].id
                               /\ requests[q].state \in {"queued", "working", "handled"}
                               /\ requests'[q].state \in {"queued", "working", "handled"}
    BY <1>3, <1>4
  <2>. QED  BY <1>1, <1>2, <2>1, ConnSame
<1>. QED  BY <1>6, <1>7, <1>8, <1>9, <1>10, <1>11 DEF LanesInv

LEMMA CompleteInv ==
    ASSUME LanesInv, NEW w \in AllWorkers, Complete(w)
    PROVE  LanesInv'
<1>1. /\ LanesTypeOK /\ QueuesAgree /\ WorkersAgree /\ GoneAgree /\ LoopAgrees
      /\ \A d \in Connections : ConnAgrees(d)
  BY DEF LanesInv
<1>2. workers[w].pc = "handled" /\ UNCHANGED <<running, loop, queues, requests, conns, stop>>
  BY DEF Complete
<1>3. PICK r \in Requests : /\ r = workers[w].request /\ requests[r].state = "handled" /\ r \notin completed
                            /\ \A v \in AllWorkers : Holds(v) /\ workers[v].request = r => v = w
  BY SMTT(30), <1>1, <1>2 DEF WorkersAgree, Holds
<1>4. completed' = completed \cup {r}  BY <1>3 DEF Complete
<1>5. /\ workers' \in [AllWorkers -> [pc : {"check", "blocking", "waiting", "working", "handled", "gone"},
                                      request : Requests \cup {NoRequest}]]
      /\ workers'[w].pc = "check"
      /\ \A v \in AllWorkers : v # w => workers'[v] = workers[v]
  BY <1>1 DEF LanesTypeOK, Complete
<1>6. LanesTypeOK'  BY <1>1, <1>2, <1>3, <1>4, <1>5 DEF LanesTypeOK
<1>7. QueuesAgree' /\ LoopAgrees'  BY SMTT(30), <1>1, <1>2 DEF QueuesAgree, LoopAgrees
<1>8. WorkersAgree'
  <2>1. \A v \in AllWorkers : Holds(v)' => v # w /\ Holds(v)  BY <1>5 DEF Holds
  <2>2. ASSUME NEW v \in AllWorkers, Holds(v)'
        PROVE  /\ workers'[v].request \in Requests
               /\ requests'[workers'[v].request].state = workers'[v].pc
               /\ workers'[v].request \notin completed'
    <3>1. workers'[v] = workers[v] /\ Holds(v) /\ workers[v].request # r  BY <2>1, <2>2, <1>3, <1>5
    <3>2. /\ workers[v].request \in Requests /\ requests[workers[v].request].state = workers[v].pc
          /\ workers[v].request \notin completed
      BY <3>1, <1>1 DEF WorkersAgree
    <3>. QED  BY <3>1, <3>2, <1>2, <1>4
  <2>3. \A u, v \in AllWorkers : Holds(u)' /\ Holds(v)' /\ workers'[u].request = workers'[v].request => u = v
    BY <1>1, <1>5, <2>1 DEF WorkersAgree
  <2>4. \A q \in completed' : requests'[q].state = "handled"  BY <1>1, <1>2, <1>3, <1>4 DEF WorkersAgree
  <2>. QED  BY <2>2, <2>3, <2>4 DEF WorkersAgree, Holds
<1>9. GoneAgree'  BY <1>1, <1>2, <1>5 DEF GoneAgree
<1>10. \A d \in Connections : ConnAgrees(d)'  BY <1>1, <1>2, ConnSame
<1>. QED  BY <1>6, <1>7, <1>8, <1>9, <1>10 DEF LanesInv

LEMMA DrainResultsInv ==
    ASSUME LanesInv, NEW overflow \in SUBSET Connections, DrainResults(overflow)
    PROVE  LanesInv'
<1>1. /\ LanesTypeOK /\ QueuesAgree /\ WorkersAgree /\ GoneAgree /\ LoopAgrees
      /\ \A d \in Connections : ConnAgrees(d)
  BY DEF LanesInv
<1>2. /\ loop.pc = "poll" /\ running /\ completed' = {} /\ UNCHANGED <<running, loop, queues, workers, stop>>
  BY DEF DrainResults
<1>3. completed \subseteq Requests /\ \A r \in completed : requests[r].state = "handled"
  BY <1>1 DEF WorkersAgree, LanesTypeOK
<1>4. ASSUME NEW r \in Requests
      PROVE  /\ requests'[r] \in RequestStates
             /\ r \notin completed => requests'[r] = requests[r]
             /\ r \in completed => requests'[r].state \in {"answered", "dropped"}
  <2>1. CASE r \notin completed
    <3>1. requests'[r] = requests[r]  BY <2>1 DEF DrainResults
    <3>. QED  BY <2>1, <3>1, <1>1 DEF LanesTypeOK, RequestStates
  <2>2. CASE r \in completed
    <3>1. PICK c \in Connections : c = requests[r].conn  BY <1>1 DEF LanesTypeOK
    <3>2. PICK o \in {"answered", "refused", "dropped"} :
             o = (IF conns'[c].open THEN "answered" ELSE "dropped")
      OBVIOUS
    <3>3. requests'[r] = Ended(c, o)  BY <2>2, <3>1, <3>2 DEF DrainResults
    <3>4. Ended(c, o) \in RequestStates /\ Ended(c, o).state = o  BY EndedType
    <3>. QED  BY <2>2, <3>2, <3>3, <3>4
  <2>. QED  BY <2>1, <2>2
<1>5. requests' \in [Requests -> RequestStates]  BY <1>4 DEF DrainResults
<1>6. ASSUME NEW c \in Connections
      PROVE  /\ conns'[c] \in [open : BOOLEAN, pending : 0..MaxPerConnection, ids : SUBSET Ids]
             /\ ConnAgrees(c)'
  <2>1. conns[c] \in [open : BOOLEAN, pending : 0..MaxPerConnection, ids : SUBSET Ids]  BY <1>1 DEF LanesTypeOK
  <2>2. CASE ~conns[c].open
    <3>1. conns'[c] = conns[c]  BY <2>2 DEF DrainResults
    <3>. QED  BY <2>1, <2>2, <3>1 DEF ConnAgrees
  <2>3. CASE conns[c].open /\ c \in overflow
    <3>1. conns'[c] = [conns[c] EXCEPT !.open = FALSE]  BY <2>3 DEF DrainResults
    <3>. QED  BY <2>1, <3>1 DEF ConnAgrees
  <2>4. CASE conns[c].open /\ c \notin overflow
    <3>. DEFINE gone == ResultsOf(c)
    <3>1. conns'[c] = [conns[c] EXCEPT !.pending = @ - Cardinality(gone),
                                       !.ids = @ \ {requests[r].id : r \in gone}]
      BY <2>4 DEF DrainResults, Answered
    <3>2. gone \subseteq InFlight(c) /\ InFlight(c) \subseteq Requests /\ gone \subseteq completed
      BY <1>3 DEF ResultsOf, InFlight
    <3>3. InFlight(c)' = InFlight(c) \ gone
      BY <1>3, <1>4 DEF ResultsOf, InFlight
    <3>4. /\ IsFiniteSet(InFlight(c)) /\ IsFiniteSet(gone)
      BY <3>2, RequestsFinite, FS_Subset
    <3>5. gone \subseteq Alive(c) /\ Alive(c)' = Alive(c) \ gone
          /\ \A r \in Alive(c)' : requests'[r] = requests[r]
      BY <1>3, <1>4 DEF ResultsOf, Alive
    <3>. HIDE DEF gone
    <3>6. Cardinality(InFlight(c)') = Cardinality(InFlight(c)) - Cardinality(gone)
      <4>1. InFlight(c) \cap gone = gone  BY <3>2
      <4>. QED  BY <3>3, <3>4, <4>1, FS_Difference
    <3>7. /\ conns[c].pending = Cardinality(InFlight(c))
          /\ \A r \in Alive(c) : requests[r].id \in conns[c].ids
          /\ \A i \in conns[c].ids : \E r \in Alive(c) : requests[r].id = i
          /\ \A q, r \in Alive(c) : requests[q].id = requests[r].id => q = r
      BY <1>1, <1>2, <2>4 DEF ConnAgrees
    <3>8. /\ conns'[c].open = conns[c].open
          /\ conns'[c].pending = conns[c].pending - Cardinality(gone)
          /\ conns'[c].ids = conns[c].ids \ {requests[r].id : r \in gone}
      BY <2>1, <3>1
    <3>9. /\ \A r \in Alive(c)' : requests'[r].id \in conns'[c].ids
          /\ \A i \in conns'[c].ids : \E r \in Alive(c)' : requests'[r].id = i
          /\ \A q, r \in Alive(c)' : requests'[q].id = requests'[r].id => q = r
      BY SMTT(30), <3>5, <3>7, <3>8
    <3>10. conns[c].pending - Cardinality(gone) \in 0..MaxPerConnection
      <4>1. Cardinality(InFlight(c)') \in Nat  BY <3>3, <3>4, FS_Subset, FS_CardinalityType
      <4>2. Cardinality(gone) \in Nat /\ conns[c].pending \in 0..MaxPerConnection /\ MaxPerConnection \in Nat
        BY <3>4, <2>1, FS_CardinalityType, LanesAssumption
      <4>3. conns[c].pending - Cardinality(gone) \in Nat  BY <3>6, <3>7, <4>1
      <4>. QED  BY SMTT(30), <4>2, <4>3
    <3>11. conns'[c] \in [open : BOOLEAN, pending : 0..MaxPerConnection, ids : SUBSET Ids]
      <4>1. conns[c].ids \ {requests[r].id : r \in gone} \in SUBSET Ids  BY <2>1
      <4>. QED  BY <2>1, <3>1, <3>10, <4>1
    <3>. QED  BY <3>6, <3>7, <3>8, <3>9, <3>11 DEF ConnAgrees
  <2>. QED  BY <2>2, <2>3, <2>4
<1>7. LanesTypeOK'
  <2>1. conns' \in [Connections -> [open : BOOLEAN, pending : 0..MaxPerConnection, ids : SUBSET Ids]]
    BY <1>6 DEF DrainResults
  <2>. QED  BY <1>1, <1>2, <1>5, <2>1 DEF LanesTypeOK, RequestStates
<1>8. QueuesAgree'
  <2>1. \A m \in Lanes : \A k \in 1..Len(queues[m]) : queues[m][k] \in Requests /\ queues[m][k] \notin completed
    BY SMTT(30), <1>1, <1>3 DEF QueuesAgree, LanesTypeOK
  <2>2. \A r \in Requests : requests'[r].state = "queued" => requests'[r] = requests[r]  BY <1>4
  <2>. QED  BY SMTT(30), <1>1, <1>2, <1>4, <2>1, <2>2 DEF QueuesAgree
<1>9. WorkersAgree'
  <2>1. ASSUME NEW w \in AllWorkers, Holds(w)'
        PROVE  /\ workers'[w].request \in Requests
               /\ requests'[workers'[w].request].state = workers'[w].pc
               /\ workers'[w].request \notin completed'
    <3>1. /\ workers[w].request \in Requests /\ workers[w].request \notin completed
          /\ requests[workers[w].request].state = workers[w].pc
      BY <1>1, <1>2, <2>1 DEF WorkersAgree, Holds
    <3>. QED  BY <3>1, <1>2, <1>4
  <2>2. \A u, v \in AllWorkers : Holds(u)' /\ Holds(v)' /\ workers'[u].request = workers'[v].request => u = v
    BY <1>1, <1>2 DEF WorkersAgree, Holds
  <2>. QED  BY <1>2, <2>1, <2>2 DEF WorkersAgree, Holds
<1>10. GoneAgree'  BY <1>1, <1>2 DEF GoneAgree
<1>11. LoopAgrees'
  <2>1. \A r \in Requests : requests'[r].state # "admitting"  BY <1>1, <1>2, <1>4 DEF LoopAgrees
  <2>. QED  BY <1>1, <1>2, <2>1 DEF LoopAgrees
<1>. QED  BY <1>6, <1>7, <1>8, <1>9, <1>10, <1>11 DEF LanesInv

\* The steps that change no request: connections may close, running_ may be cleared,
\* and workers may be woken or begin to wait.
LEMMA QuietInv ==
    ASSUME LanesInv, UNCHANGED <<queues, requests, completed>>,
           running' \in BOOLEAN, running' => running,
           loop' \in [pc : {"poll", "submit", "gone"}, request : Requests \cup {NoRequest}],
           loop' = loop \/ (loop.pc # "submit" /\ loop'.pc # "submit"),
           stop' \in {"none", "flagged", "notified", "joined", "signalled", "finished"},
           stop' # "none" => ~running',
           conns' \in [Connections -> [open : BOOLEAN, pending : 0..MaxPerConnection, ids : SUBSET Ids]],
           \A c \in Connections : conns'[c].open => conns'[c] = conns[c],
           workers' \in [AllWorkers -> [pc : {"check", "blocking", "waiting", "working", "handled", "gone"},
                                        request : Requests \cup {NoRequest}]],
           \A w \in AllWorkers : Holds(w)' <=> Holds(w),
           \A w \in AllWorkers : workers'[w].request = workers[w].request,
           \A w \in AllWorkers : Holds(w) => workers'[w].pc = workers[w].pc,
           \A w \in AllWorkers : workers'[w].pc = "gone" <=> workers[w].pc = "gone"
    PROVE  LanesInv'
<1>1. /\ LanesTypeOK /\ QueuesAgree /\ WorkersAgree /\ GoneAgree /\ LoopAgrees
      /\ \A d \in Connections : ConnAgrees(d)
  BY DEF LanesInv
<1>2. LanesTypeOK'  BY <1>1 DEF LanesTypeOK
<1>3. QueuesAgree'  BY SMTT(30), <1>1 DEF QueuesAgree
<1>4. WorkersAgree'  BY WorkersSame
<1>5. GoneAgree'  BY <1>1 DEF GoneAgree
<1>6. LoopAgrees'
  <2>1. /\ loop'.pc = "submit" => loop'.request \in Requests /\ requests'[loop'.request].state = "admitting"
        /\ \A r \in Requests : requests'[r].state = "admitting" => loop'.pc = "submit" /\ loop'.request = r
    BY SMTT(30), <1>1 DEF LoopAgrees
  <2>. QED  BY <2>1 DEF LoopAgrees
<1>7. \A d \in Connections : ConnAgrees(d)'  BY <1>1, ConnSame
<1>. QED  BY <1>2, <1>3, <1>4, <1>5, <1>6, <1>7 DEF LanesInv

LEMMA StopFinishesInv == LanesInv /\ StopFinishes => LanesInv'
<1>. SUFFICES ASSUME LanesInv, StopFinishes PROVE LanesInv'  OBVIOUS
<1>1. /\ LanesTypeOK /\ QueuesAgree /\ WorkersAgree /\ GoneAgree /\ LoopAgrees
  BY DEF LanesInv
<1>2. /\ stop' = "finished" /\ queues' = [l \in Lanes |-> <<>>] /\ completed' = {}
      /\ ~running /\ UNCHANGED <<running, loop, workers>>
      /\ \A w \in AllWorkers : workers[w].pc = "gone"
  BY <1>1 DEF StopFinishes, LoopAgrees
<1>3. completed \subseteq Requests /\ \A r \in completed : requests[r].state = "handled"
  BY <1>1 DEF WorkersAgree, LanesTypeOK
<1>4. \A l \in Lanes : \A r \in Range(queues[l]) : requests[r].state = "queued"
  <2>1. \A l \in Lanes : DOMAIN queues[l] = 1..Len(queues[l])  BY SMTT(30), <1>1 DEF LanesTypeOK
  <2>. QED  BY SMTT(30), <2>1, <1>1 DEF Range, QueuesAgree
<1>5. \A r \in Requests : requests[r].state = "queued" => \E l \in Lanes : r \in Range(queues[l])
  <2>1. \A l \in Lanes : DOMAIN queues[l] = 1..Len(queues[l])  BY SMTT(30), <1>1 DEF LanesTypeOK
  <2>2. \A r \in Requests : requests[r].lane \in Lanes  BY <1>1 DEF LanesTypeOK
  <2>. QED  BY SMTT(30), <2>1, <2>2, <1>1 DEF Range, QueuesAgree
<1>6. ASSUME NEW r \in Requests
      PROVE  /\ requests'[r] \in RequestStates
             /\ requests'[r].state # "queued"
             /\ requests[r].state = "admitting" => requests'[r] = requests[r]
             /\ requests'[r].state = "admitting" => requests'[r] = requests[r]
  <2>1. CASE r \in completed \cup UNION {Range(queues[l]) : l \in Lanes}
    <3>1. PICK c \in Connections : c = requests[r].conn  BY <1>1 DEF LanesTypeOK
    <3>2. requests'[r] = Ended(c, "dropped")  BY <2>1, <3>1 DEF StopFinishes
    <3>3. Ended(c, "dropped") \in RequestStates /\ Ended(c, "dropped").state = "dropped"  BY EndedType
    <3>4. requests[r].state # "admitting"  BY <2>1, <1>3, <1>4
    <3>. QED  BY <3>2, <3>3, <3>4
  <2>2. CASE r \notin completed \cup UNION {Range(queues[l]) : l \in Lanes}
    <3>1. requests'[r] = requests[r]  BY <2>2 DEF StopFinishes
    <3>2. requests[r].state # "queued"  BY <2>2, <1>5
    <3>. QED  BY <3>1, <3>2, <1>1 DEF LanesTypeOK, RequestStates
  <2>. QED  BY <2>1, <2>2
<1>7. requests' \in [Requests -> RequestStates]  BY <1>6 DEF StopFinishes
<1>8. /\ conns' \in [Connections -> [open : BOOLEAN, pending : 0..MaxPerConnection, ids : SUBSET Ids]]
      /\ \A c \in Connections : ~conns'[c].open
  <2>1. \A c \in Connections : conns[c] \in [open : BOOLEAN, pending : 0..MaxPerConnection, ids : SUBSET Ids]
    BY <1>1 DEF LanesTypeOK
  <2>2. conns' = [c \in Connections |-> [conns[c] EXCEPT !.open = FALSE]]  BY DEF StopFinishes
  <2>. QED  BY <2>1, <2>2
<1>9. \A l \in Lanes : queues'[l] = <<>> /\ queues'[l] \in Seq(Requests) /\ Len(queues'[l]) = 0 /\ IsInjective(queues'[l])
  BY SMTT(30), <1>2 DEF IsInjective
<1>10. LanesTypeOK'
  <2>1. Len(queues'.ordinary) + Len(queues'.candidate) <= MaxPending
        /\ Len(queues'.ordinary) <= MaxPending - CandidateReserve
    <3>1. Len(queues'.ordinary) = 0 /\ Len(queues'.candidate) = 0  BY <1>9 DEF Lanes
    <3>2. 0 + 0 <= MaxPending /\ 0 <= MaxPending - CandidateReserve  BY SMTT(30), LanesAssumption
    <3>. QED  BY <3>1, <3>2
  <2>2. queues' \in [Lanes -> Seq(Requests)]  BY <1>2, <1>9
  <2>. QED  BY <1>1, <1>2, <1>7, <1>8, <1>9, <2>1, <2>2 DEF LanesTypeOK, RequestStates
<1>11. QueuesAgree'  BY SMTT(30), <1>6, <1>9 DEF QueuesAgree
<1>12. WorkersAgree'
  <2>1. \A w \in AllWorkers : ~Holds(w)'  BY <1>2 DEF Holds
  <2>. QED  BY <1>2, <2>1 DEF WorkersAgree, Holds
<1>13. GoneAgree'
  <2>1. \A w \in AllWorkers : Lane(w) \in Lanes  BY DEF Lane, Lanes
  <2>. QED  BY <1>2, <1>9, <2>1 DEF GoneAgree, Lane
<1>14. LoopAgrees'
  <2>1. loop.pc = "submit" => loop.request \in Requests /\ requests'[loop.request].state = "admitting"
    BY <1>1, <1>6 DEF LoopAgrees
  <2>2. \A r \in Requests : requests'[r].state = "admitting" => loop.pc = "submit" /\ loop.request = r
    BY <1>1, <1>6 DEF LoopAgrees
  <2>. QED  BY <1>2, <2>1, <2>2 DEF LoopAgrees
<1>15. \A c \in Connections : ConnAgrees(c)'  BY <1>8 DEF ConnAgrees
<1>. QED  BY <1>10, <1>11, <1>12, <1>13, <1>14, <1>15 DEF LanesInv

LEMMA CloseConnectionInv ==
    ASSUME LanesInv, NEW c \in Connections, CloseConnection(c)
    PROVE  LanesInv'
<1>1. LanesTypeOK /\ LoopAgrees  BY DEF LanesInv
<1>2. /\ conns' \in [Connections -> [open : BOOLEAN, pending : 0..MaxPerConnection, ids : SUBSET Ids]]
      /\ \A d \in Connections : conns'[d].open => conns'[d] = conns[d]
  BY <1>1 DEF CloseConnection, LanesTypeOK
<1>3. UNCHANGED <<running, loop, queues, workers, requests, completed, stop>>  BY DEF CloseConnection
<1>4. \A w \in AllWorkers : Holds(w)' <=> Holds(w)  BY <1>3 DEF Holds
<1>5. /\ running' \in BOOLEAN /\ loop' \in [pc : {"poll", "submit", "gone"}, request : Requests \cup {NoRequest}]
      /\ stop' \in {"none", "flagged", "notified", "joined", "signalled", "finished"}
      /\ workers' \in [AllWorkers -> [pc : {"check", "blocking", "waiting", "working", "handled", "gone"},
                                      request : Requests \cup {NoRequest}]]
      /\ stop' # "none" => ~running'
  BY <1>1, <1>3 DEF LanesTypeOK, LoopAgrees
<1>. QED  BY <1>2, <1>3, <1>4, <1>5, QuietInv

\* Steps in which workers are only woken or begin to wait.
LEMMA WokenInv ==
    ASSUME LanesInv, UNCHANGED <<queues, requests, completed, conns>>,
           running' \in BOOLEAN, running' => running,
           loop' = loop \/ (loop.pc = "poll" /\ loop' = [loop EXCEPT !.pc = "gone"]),
           stop' \in {"none", "flagged", "notified", "joined", "signalled", "finished"},
           stop' # "none" => ~running',
           workers' \in {workers, Notified(workers)}
    PROVE  LanesInv'
<1>1. LanesTypeOK  BY DEF LanesInv
<1>2. loop' \in [pc : {"poll", "submit", "gone"}, request : Requests \cup {NoRequest}]
      /\ (loop' = loop \/ (loop.pc # "submit" /\ loop'.pc # "submit"))
  BY <1>1 DEF LanesTypeOK
<1>3. /\ workers' \in [AllWorkers -> [pc : {"check", "blocking", "waiting", "working", "handled", "gone"},
                                      request : Requests \cup {NoRequest}]]
      /\ \A w \in AllWorkers : Holds(w)' <=> Holds(w)
      /\ \A w \in AllWorkers : workers'[w].request = workers[w].request
      /\ \A w \in AllWorkers : Holds(w) => workers'[w].pc = workers[w].pc
      /\ \A w \in AllWorkers : workers'[w].pc = "gone" <=> workers[w].pc = "gone"
  <2>1. CASE workers' = workers  BY <1>1, <2>1 DEF LanesTypeOK, Holds
  <2>2. CASE workers' = Notified(workers)  BY <1>1, <2>2, NotifiedFacts
  <2>. QED  BY <2>1, <2>2
<1>4. /\ conns' \in [Connections -> [open : BOOLEAN, pending : 0..MaxPerConnection, ids : SUBSET Ids]]
      /\ \A d \in Connections : conns'[d].open => conns'[d] = conns[d]
  BY <1>1 DEF LanesTypeOK
<1>. QED  BY <1>2, <1>3, <1>4, QuietInv

LEMMA WaitInv ==
    ASSUME LanesInv, NEW w \in AllWorkers, Wait(w)
    PROVE  LanesInv'
<1>1. LanesTypeOK /\ LoopAgrees  BY DEF LanesInv
<1>2. /\ workers' \in [AllWorkers -> [pc : {"check", "blocking", "waiting", "working", "handled", "gone"},
                                      request : Requests \cup {NoRequest}]]
      /\ workers[w].pc = "blocking" /\ workers'[w].pc = "waiting" /\ workers'[w].request = workers[w].request
      /\ \A v \in AllWorkers : v # w => workers'[v] = workers[v]
  BY <1>1 DEF Wait, LanesTypeOK
<1>3. UNCHANGED <<running, loop, queues, requests, completed, conns, stop>>  BY DEF Wait
<1>4. /\ \A v \in AllWorkers : Holds(v)' <=> Holds(v)
      /\ \A v \in AllWorkers : workers'[v].request = workers[v].request
      /\ \A v \in AllWorkers : Holds(v) => workers'[v].pc = workers[v].pc
      /\ \A v \in AllWorkers : workers'[v].pc = "gone" <=> workers[v].pc = "gone"
  BY <1>2 DEF Holds
<1>5. /\ running' \in BOOLEAN /\ loop' \in [pc : {"poll", "submit", "gone"}, request : Requests \cup {NoRequest}]
      /\ stop' \in {"none", "flagged", "notified", "joined", "signalled", "finished"}
      /\ conns' \in [Connections -> [open : BOOLEAN, pending : 0..MaxPerConnection, ids : SUBSET Ids]]
      /\ stop' # "none" => ~running'
  BY <1>1, <1>3 DEF LanesTypeOK, LoopAgrees
<1>. QED  BY <1>2, <1>3, <1>4, <1>5, QuietInv

LEMMA NextInv == LanesInv /\ [Next]_vars => LanesInv'
<1>. SUFFICES ASSUME LanesInv, [Next]_vars PROVE LanesInv'  OBVIOUS
<1>0. /\ running \in BOOLEAN /\ (stop # "none" => ~running)
      /\ stop \in {"none", "flagged", "notified", "joined", "signalled", "finished"}
  BY DEF LanesInv, LanesTypeOK, LoopAgrees
<1>1. CASE \E r \in Requests, c \in Connections, i \in Ids, l \in Lanes : Receive(r, c, i, l)
  BY <1>1, ReceiveInv
<1>2. CASE HandleSubmit  BY <1>2, HandleSubmitInv
<1>3. CASE \E o \in SUBSET Connections : DrainResults(o)  BY <1>3, DrainResultsInv
<1>4. CASE \E c \in Connections : CloseConnection(c)  BY <1>4, CloseConnectionInv
<1>5. CASE LoopEnds  BY <1>0, <1>5, WokenInv DEF LoopEnds
<1>6. CASE LoopFails  BY <1>0, <1>6, WokenInv DEF LoopFails
<1>7. CASE \E w \in AllWorkers : Work(w)  BY <1>7, CheckInv, WaitInv, HandleInv, CompleteInv DEF Work
<1>8. CASE StopFlags  BY <1>0, <1>8, WokenInv DEF StopFlags
<1>9. CASE StopNotifies  BY <1>0, <1>9, WokenInv DEF StopNotifies
<1>10. CASE StopJoinsLoop  BY <1>0, <1>10, WokenInv DEF StopJoinsLoop
<1>11. CASE StopSignals  BY <1>0, <1>11, WokenInv DEF StopSignals
<1>12. CASE StopFinishes  BY <1>12, StopFinishesInv
<1>13. CASE UNCHANGED vars  BY <1>0, <1>13, WokenInv DEF vars
<1>. QED  BY <1>1, <1>2, <1>3, <1>4, <1>5, <1>6, <1>7, <1>8, <1>9, <1>10, <1>11, <1>12, <1>13 DEF Next, Stopping

\* The live requests of a connection have as many ids as they are.
LEMMA DistinctIds ==
    ASSUME NEW S \in SUBSET Requests, NEW I, NEW id \in [S -> I],
           \A i \in I : \E r \in S : id[r] = i,
           \A q, r \in S : id[q] = id[r] => q = r
    PROVE  Cardinality(I) = Cardinality(S)
<1>1. IsFiniteSet(S)  BY RequestsFinite, FS_Subset
<1>2. id \in Bijection(S, I)  BY DEF Bijection, Injection, Surjection, IsInjective
<1>3. ExistsBijection(S, I)  BY <1>2 DEF ExistsBijection
<1>. QED  BY <1>1, <1>3, FS_Bijection

LEMMA LanesInvSuffices == LanesInv => SubmitsAreExact
<1>. SUFFICES ASSUME LanesInv PROVE SubmitsAreExact  OBVIOUS
<1>1. ASSUME NEW c \in Connections, conns[c].open
      PROVE  /\ conns[c].pending = Cardinality(InFlight(c))
             /\ running =>
                  /\ conns[c].ids = {requests[r].id : r \in Alive(c)}
                  /\ Cardinality(conns[c].ids) = Cardinality(Alive(c))
  <2>1. conns[c].pending = Cardinality(InFlight(c))  BY <1>1 DEF LanesInv, ConnAgrees
  <2>2. ASSUME running
        PROVE  /\ conns[c].ids = {requests[r].id : r \in Alive(c)}
               /\ Cardinality(conns[c].ids) = Cardinality(Alive(c))
    <3>1. /\ \A r \in Alive(c) : requests[r].id \in conns[c].ids
          /\ \A i \in conns[c].ids : \E r \in Alive(c) : requests[r].id = i
          /\ \A q, r \in Alive(c) : requests[q].id = requests[r].id => q = r
      BY <1>1, <2>2 DEF LanesInv, ConnAgrees
    <3>2. conns[c].ids = {requests[r].id : r \in Alive(c)}  BY SMTT(30), <3>1
    <3>. DEFINE id == [r \in Alive(c) |-> requests[r].id]
    <3>3. id \in [Alive(c) -> conns[c].ids] /\ Alive(c) \in SUBSET Requests  BY <3>1 DEF Alive
    <3>4. /\ \A i \in conns[c].ids : \E r \in Alive(c) : id[r] = i
          /\ \A q, r \in Alive(c) : id[q] = id[r] => q = r
      BY <3>1
    <3>5. Cardinality(conns[c].ids) = Cardinality(Alive(c))  BY <3>3, <3>4, DistinctIds
    <3>. QED  BY <3>2, <3>5
  <2>. QED  BY <2>1, <2>2
<1>2. ASSUME NEW c \in Connections
      PROVE  InFlight(c) \cup {r \in Requests : requests[r].conn = c /\ requests[r].state = "admitting"} = Alive(c)
  BY DEF InFlight, Alive
<1>3. PendingIsExact  BY <1>1, <1>2 DEF PendingIsExact
<1>4. AdmittedIsHandled
  <2>. SUFFICES ASSUME \A w \in AllWorkers : workers[w].pc = "gone"
                PROVE  \A r \in Requests : requests[r].state # "queued"
    BY DEF AdmittedIsHandled
  <2>1. PICK v \in Workers, k \in CandidateWorkers : Lane(v) = "ordinary" /\ Lane(k) = "candidate"
    BY LanesAssumption DEF Lane
  <2>2. v \in AllWorkers /\ k \in AllWorkers  BY DEF AllWorkers
  <2>3. queues["ordinary"] = <<>> /\ queues["candidate"] = <<>>  BY <2>1, <2>2 DEF LanesInv, GoneAgree
  <2>4. \A l \in Lanes : Len(queues[l]) = 0  BY SMTT(30), <2>3 DEF Lanes
  <2>5. \A r \in Requests : requests[r].lane \in Lanes  BY DEF LanesInv, LanesTypeOK
  <2>. QED  BY SMTT(30), <2>4, <2>5 DEF LanesInv, QueuesAgree
<1>. QED  BY <1>3, <1>4 DEF SubmitsAreExact, LanesInv

\* No submission is lost or counted twice between the event loop and the workers, whatever
\* the limits of handle_submit and the number of workers: pending_submits counts what
\* is queued, with a worker or on its way back, live_request_ids are the ids of the live
\* requests, the reserve for candidates is never taken by others, and when stop() has
\* joined the workers everything admitted was handled.
THEOREM SubmitsAreExactAlways == Spec => []SubmitsAreExact
<1>1. Init => LanesInv  BY InitLanes
<1>2. LanesInv /\ [Next]_vars => LanesInv'  BY NextInv
<1>3. LanesInv => SubmitsAreExact  BY LanesInvSuffices
<1>. QED  BY <1>1, <1>2, <1>3, PTL DEF Spec

-----------------------------------------------------------------------------
(***************************************************************************)
(* The rate limiter: a peer that was forgotten is treated as if it had been *)
(* remembered.                                                             *)
(*                                                                         *)
(* Only a bucket that is full once refilled is forgotten, and such a bucket *)
(* is the one that a new peer gets.                                        *)
(***************************************************************************)

LEMMA Monotone == \A a, b, c \in Nat : a <= b => a * c <= b * c
BY SMTT(30)

\* A bucket that has not been touched for StaleAfter is full.
LEMMA StaleIsFull ==
    /\ Rate \in Nat /\ Burst * Grain \in Nat /\ StaleAfter \in Nat /\ Oldest \in Nat
    /\ StaleAfter * Rate >= Burst * Grain
<1>1. /\ Rate \in Nat \ {0} /\ Burst \in Nat \ {0} /\ Grain \in Nat \ {0} /\ MinStale \in Nat \ {0}
  BY RateAssumption
<1>. DEFINE q == (Burst + Rate - 1) \div Rate
<1>2. q \in Nat /\ q * Rate >= Burst
  <2>1. PICK x \in Nat : x = Burst + Rate - 1  BY SMTT(30), <1>1
  <2>2. x \div Rate \in Nat /\ x \in Int /\ Rate \in Nat \ {0}  BY SMTT(30), <1>1
  <2>3. x < Rate * (x \div Rate) + Rate  BY SMTT(30), <1>1
  <2>. QED  BY SMTT(30), <1>1, <2>1, <2>2, <2>3
<1>. HIDE DEF q
<1>3. PICK m \in Nat : m = Greater(MinStale, q) /\ m >= q  BY SMTT(30), <1>1, <1>2 DEF Greater
<1>4. StaleAfter = m * Grain  BY <1>3 DEF StaleAfter, q
<1>5. m * Rate >= Burst
  <2>1. q * Rate <= m * Rate  BY <1>1, <1>2, <1>3, Monotone
  <2>2. q * Rate \in Int /\ m * Rate \in Int  BY SMTT(30), <1>1, <1>2, <1>3
  <2>. QED  BY SMTT(30), <1>1, <1>2, <2>1, <2>2
<1>6. (m * Rate) * Grain >= Burst * Grain
  <2>1. m * Rate \in Nat  BY SMTT(30), <1>1, <1>3
  <2>. QED  BY <1>1, <1>5, <2>1, Monotone
<1>7. StaleAfter * Rate = (m * Rate) * Grain  BY SMTT(30), <1>1, <1>3, <1>4
<1>8. StaleAfter \in Nat /\ Burst * Grain \in Nat  BY SMTT(30), <1>1, <1>3, <1>4
<1>9. Oldest \in Nat  BY <1>8 DEF Oldest, Greater
<1>. QED  BY <1>1, <1>6, <1>7, <1>8, <1>9

LEMMA BucketFacts ==
    ASSUME NEW b \in BucketStates
    PROVE  /\ b.tokens \in Nat /\ b.age \in Nat /\ b.tokens <= Burst * Grain /\ b.age <= Oldest
           /\ b.age * Rate \in Nat
           /\ Refilled(b) \in BucketStates
           /\ Charged(Refilled(b)) \in BucketStates
           /\ Full(b) => Refilled(b) = FullBucket
           /\ b.age >= StaleAfter => Full(b)
           /\ Aged(b) \in BucketStates
           /\ Full(b) => Full(Aged(b))
           /\ b # NoBucket
<1>1. /\ Rate \in Nat /\ Burst * Grain \in Nat /\ StaleAfter \in Nat /\ Oldest \in Nat
      /\ StaleAfter * Rate >= Burst * Grain
  BY StaleIsFull
<1>2. /\ b.tokens \in Nat /\ b.age \in Nat /\ b.tokens <= Burst * Grain /\ b.age <= Oldest
      /\ b = [tokens |-> b.tokens, age |-> b.age]
  BY SMTT(30), <1>1 DEF BucketStates
<1>3. b.age * Rate \in Nat  BY SMTT(30), <1>1, <1>2
<1>4. PICK t \in Nat : t = Lesser(Burst * Grain, b.tokens + b.age * Rate) /\ t <= Burst * Grain
                       /\ (Full(b) => t = Burst * Grain)
  BY SMTT(30), <1>1, <1>2, <1>3 DEF Lesser, Full
<1>5. Refilled(b) = [tokens |-> t, age |-> 0]  BY <1>4 DEF Refilled
<1>6. Refilled(b) \in BucketStates  BY SMTT(30), <1>1, <1>4, <1>5 DEF BucketStates
<1>7. Charged(Refilled(b)) \in BucketStates
  <2>1. Grain \in Nat  BY RateAssumption
  <2>2. t >= Grain => t - Grain \in 0..(Burst * Grain)  BY SMTT(30), <1>1, <1>4, <2>1
  <2>. QED  BY SMTT(30), <1>5, <1>6, <2>2 DEF Charged, BucketStates
<1>8. Full(b) => Refilled(b) = FullBucket  BY <1>4, <1>5 DEF FullBucket
<1>9. b.age >= StaleAfter => Full(b)
  <2>. SUFFICES ASSUME b.age >= StaleAfter PROVE Full(b)  OBVIOUS
  <2>1. StaleAfter * Rate <= b.age * Rate  BY <1>1, <1>2, Monotone
  <2>2. StaleAfter * Rate \in Nat  BY SMTT(30), <1>1
  <2>. QED  BY SMTT(30), <1>1, <1>2, <1>3, <2>1, <2>2 DEF Full
<1>10. b # NoBucket  BY SMTT(30), <1>2 DEF NoBucket
<1>11. PICK a \in Nat : a = Lesser(Oldest, b.age + 1) /\ a >= b.age /\ a <= Oldest
  BY SMTT(30), <1>1, <1>2 DEF Lesser
<1>12. Aged(b) = [tokens |-> b.tokens, age |-> a]  BY <1>2, <1>10, <1>11 DEF Aged
<1>13. Aged(b) \in BucketStates  BY SMTT(30), <1>1, <1>2, <1>11, <1>12 DEF BucketStates
<1>14. Full(b) => Full(Aged(b))
  <2>1. b.age * Rate <= a * Rate /\ a * Rate \in Nat  BY SMTT(30), <1>1, <1>2, <1>11, Monotone
  <2>. QED  BY SMTT(30), <1>1, <1>2, <1>3, <1>12, <2>1 DEF Full
<1>. QED  BY <1>2, <1>3, <1>6, <1>7, <1>8, <1>9, <1>10, <1>13, <1>14

LEMMA FullBucketFacts == FullBucket \in BucketStates /\ Full(FullBucket) /\ Refilled(FullBucket) = FullBucket
<1>1. /\ Rate \in Nat /\ Burst * Grain \in Nat /\ StaleAfter \in Nat /\ Oldest \in Nat
  BY StaleIsFull
<1>2. FullBucket \in BucketStates  BY SMTT(30), <1>1 DEF FullBucket, BucketStates
<1>3. Full(FullBucket)  BY SMTT(30), <1>1 DEF FullBucket, Full
<1>. QED  BY <1>2, <1>3, BucketFacts

\* A sweep takes only buckets that are full.
LEMMA SweptTable == RateInv => RateTable(Swept) /\ Swept \in [Askers -> BucketStates \cup {NoBucket}]
<1>. SUFFICES ASSUME RateInv, NEW p \in Askers
              PROVE  /\ Swept[p] = fair[p] \/ (Swept[p] = NoBucket /\ Full(fair[p]))
                     /\ Swept[p] \in BucketStates \cup {NoBucket}
  BY DEF RateTable, Swept
<1>1. fair[p] \in BucketStates /\ (buckets[p] = fair[p] \/ (buckets[p] = NoBucket /\ Full(fair[p])))
  BY DEF RateInv, RateTable
<1>2. Swept[p] = IF buckets[p].age >= StaleAfter THEN NoBucket ELSE buckets[p]  BY DEF Swept
<1>3. CASE buckets[p] = fair[p]  BY <1>1, <1>2, <1>3, BucketFacts
<1>4. CASE buckets[p] = NoBucket /\ Full(fair[p])  BY <1>2, <1>4
<1>. QED  BY <1>1, <1>3, <1>4

LEMMA AdmitRequestInv ==
    ASSUME RateInv, NEW p \in Askers, AdmitRequest(p)
    PROVE  RateInv'
<1>1. PICK table \in [Askers -> BucketStates \cup {NoBucket}] :
         /\ RateTable(table)
         /\ table = IF buckets[p] = NoBucket /\ Cardinality(Held(buckets)) >= BucketLimit
                    THEN Swept ELSE buckets
  BY SweptTable DEF RateInv
<1>2. \/ buckets' = table /\ UNCHANGED fair
      \/ /\ buckets' = [table EXCEPT ![p] = Charged(Refilled(IF table[p] = NoBucket THEN FullBucket ELSE table[p]))]
         /\ fair' = [fair EXCEPT ![p] = Charged(Refilled(fair[p]))]
  BY <1>1 DEF AdmitRequest
<1>3. fair \in [Askers -> BucketStates]  BY DEF RateInv
<1>4. CASE buckets' = table /\ UNCHANGED fair  BY <1>1, <1>3, <1>4 DEF RateInv, RateTable
<1>5. CASE /\ buckets' = [table EXCEPT ![p] = Charged(Refilled(IF table[p] = NoBucket THEN FullBucket ELSE table[p]))]
           /\ fair' = [fair EXCEPT ![p] = Charged(Refilled(fair[p]))]
  <2>1. fair[p] \in BucketStates /\ fair[p] # NoBucket /\ Charged(Refilled(fair[p])) \in BucketStates
        /\ (Full(fair[p]) => Refilled(fair[p]) = FullBucket)
    BY <1>3, BucketFacts
  <2>2. table[p] = fair[p] \/ (table[p] = NoBucket /\ Full(fair[p]))  BY <1>1 DEF RateTable
  <2>3. Charged(Refilled(IF table[p] = NoBucket THEN FullBucket ELSE table[p])) = Charged(Refilled(fair[p]))
    <3>1. CASE table[p] = fair[p]  BY <2>1, <3>1
    <3>2. CASE table[p] = NoBucket /\ Full(fair[p])  BY <2>1, <3>2, FullBucketFacts
    <3>. QED  BY <2>2, <3>1, <3>2
  <2>4. PICK b \in BucketStates : b = Charged(Refilled(fair[p]))  BY <2>1
  <2>5. buckets' = [table EXCEPT ![p] = b] /\ fair' = [fair EXCEPT ![p] = b]  BY <1>5, <2>3, <2>4
  <2>6. /\ fair' \in [Askers -> BucketStates] /\ buckets' \in [Askers -> BucketStates \cup {NoBucket}]
        /\ fair'[p] = b /\ buckets'[p] = b
        /\ \A q \in Askers : q # p => fair'[q] = fair[q] /\ buckets'[q] = table[q]
    BY <1>1, <1>3, <2>5
  <2>. QED  BY <1>1, <2>6 DEF RateInv, RateTable
<1>. QED  BY <1>2, <1>4, <1>5

LEMMA TickInv == RateInv /\ Tick => RateInv'
<1>. SUFFICES ASSUME RateInv, Tick PROVE RateInv'  OBVIOUS
<1>1. \A p \in Askers : fair'[p] = Aged(fair[p]) /\ buckets'[p] = Aged(buckets[p])  BY DEF Tick
<1>2. ASSUME NEW p \in Askers
      PROVE  /\ fair'[p] \in BucketStates /\ buckets'[p] \in BucketStates \cup {NoBucket}
             /\ buckets'[p] = fair'[p] \/ (buckets'[p] = NoBucket /\ Full(fair'[p]))
  <2>1. fair[p] \in BucketStates /\ (buckets[p] = fair[p] \/ (buckets[p] = NoBucket /\ Full(fair[p])))
    BY DEF RateInv, RateTable
  <2>2. Aged(fair[p]) \in BucketStates /\ (Full(fair[p]) => Full(Aged(fair[p])))  BY <2>1, BucketFacts
  <2>3. Aged(NoBucket) = NoBucket  BY DEF Aged
  <2>. QED  BY <1>1, <2>1, <2>2, <2>3
<1>3. fair' \in [Askers -> BucketStates] /\ buckets' \in [Askers -> BucketStates \cup {NoBucket}]
  BY <1>2 DEF Tick
<1>. QED  BY <1>2, <1>3 DEF RateInv, RateTable

\* No order of requests, pauses and sweeps of the table gets a peer more than its rate
\* and burst allow (HttpServer::admit), for any number of peers, rate, burst and size
\* of the table: a bucket that was dropped would have been full.
THEOREM ForgettingIsFreeAlways == RateSpec => []ForgettingIsFree
<1>1. RateInit => RateInv
  <2>. SUFFICES ASSUME RateInit PROVE RateInv  OBVIOUS
  <2>1. FullBucket \in BucketStates /\ Full(FullBucket)  BY FullBucketFacts
  <2>. QED  BY <2>1 DEF RateInit, RateInv, RateTable
<1>2. RateInv /\ [RateNext]_rateVars => RateInv'
  <2>. SUFFICES ASSUME RateInv, [RateNext]_rateVars PROVE RateInv'  OBVIOUS
  <2>1. CASE UNCHANGED rateVars  BY <2>1 DEF rateVars, RateInv, RateTable
  <2>. QED  BY <2>1, TickInv, AdmitRequestInv DEF RateNext
<1>3. RateInv => ForgettingIsFree
  <2>. SUFFICES ASSUME RateInv, NEW p \in Askers
                PROVE  Refilled(IF buckets[p] = NoBucket THEN FullBucket ELSE buckets[p]) = Refilled(fair[p])
    BY DEF ForgettingIsFree
  <2>1. fair[p] \in BucketStates /\ (buckets[p] = fair[p] \/ (buckets[p] = NoBucket /\ Full(fair[p])))
    BY DEF RateInv, RateTable
  <2>2. fair[p] # NoBucket /\ (Full(fair[p]) => Refilled(fair[p]) = FullBucket)  BY <2>1, BucketFacts
  <2>. QED  BY SMTT(30), <2>1, <2>2, FullBucketFacts
<1>. QED  BY <1>1, <1>2, <1>3, PTL DEF RateSpec

===============================================================================
