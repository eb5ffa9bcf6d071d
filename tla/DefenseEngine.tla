---------------------------- MODULE DefenseEngine ----------------------------
(***************************************************************************)
(* src/src/stratum/defense.cpp and the durable bans of src/src/db: bounded *)
(* peer states in least-recently-used order, candidates in flight,         *)
(* sustained-rate and evidence bans, the fail-closed interval when the ban *)
(* table is full, and the rows that a restart restores.                    *)
(*                                                                         *)
(* Every call runs under the engine's mutex; the ban callback writes its   *)
(* row after the mutex is free.  One clock in seconds stands for the wall  *)
(* clock and the steady one.  Token buckets answer as they like.           *)
(***************************************************************************)
EXTENDS Integers, Sequences, FiniteSets, FiniteSetsExt, Functions

CONSTANTS
    Peers,           \* normalized addresses
    RateKinds,       \* which of connection, request and submit are called
    AbuseKinds,      \* kinds of evidence passed to record
    Limit,           \* events of a kind that make a ban
    Window,          \* seconds in which they count
    Threshold,       \* attempts per second that are hammering
    Sustain,         \* hammer_sustain_seconds
    BanSeconds,      \* ban_seconds
    Ttl,             \* seconds after which an idle peer is forgotten (24 h)
    MaxPeerStates,   \* max_peer_states
    MaxActiveBans,   \* max_active_bans
    PerPeer,         \* candidate_inflight_per_ip
    Global,          \* candidate_global_inflight
    MaxTime          \* bound on the clock

ASSUME DefenseAssumption ==
    /\ Limit \in [AbuseKinds -> Nat \ {0}] /\ Window \in [AbuseKinds -> Nat]
    /\ {Threshold, Sustain, BanSeconds, MaxPeerStates, MaxActiveBans, PerPeer, Global}
           \subseteq Nat \ {0}
    /\ {Ttl, MaxTime} \subseteq Nat
    /\ "candidate" \notin RateKinds

VARIABLES
    now,          \* the clock
    peers,        \* peers_, for the peers known
    lru,          \* peer_lru_
    bans,         \* bans_: expiry by peer, 0 without a ban
    overflow,     \* ban_overflow_until_, 0 when unset
    inflight,     \* candidate_global_inflight_
    tasks,        \* candidate tasks that hold an in-flight reference, by peer
    persisting,   \* bans whose callback has not returned
    ban_rows,     \* active rows of the table bans: expiry by peer, 0 without one
    announced     \* history: the end of the ban that this process made or restored, by
                  \* peer, 0 when there is none or it is over

vars == <<now, peers, lru, bans, overflow, inflight, tasks, persisting, ban_rows, announced>>
tables == <<persisting, ban_rows, announced>>

Kinds == RateKinds \cup {"candidate"}
Never == -1
Hammer == [bucket : Never..MaxTime, attempts : 0..Threshold, consecutive : 0..MaxTime]
NewHammer == [bucket |-> Never, attempts |-> 0, consecutive |-> 0]

\* A history variable in each peer's state, for the properties: attempts in this
\* second, full seconds of hammering before it, and the events of the last seconds.
Watch == [count : [Kinds -> 0..Threshold], streak : [Kinds -> 0..Sustain],
          events : [AbuseKinds -> Seq(Nat)]]
NothingSeen == [count |-> [k \in Kinds |-> 0], streak |-> [k \in Kinds |-> 0],
                events |-> [a \in AbuseKinds |-> [i \in 1..(Window[a] + 1) |-> 0]]]

NewPeer == [hammer |-> [k \in Kinds |-> NewHammer], inflight |-> 0,
            evidence |-> [a \in AbuseKinds |-> <<>>], last |-> now,
            seen |-> NothingSeen]
Bans == [peer : Peers, expires : Nat, reason : {"rate_hammer"} \cup AbuseKinds]

\* The bounds hold, and the list orders exactly the known peers.
DefenseTypeOK ==
    /\ now \in 0..MaxTime
    /\ DOMAIN peers \subseteq Peers /\ Cardinality(DOMAIN peers) <= MaxPeerStates
    /\ \A p \in DOMAIN peers :
          /\ peers[p].hammer \in [Kinds -> Hammer]
          /\ peers[p].inflight \in 0..PerPeer
          /\ peers[p].evidence \in [AbuseKinds -> Seq(0..now)]
          /\ peers[p].last \in 0..now /\ peers[p].seen \in Watch
    /\ Range(lru) = DOMAIN peers /\ IsInjective(lru)
    /\ bans \in [Peers -> Nat] /\ Cardinality({p \in Peers : bans[p] # 0}) <= MaxActiveBans
    /\ overflow \in Nat
    /\ inflight \in 0..Global
    /\ tasks \in [Peers -> Nat]
    /\ persisting \subseteq Bans
    /\ ban_rows \in [Peers -> Nat] /\ announced \in [Peers -> Nat]

Init ==
    /\ now = 0
    /\ peers = [p \in {} |-> NewPeer] /\ lru = <<>>
    /\ bans = [p \in Peers |-> 0] /\ overflow = 0
    /\ inflight = 0 /\ tasks = [p \in Peers |-> 0]
    /\ persisting = {} /\ ban_rows = [p \in Peers |-> 0] /\ announced = [p \in Peers |-> 0]
-----------------------------------------------------------------------------
(* Peer states.  An operator maps the map and the list, as one record, to
   their next value. *)

Engine == [peers |-> peers, lru |-> lru]

Without(list, p) == SelectSeq(list, LAMBDA q : q # p)

Erase(e, p) == [peers |-> Restrict(e.peers, DOMAIN e.peers \ {p}), lru |-> Without(e.lru, p)]

\* Mutant: the list keeps the old place, too.
TouchUnlinked(e, p) == [peers |-> [e.peers EXCEPT ![p].last = now], lru |-> Append(e.lru, p)]

\* touch_peer_locked
Touch(e, p) == [peers |-> [e.peers EXCEPT ![p].last = now], lru |-> Append(Without(e.lru, p), p)]

\* Mutant: candidates in flight do not protect a peer.
EvictableAlways(e, p) == TRUE

Evictable(e, p) == e.peers[p].inflight = 0

Stale(e, p) == Evictable(e, p) /\ e.peers[p].last < now - Ttl

\* The stale peers at the front of the list go.
DropStale(e) ==
    LET fresh == {i \in DOMAIN e.lru : ~Stale(e, e.lru[i])}
        kept == IF fresh = {} THEN <<>> ELSE SubSeq(e.lru, Min(fresh), Len(e.lru))
    IN [peers |-> Restrict(e.peers, Range(kept)), lru |-> kept]

\* With all places taken, the first peer that may go does, and those passed over
\* move to the end of the list.
MakeRoom(e) ==
    LET victims == {i \in DOMAIN e.lru : Evictable(e, e.lru[i])}
        v == Min(victims)
    IN IF Cardinality(DOMAIN e.peers) < MaxPeerStates \/ victims = {} THEN e
       ELSE [peers |-> Restrict(e.peers, DOMAIN e.peers \ {e.lru[v]}),
             lru |-> SubSeq(e.lru, v + 1, Len(e.lru)) \o SubSeq(e.lru, 1, v - 1)]

Create(e, p) ==
    IF Cardinality(DOMAIN e.peers) >= MaxPeerStates THEN e
    ELSE [peers |-> [q \in DOMAIN e.peers \cup {p} |-> IF q = p THEN NewPeer ELSE e.peers[q]],
          lru |-> Append(e.lru, p)]

\* find_or_create_peer_locked; the peer is not among the result's peers when
\* the code returns nullptr.
FindOrCreate(p) ==
    IF p \in DOMAIN peers /\ ~Stale(Engine, p) THEN Touch(Engine, p)
    ELSE LET e == IF p \in DOMAIN peers THEN Erase(Engine, p) ELSE Engine
         IN Create(MakeRoom(DropStale(e)), p)
-----------------------------------------------------------------------------
(* Bans. *)

\* expire_locked, which every call begins with.
LiveBans == [p \in Peers |-> IF bans[p] <= now THEN 0 ELSE bans[p]]
LiveOverflow == IF overflow <= now THEN 0 ELSE overflow

Denied(p) == LiveBans[p] # 0 \/ LiveOverflow # 0

Expiry == now + BanSeconds

\* Mutant: a ban for which the table has no place is dropped.
OverflowOfFullTableUnset == LiveOverflow

OverflowOfFullTable == Expiry

\* insert_ban_locked for a peer that is not denied (so the interval is unset), and
\* the callback that follows.
Ban(p, reason) ==
    /\ IF Cardinality({q \in Peers : LiveBans[q] # 0}) >= MaxActiveBans
       THEN bans' = LiveBans /\ overflow' = OverflowOfFullTable
       ELSE bans' = [LiveBans EXCEPT ![p] = Expiry] /\ overflow' = LiveOverflow
    /\ persisting' = persisting \cup {[peer |-> p, expires |-> Expiry, reason |-> reason]}
    /\ announced' = [announced EXCEPT ![p] = Expiry]
    /\ UNCHANGED ban_rows

NoBan == bans' = LiveBans /\ overflow' = LiveOverflow /\ UNCHANGED tables

\* Mutant: a pause does not end the streak.
SustainedAnyGap(h) == h.attempts >= Threshold

Sustained(h) == now = h.bucket + 1 /\ h.attempts >= Threshold

Counted(n) == IF n < Threshold THEN n + 1 ELSE n

\* observe_hammer_locked: the state of a hammer after an attempt.
Observe(h, counts) ==
    IF h.bucket = Never
    THEN [h EXCEPT !.bucket = now, !.attempts = IF counts THEN 1 ELSE 0]
    ELSE IF h.bucket = now
    THEN [h EXCEPT !.attempts = IF counts THEN Counted(@) ELSE @]
    ELSE [bucket |-> now, attempts |-> IF counts THEN 1 ELSE 0,
          consecutive |-> IF Sustained(h) THEN h.consecutive + 1 ELSE 0]

\* The attempt is the one that makes the ban.
Hammers(h) == h.bucket \notin {Never, now} /\ Observe(h, TRUE).consecutive >= Sustain

-----------------------------------------------------------------------------
(* The calls. *)

\* A banned peer, or one for which there is no room, is turned away.
Refuse(p, e) ==
    /\ NoBan
    /\ IF Denied(p) THEN UNCHANGED <<peers, lru>> ELSE peers' = e.peers /\ lru' = e.lru
    /\ UNCHANGED <<now, inflight, tasks>>

Refused(p, e) == Denied(p) \/ p \notin DOMAIN e.peers

\* admit_connection, admit_request and admit_submit; the token bucket changes
\* nothing that another call reads.
AdmitRate(p, k) ==
    LET e == FindOrCreate(p)
    IN IF Refused(p, e) THEN Refuse(p, e)
    ELSE LET h == e.peers[p].hammer[k]
         IN /\ peers' = [e.peers EXCEPT ![p].hammer[k] = Observe(h, TRUE),
                                       ![p].seen.count[k] = Counted(@)]
            /\ lru' = e.lru
            /\ IF Hammers(h) THEN Ban(p, "rate_hammer") ELSE NoBan
            /\ UNCHANGED <<now, inflight, tasks>>

Capped(e, p) == inflight >= Global \/ e.peers[p].inflight >= PerPeer

\* admit_candidate: only a denial counts as an attempt.
AdmitCandidate(p, tokens) ==
    LET e == FindOrCreate(p)
    IN IF Refused(p, e) THEN Refuse(p, e)
    ELSE LET h == e.peers[p].hammer["candidate"]
             denied == Capped(e, p) \/ ~tokens
             admitted == ~Hammers(h) /\ ~denied
             n == IF admitted THEN 1 ELSE 0
             after == IF ~Hammers(h) /\ denied THEN Observe(Observe(h, FALSE), TRUE)
                      ELSE Observe(h, FALSE)
         IN /\ peers' = [e.peers EXCEPT ![p].hammer["candidate"] = after, ![p].inflight = @ + n,
                  ![p].seen.count["candidate"] = IF denied THEN Counted(@) ELSE @]
            /\ lru' = e.lru
            /\ inflight' = inflight + n
            /\ tasks' = [tasks EXCEPT ![p] = @ + n]
            /\ IF Hammers(h) THEN Ban(p, "rate_hammer") ELSE NoBan
            /\ UNCHANGED now

\* A task drops its in-flight reference: candidate_finished.
CandidateFinished(p) ==
    /\ tasks[p] > 0
    /\ tasks' = [tasks EXCEPT ![p] = @ - 1]
    /\ IF p \in DOMAIN peers /\ peers[p].inflight # 0
       THEN /\ peers' = [Touch(Engine, p).peers EXCEPT ![p].inflight = @ - 1]
            /\ lru' = Touch(Engine, p).lru
            /\ inflight' = IF inflight # 0 THEN inflight - 1 ELSE 0
       ELSE UNCHANGED <<peers, lru, inflight>>
    /\ UNCHANGED <<now, bans, overflow, tables>>

\* record, with the limit and the window that threshold gives the kind.
Record(p, a) ==
    LET e == FindOrCreate(p)
    IN IF Refused(p, e) THEN Refuse(p, e)
    ELSE LET Recent(t) == t >= now - Window[a]
             events == Append(SelectSeq(e.peers[p].evidence[a], Recent), now)
         IN /\ peers' = [e.peers EXCEPT ![p].evidence[a] = events,
                                       ![p].seen.events[a][1] = Min({@ + 1, Limit[a]})]
            /\ lru' = e.lru
            /\ IF Len(events) >= Limit[a] THEN Ban(p, a) ELSE NoBan
            /\ UNCHANGED <<now, inflight, tasks>>

\* expire, and banned, which the event loop asks for every connection.
Expire == NoBan /\ UNCHANGED <<now, peers, lru, inflight, tasks>>
-----------------------------------------------------------------------------
(* The table bans and the process. *)

\* The ban callback: create_ban leaves the peer's active row, if it has one.
Persist(b) ==
    /\ persisting' = persisting \ {b}
    /\ ban_rows' = IF ban_rows[b.peer] # 0 THEN ban_rows ELSE [ban_rows EXCEPT ![b.peer] = b.expires]
    /\ UNCHANGED <<now, peers, lru, bans, overflow, inflight, tasks, announced>>

LiveRows == [p \in Peers |-> IF ban_rows[p] <= now THEN 0 ELSE ban_rows[p]]

\* expire_bans, from the template loop.
ExpireBans ==
    /\ ban_rows' = LiveRows
    /\ UNCHANGED <<now, peers, lru, bans, overflow, inflight, tasks, persisting, announced>>

\* Mutant: what the table has no place for is left out.
RestoredOverflowNone(rest) == 0

RestoredOverflow(rest) == IF rest = {} THEN 0 ELSE Max({LiveRows[p] : p \in rest})

\* The process ends at any moment and starts again: load_active_bans, then
\* restore_ban for every row, of which the first find a place.
Restart ==
    /\ ban_rows' = LiveRows /\ announced' = LiveRows
    /\ LET live == {p \in Peers : LiveRows[p] # 0}
       IN \E placed \in SUBSET live :
            /\ Cardinality(placed) = Min({Cardinality(live), MaxActiveBans})
            /\ bans' = [p \in Peers |-> IF p \in placed THEN LiveRows[p] ELSE 0]
            /\ overflow' = RestoredOverflow(live \ placed)
    /\ peers' = [p \in {} |-> NewPeer] /\ lru' = <<>>
    /\ inflight' = 0 /\ tasks' = [p \in Peers |-> 0] /\ persisting' = {}
    /\ UNCHANGED now

SecondLater(seen) ==
    [count |-> NothingSeen.count,
     streak |-> [k \in Kinds |-> IF seen.count[k] < Threshold THEN 0
                                 ELSE Min({seen.streak[k] + 1, Sustain})],
     events |-> [a \in AbuseKinds |-> <<0>> \o SubSeq(seen.events[a], 1, Window[a])]]

Tick ==
    /\ now < MaxTime
    /\ now' = now + 1
    /\ peers' = [p \in DOMAIN peers |-> [peers[p] EXCEPT !.seen = SecondLater(@)]]
    /\ announced' = [p \in Peers |-> IF announced[p] <= now + 1 THEN 0 ELSE announced[p]]
    /\ UNCHANGED <<lru, bans, overflow, inflight, tasks, persisting, ban_rows>>

PeerCall(p) ==
    \/ \E k \in RateKinds : AdmitRate(p, k)
    \/ \E tokens \in BOOLEAN : AdmitCandidate(p, tokens)
    \/ CandidateFinished(p)
    \/ \E a \in AbuseKinds : Record(p, a)

Next ==
    \/ \E p \in Peers : PeerCall(p)
    \/ \E b \in persisting : Persist(b)
    \/ Expire \/ ExpireBans \/ Restart \/ Tick

Spec == Init /\ [][Next]_vars
-----------------------------------------------------------------------------
\* Whatever peers are forgotten, evicted or banned meanwhile, the counters of
\* candidate_finished and admit_candidate are the tasks that hold a reference:
\* no slot is lost for good, none is given twice.  The tables keep their limits, and
\* the list of peers by age is exactly the table's.
InflightIsExact ==
    /\ DefenseTypeOK
    /\ inflight = MapThenSumSet(LAMBDA p : tasks[p], Peers)
    /\ \A p \in Peers : tasks[p] = IF p \in DOMAIN peers THEN peers[p].inflight ELSE 0

\* A ban that insert_ban_locked has made is enforced to its end as long as the process
\* runs, by its own entry or by the fail-closed interval, whether its callback is still to
\* come, has written a row, or has found the peer's old row and written none; and so is
\* every ban with a row, after any number of restarts.  A restart loses the ban that has no
\* row (BanIsDurable).
ActiveBanIsEnforced == \A p \in Peers : announced[p] > now \/ ban_rows[p] > now => Denied(p)

\* A ban is backed by what the peer really did: hammering in each of the last
\* Sustain whole seconds, whatever pauses and evictions observe_hammer_locked
\* went through, or as many events as record's limit within its window.
BanIsBacked ==
    [][\A b \in persisting' \ persisting :
          LET seen == peers'[b.peer].seen
          IN IF b.reason = "rate_hammer" THEN \E k \in Kinds : seen.streak[k] >= Sustain
             ELSE FoldFunction(+, 0, seen.events[b.reason]) >= Limit[b.reason]]_vars

\* When the callback of a ban that is not over has returned, the table holds a row
\* that lasts as long: the ban will be there after a restart.
BanIsDurable ==
    [][\A b \in persisting :
          Persist(b) /\ b.expires > now => ban_rows'[b.peer] >= b.expires]_vars
=============================================================================
