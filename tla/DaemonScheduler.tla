--------------------------- MODULE DaemonScheduler ---------------------------
(***************************************************************************)
(* The admission of RPCs in src/src/daemon/daemon.cpp: at most             *)
(* MaxConcurrent requests on the wire, a bounded number admitted, one      *)
(* place kept for priority requests (submissions and lookups of            *)
(* candidates), which also go first.                                       *)
(*                                                                         *)
(* A caller whose predicate is false sleeps in the same step; the          *)
(* notification of a release is given after scheduler_mutex_ is free.      *)
(***************************************************************************)
EXTENDS Integers, FiniteSets

CONSTANTS
    Threads,          \* threads that send requests
    Urgent,           \* those that send priority requests
    MaxConcurrent,    \* max_concurrent_requests_
    MaxRpcs           \* max_pending_requests_

ASSUME DaemonAssumption ==
    /\ Urgent \subseteq Threads /\ IsFiniteSet(Threads)
    /\ MaxConcurrent \in Nat \ {0} /\ MaxRpcs \in Nat /\ MaxRpcs >= 2

VARIABLES
    rpcs,        \* where each thread is in post()
    scheduler    \* inflight, waiting, priority_waiting and stopping

daemonVars == <<rpcs, scheduler>>

\* out -> waiting <-> asleep -> wire -> released (the notification is due) -> out;
\* refused: post() returns without an attempt.
RequestStates == {"out", "waiting", "asleep", "wire", "released", "refused"}

DaemonInit ==
    /\ rpcs = [t \in Threads |-> "out"]
    /\ scheduler = [inflight |-> 0, waiting |-> 0, priority_waiting |-> 0, stopping |-> FALSE]

NotifiedRpcs(rs) == [t \in Threads |-> IF rs[t] = "asleep" THEN "waiting" ELSE rs[t]]

One(t) == IF t \in Urgent THEN 1 ELSE 0

AdmittedLimit(t) == IF t \in Urgent THEN MaxRpcs ELSE MaxRpcs - 1

\* acquire_request_slot up to the wait.
AskForSlot(t) ==
    /\ rpcs[t] = "out"
    /\ IF scheduler.stopping \/ scheduler.inflight + scheduler.waiting >= AdmittedLimit(t)
       THEN rpcs' = [rpcs EXCEPT ![t] = "refused"] /\ UNCHANGED scheduler
       ELSE /\ rpcs' = [rpcs EXCEPT ![t] = "waiting"]
            /\ scheduler' = [scheduler EXCEPT !.waiting = @ + 1, !.priority_waiting = @ + One(t)]

MaySend(t) ==
    \/ scheduler.stopping
    \/ /\ scheduler.inflight < MaxConcurrent
       /\ t \in Urgent \/ scheduler.priority_waiting = 0

\* Mutant: a caller that got its slot still counts as waiting.
AfterWaitKeepsPriority(t) == [scheduler EXCEPT !.waiting = @ - 1]

AfterWait(t) == [scheduler EXCEPT !.waiting = @ - 1, !.priority_waiting = @ - One(t)]

\* The rest of acquire_request_slot.
TakeSlot(t) ==
    /\ rpcs[t] = "waiting"
    /\ IF MaySend(t)
       THEN IF scheduler.stopping
            THEN rpcs' = [rpcs EXCEPT ![t] = "refused"] /\ scheduler' = AfterWait(t)
            ELSE /\ rpcs' = [rpcs EXCEPT ![t] = "wire"]
                 /\ scheduler' = [AfterWait(t) EXCEPT !.inflight = @ + 1]
       ELSE rpcs' = [rpcs EXCEPT ![t] = "asleep"] /\ UNCHANGED scheduler

\* release_request_slot: the answer, an error or the timeout has come.
ReleaseSlot(t) ==
    /\ rpcs[t] = "wire"
    /\ rpcs' = [rpcs EXCEPT ![t] = "released"]
    /\ scheduler' = [scheduler EXCEPT !.inflight = IF @ = 0 THEN 0 ELSE @ - 1]

NotifyReleased(t) ==
    /\ rpcs[t] = "released"
    /\ rpcs' = [NotifiedRpcs(rpcs) EXCEPT ![t] = "out"]
    /\ UNCHANGED scheduler

\* post() returns its refusal.
ReturnRefusal(t) ==
    /\ rpcs[t] = "refused"
    /\ rpcs' = [rpcs EXCEPT ![t] = "out"]
    /\ UNCHANGED scheduler

\* stop(); nobody tests the flag between its change and the notification but in
\* the way a woken thread does.
StopDaemon ==
    /\ scheduler' = [scheduler EXCEPT !.stopping = TRUE]
    /\ rpcs' = NotifiedRpcs(rpcs)

RequestStep(t) == TakeSlot(t) \/ ReleaseSlot(t) \/ NotifyReleased(t) \/ ReturnRefusal(t)
-----------------------------------------------------------------------------
In(states) == {t \in Threads : rpcs[t] \in states}

\* The three counters count the threads in their states through every wait, refusal,
\* release and stop, so the requests on the wire keep to their limit and no request of a
\* candidate that has left the queue holds ordinary ones back.
SlotsAreExact ==
    /\ scheduler.inflight = Cardinality(In({"wire"})) /\ scheduler.inflight <= MaxConcurrent
    /\ scheduler.waiting = Cardinality(In({"waiting", "asleep"}))
    /\ scheduler.priority_waiting = Cardinality(In({"waiting", "asleep"}) \cap Urgent)
=============================================================================
