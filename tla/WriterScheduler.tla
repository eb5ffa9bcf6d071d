--------------------------- MODULE WriterScheduler ---------------------------
(***************************************************************************)
(* WriterScheduler in src/src/db/database.cpp, the lock that every method  *)
(* of Database takes: a caller waits outside the queue while it has no     *)
(* room, then in one of two FIFO queues for its turn; priority callers go  *)
(* first and have places reserved.                                         *)
(*                                                                         *)
(* All waiting is on one condition variable under state_mutex_.  A caller  *)
(* whose predicate is false sleeps in the same step; only the notification *)
(* of unlock() is given after the mutex is free, and is a step of its own. *)
(***************************************************************************)
EXTENDS Integers, Sequences, FiniteSets, Functions

CONSTANTS
    Callers,         \* threads inside a method of Database
    Priority,        \* those that take a PriorityWriterLock
    MaxItems,        \* max_writer_queue_items
    MaxBytes,        \* max_writer_queue_bytes
    ReservedItems,   \* writer_priority_reserve_items
    EnvelopeBytes    \* kWriterEnvelopeBytes

\* What the constructor requires.
ASSUME SchedulerAssumption ==
    /\ Priority \subseteq Callers
    /\ MaxItems \in Nat /\ ReservedItems \in Nat /\ MaxItems > ReservedItems
    /\ MaxBytes \in Nat /\ EnvelopeBytes \in Nat \ {0}
    /\ MaxBytes - ReservedItems * EnvelopeBytes >= EnvelopeBytes

VARIABLES
    callers,     \* where each caller is
    priority_,   \* FIFO of admitted priority callers
    ordinary_,   \* FIFO of the others
    running_     \* somebody has the turn

schedulerVars == <<callers, priority_, ordinary_, running_>>

\* idle -> arriving <-> crowded (asleep for room) -> queued <-> asleep -> running
\* -> released (the notification is due) -> idle
CallerStates == {"idle", "arriving", "crowded", "queued", "asleep", "running", "released"}

SchedulerInit ==
    /\ callers = [p \in Callers |-> "idle"]
    /\ priority_ = <<>>
    /\ ordinary_ = <<>>
    /\ running_ = FALSE

\* condition_.notify_all(): whoever sleeps looks again.
Awoken(cs) ==
    [p \in Callers |-> CASE cs[p] = "crowded" -> "arriving"
                         [] cs[p] = "asleep" -> "queued"
                         [] OTHER -> cs[p]]

QueuedItems == Len(priority_) + Len(ordinary_)

\* Mutant: ordinary callers may take the reserve.
HasCapacityUnreserved(p) ==
    QueuedItems < MaxItems /\ QueuedItems * EnvelopeBytes <= MaxBytes - EnvelopeBytes

\* has_capacity
HasCapacity(p) ==
    /\ QueuedItems < MaxItems
    /\ QueuedItems * EnvelopeBytes <= MaxBytes - EnvelopeBytes
    /\ p \notin Priority =>
          /\ Len(ordinary_) < MaxItems - ReservedItems
          /\ Len(ordinary_) * EnvelopeBytes
                <= MaxBytes - ReservedItems * EnvelopeBytes - EnvelopeBytes

\* Mutant: a caller does not look whether somebody runs.
MyTurnAlways(p) ==
    IF p \in Priority THEN priority_ # <<>> /\ Head(priority_) = p
    ELSE priority_ = <<>> /\ ordinary_ # <<>> /\ Head(ordinary_) = p

\* The second predicate of acquire.
MyTurn(p) ==
    /\ ~running_
    /\ IF p \in Priority THEN priority_ # <<>> /\ Head(priority_) = p
       ELSE priority_ = <<>> /\ ordinary_ # <<>> /\ Head(ordinary_) = p

\* A method of Database is called.
Arrive(p) ==
    /\ callers[p] = "idle"
    /\ callers' = [callers EXCEPT ![p] = "arriving"]
    /\ UNCHANGED <<priority_, ordinary_, running_>>

\* acquire up to its second wait, and the wait for room.
Admit(p) ==
    /\ callers[p] = "arriving" /\ HasCapacity(p)
    /\ callers' = [Awoken(callers) EXCEPT ![p] = "queued"]
    /\ IF p \in Priority THEN priority_' = Append(priority_, p) /\ UNCHANGED ordinary_
       ELSE ordinary_' = Append(ordinary_, p) /\ UNCHANGED priority_
    /\ UNCHANGED running_

AwaitRoom(p) ==
    /\ callers[p] = "arriving" /\ ~HasCapacity(p)
    /\ callers' = [callers EXCEPT ![p] = "crowded"]
    /\ UNCHANGED <<priority_, ordinary_, running_>>

\* Mutant: whoever takes the turn does not say that there is room.
WokenByGrantNone(cs) == cs

\* The notification at the end of acquire.
WokenByGrant(cs) == Awoken(cs)

\* acquire returns, or goes on waiting.
TakeTurn(p) ==
    /\ callers[p] = "queued" /\ MyTurn(p)
    /\ callers' = [WokenByGrant(callers) EXCEPT ![p] = "running"]
    /\ IF p \in Priority THEN priority_' = Tail(priority_) /\ UNCHANGED ordinary_
       ELSE ordinary_' = Tail(ordinary_) /\ UNCHANGED priority_
    /\ running_' = TRUE

AwaitTurn(p) ==
    /\ callers[p] = "queued" /\ ~MyTurn(p)
    /\ callers' = [callers EXCEPT ![p] = "asleep"]
    /\ UNCHANGED <<priority_, ordinary_, running_>>

\* unlock: the flag, then the notification.
Unlock(p) ==
    /\ callers[p] = "running"
    /\ running_' = FALSE
    /\ callers' = [callers EXCEPT ![p] = "released"]
    /\ UNCHANGED <<priority_, ordinary_>>

NotifyUnlocked(p) ==
    /\ callers[p] = "released"
    /\ callers' = [Awoken(callers) EXCEPT ![p] = "idle"]
    /\ UNCHANGED <<priority_, ordinary_, running_>>

\* What the scheduler does for a caller between its call and its turn, and after.
Schedule(p) == Admit(p) \/ AwaitRoom(p) \/ TakeTurn(p) \/ AwaitTurn(p) \/ NotifyUnlocked(p)

SchedulerNext == \E p \in Callers : Arrive(p) \/ Schedule(p) \/ Unlock(p)
SchedulerSpec == SchedulerInit /\ [][SchedulerNext]_schedulerVars
-----------------------------------------------------------------------------
\* At most one caller has the turn and running_ says whether one has; the queues
\* hold exactly the callers that wait for theirs, each once.
OneWriterAtATime ==
    /\ \A p, q \in Callers : callers[p] = "running" /\ callers[q] = "running" => p = q
    /\ running_ <=> \E p \in Callers : callers[p] = "running"
    /\ \A p \in Callers :
          callers[p] \in {"queued", "asleep"} <=> p \in Range(priority_) \cup Range(ordinary_)
    /\ IsInjective(priority_) /\ IsInjective(ordinary_)

\* Nobody sleeps who could go on, unless a notification is still due: neither a
\* caller whose turn it is nor one for whom there is room.
NoTurnIsLost ==
    (\E p \in Callers : \/ callers[p] = "asleep" /\ MyTurn(p)
                        \/ callers[p] = "crowded" /\ HasCapacity(p))
        => \E q \in Callers : callers[q] = "released"

\* Ordinary callers leave the reserve alone however they arrive: a priority caller
\* waits for room only while that many others of its kind are queued.
ReserveIsKept ==
    \A p \in Priority : callers[p] \in {"arriving", "crowded"} /\ ~HasCapacity(p) => Len(priority_) >= ReservedItems

\* One writer at a time, no lost wake-up, and the reserve is there for the journal.
WriterQueueIsSound == OneWriterAtATime /\ NoTurnIsLost /\ ReserveIsKept
=============================================================================
