-------------------------- MODULE CompletionMailbox --------------------------
(***************************************************************************)
(* CompletionMailbox in src/src/verifier/completion_mailbox.cpp: submit    *)
(* workers wait here, one slot per share, for the completions that the     *)
(* verifier thread publishes.                                              *)
(*                                                                         *)
(* Its methods are operators on the value of the mailbox: closed, the      *)
(* slot of each tag ("none", "empty" or "full") and the tags whose owners  *)
(* sleep in wait().  Runtime waits without timeout.  Every change is made  *)
(* under mutex_ and always followed by its notification: they are one.     *)
(***************************************************************************)
EXTENDS Integers, FiniteSets

CONSTANTS
    Tags,        \* user tags: share ids
    Capacity     \* capacity_

ASSUME MailboxAssumption == Capacity \in Nat \ {0}

VARIABLE mailbox

MailboxInit == mailbox = [closed |-> FALSE, slots |-> [t \in Tags |-> "none"], asleep |-> {}]

Slots(m) == {t \in Tags : m.slots[t] # "none"}

\* condition_.notify_all()
NotifiedMailbox(m) == [m EXCEPT !.asleep = {}]

\* register_waiter
MayRegister(m, t) == ~m.closed /\ Cardinality(Slots(m)) < Capacity /\ t \notin Slots(m)
Registered(m, t) == [m EXCEPT !.slots[t] = "empty"]

\* cancel
Cancelled(m, t) == NotifiedMailbox([m EXCEPT !.slots[t] = "none"])

\* Mutant: publish makes a slot where there is none.
PublishedAlways(m, t) == NotifiedMailbox([m EXCEPT !.slots[t] = "full"])

\* publish: a completion nobody waits for, or the second for one slot, is dropped.
Published(m, t) ==
    IF ~m.closed /\ m.slots[t] = "empty"
    THEN NotifiedMailbox([m EXCEPT !.slots[t] = "full"]) ELSE m

\* Mutant: close leaves the sleepers asleep.
ClosedSilently(m) == [m EXCEPT !.closed = TRUE, !.slots = [t \in Tags |-> "none"]]

\* close
Closed(m) == NotifiedMailbox([m EXCEPT !.closed = TRUE, !.slots = [t \in Tags |-> "none"]])

\* wait: its predicate, and the slot it removes; a full one is its result.
WaitIsOver(m, t) == m.closed \/ m.slots[t] # "empty"
Waited(m, t) == [m EXCEPT !.slots[t] = "none"]
=============================================================================
