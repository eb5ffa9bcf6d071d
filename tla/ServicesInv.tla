----------------------------- MODULE ServicesInv ------------------------------
(***************************************************************************)
(* The inductive invariants of WriterScheduler, EventFeed, HookSupervisor, *)
(* Entropy and DefenseEngine and the parts they are made of, with the      *)
(* shapes of steps that ServicesProofs reasons about.                      *)
(***************************************************************************)
EXTENDS EventFeed, HookSupervisor, Entropy, DefenseEngine

-----------------------------------------------------------------------------
(* EventFeed *)

\* The state's shape, and what has_capacity keeps of the ordinary queue.
SchedulerTypeOK ==
    /\ callers \in [Callers -> CallerStates]
    /\ priority_ \in Seq(Priority)
    /\ ordinary_ \in Seq(Callers \ Priority)
    /\ running_ \in BOOLEAN

OrdinaryFits ==
    /\ Len(ordinary_) <= MaxItems - ReservedItems
    /\ Len(ordinary_) * EnvelopeBytes <= MaxBytes - ReservedItems * EnvelopeBytes

SchedulerInv == SchedulerTypeOK /\ OneWriterAtATime /\ OrdinaryFits /\ NoTurnIsLost

-----------------------------------------------------------------------------
\* The last id committed: one transaction at a time holds an id that is not.
Inserting == \E w \in Writers : writes[w].state = "inserted"

Top == IF Inserting THEN events.sequence - 1 ELSE events.sequence

\* The ids committed are those from 1 on without a gap.
TableAgrees ==
    /\ events \in [committed : SUBSET Nat, sequence : Nat]
    /\ events.committed = 1..Top
    /\ writes \in [Writers -> [state : {"new", "inserted", "ended"}, id : Nat]]
    /\ \A w \in Writers : writes[w].state = "inserted" =>
          callers[w] = "running" /\ writes[w].id = events.sequence /\ events.sequence >= 1

\* What is loaded and not yet published follows the last event published.
ForwardAgrees ==
    /\ forward \in [pc : {"load", "loading", "empty", "publish", "gone"}, last : Nat, rows : Seq(Nat)]
    /\ watermark = forward.last
    /\ \A k \in 1..Len(forward.rows) : forward.rows[k] = forward.last + k
    /\ forward.last + Len(forward.rows) <= Top
    /\ forward.pc = "publish" => forward.rows # <<>>

ClientStates == [state : {"none", "open", "closed"}, mark : Nat, output : Seq(Nat), got : Seq(Nat),
                 cursor : Nat, history : Seq(Nat), more : BOOLEAN]

\* The k-th frame of a client with that mark.
FrameAt(mark, k) == IF k = 1 THEN 0 ELSE mark + (k - 1)

\* got and output are the frames in order up to w, the last event published; output
\* is what is left when the client is open.  The history ends where the cursor is, or
\* has all that was committed at the last page; t is the last event committed.
Follows(client, w, t) ==
    /\ client.mark <= w
    /\ \A k \in 1..Len(client.got) : client.got[k] = FrameAt(client.mark, k)
    /\ client.state = "open" =>
          /\ Len(client.got) + Len(client.output) = 1 + (w - client.mark)
          /\ \A k \in 1..Len(client.output) :
                client.output[k] = FrameAt(client.mark, Len(client.got) + k)
    /\ client.state # "open" =>
          client.output = <<>> /\ Len(client.got) <= 1 + (w - client.mark)
    /\ \A k \in 1..Len(client.history) : client.history[k] = k
    /\ Len(client.history) <= t
    /\ client.more => client.cursor = Len(client.history)
    /\ ~client.more => Len(client.history) >= client.mark
    /\ client.state = "none" => client = NoClient

FeedInv ==
    /\ SchedulerInv
    /\ TableAgrees
    /\ ForwardAgrees
    /\ clients \in [Clients -> ClientStates]
    /\ \A c \in Clients : Follows(clients[c], watermark, Top)

-----------------------------------------------------------------------------
(* HookSupervisor *)

HookStates == [pc : {"claim", "pause", "launch", "watch", "grace", "sweep", "complete"},
               row : Blocks \cup {NoBlock}, leader : {"none", "runs", "exit0", "other", "killed"},
               others : BOOLEAN, timed_out : BOOLEAN, delivered : BOOLEAN]

HookTypeOK ==
    /\ rows \in [Blocks -> [state : {"none", "pending", "due", "running", "retry_wait", "delivered"},
                            attempts : Nat]]
    /\ hook \in HookStates
    /\ succeeded \subseteq Blocks

\* What the supervisor knows of the hook it runs, or has run for the row it holds.
ResultIsTrue ==
    /\ hook.pc \in {"launch", "watch"} => hook.row \in Blocks /\ ~hook.timed_out /\ ~hook.delivered
    /\ hook.pc = "launch" => hook.leader = "none"
    /\ hook.pc = "grace" => hook.timed_out
    /\ hook.leader = "exit0" /\ ~hook.timed_out => hook.row \in succeeded
    /\ hook.delivered => hook.row \in succeeded

HookInv == HookTypeOK /\ HookRunsAlone /\ ResultIsTrue /\ DeliveredMeansDone

-----------------------------------------------------------------------------
(* Entropy *)

Generators == [age : 0..MaxReseedAge, retry : Nat, delay : Nat, calls : Nat,
               mine : BOOLEAN, degraded : BOOLEAN]

Samples == [age : 0..MaxReseedAge, outputs : Nat, used_at : Int, mine : BOOLEAN]

EntropyTypeOK ==
    /\ drbg \in Generators
    /\ os \in BOOLEAN
    /\ sample \in Samples

\* What the generator's counters say of its sample is true.
CountersAreTrue ==
    /\ drbg.age = sample.age /\ (drbg.mine => sample.mine)
    /\ sample.outputs <= drbg.calls /\ drbg.calls <= MaxGenerateCalls

EntropyInv == EntropyTypeOK /\ CountersAreTrue /\ OutputsAreFresh

-----------------------------------------------------------------------------
(* DefenseEngine *)

LastExpiry == MaxTime + BanSeconds

\* A ban of p that lasts until e is enforced that long.
Covered(p, e) == bans[p] >= e \/ overflow >= e

\* Every ban that this process made or restored, whose callback is under way, or that is in
\* the table, is enforced to its own end.
BansInv ==
    /\ now \in 0..MaxTime
    /\ bans \in [Peers -> Nat] /\ overflow \in Nat
    /\ persisting \subseteq [peer : Peers, expires : 0..LastExpiry, reason : {"rate_hammer"} \cup AbuseKinds]
    /\ ban_rows \in [Peers -> 0..LastExpiry] /\ announced \in [Peers -> 0..LastExpiry]
    /\ \A b \in persisting : b.expires > now => Covered(b.peer, b.expires)
    /\ \A p \in Peers : ban_rows[p] > now => Covered(p, ban_rows[p])
    /\ \A p \in Peers : announced[p] > now => Covered(p, announced[p])

=============================================================================
