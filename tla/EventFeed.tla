------------------------------ MODULE EventFeed ------------------------------
(***************************************************************************)
(* From a committed event to its readers.  Methods of Database insert      *)
(* events in their transactions; committed_event_loop (runtime.cpp) loads  *)
(* them by id and hands them to EventStream (event_stream.cpp), which      *)
(* queues them for its clients; GET /v1/events (api.cpp) pages through the *)
(* table on a connection of its own.  Writers and the forwarding thread    *)
(* take the writer lock.                                                   *)
(*                                                                         *)
(* Each writer makes one call.  A frame is sent whole; the control frame   *)
(* stream_open is frame 0.                                                 *)
(***************************************************************************)
EXTENDS WriterScheduler

CONSTANTS
    Forwarder,     \* committed_event_thread_
    Clients,       \* peers of the Unix socket
    MaxClients,    \* max_clients
    MaxFrames,     \* max_pending_bytes_per_client, in frames
    Batch,         \* rows per load
    PageLimit,     \* limit of a page
    MaxFailures    \* bound on loads and frames that fail

ASSUME FeedAssumption ==
    /\ Forwarder \in Callers \ Priority
    /\ MaxClients \in Nat \ {0} /\ MaxFrames \in Nat \ {0}
    /\ Batch \in Nat \ {0} /\ PageLimit \in Nat \ {0} /\ MaxFailures \in Nat

Writers == Callers \ {Forwarder}

VARIABLES
    events,     \* the table: ids committed, and the highest id handed out
    writes,     \* per writer: its call and the id it inserted
    forward,    \* committed_event_loop: last, the rows loaded, where it is
    watermark,  \* high_watermark_
    clients,    \* per client
    stopping,   \* stop_locked: none, requested, joined or closed
    failures    \* failures of the forwarding thread

feedVars == <<events, writes, forward, watermark, clients, stopping, failures>>
allVars == <<schedulerVars, feedVars>>

EventIds == 1..Cardinality(Writers)
Interval(a, b) == [i \in 1..(b - a) |-> a + i]   \* a+1 .. b in order

\* ORDER BY id LIMIT n: the k-th row has k rows up to itself.
NthRow(rows, k) == CHOOSE i \in rows : Cardinality({j \in rows : j <= i}) = k
LowestRows(rows, n) ==
    [k \in 1..(IF Cardinality(rows) < n THEN Cardinality(rows) ELSE n) |-> NthRow(rows, k)]
FirstRows(n, after) == LowestRows({i \in events.committed : i > after}, n)

\* A client follows the stream and, once it knows the mark, pages through the
\* history: got and history are what it has received, more says whether the last
\* page had a next_cursor.
NoClient == [state |-> "none", mark |-> 0, output |-> <<>>, got |-> <<>>,
             cursor |-> 0, history |-> <<>>, more |-> TRUE]

FeedInit ==
    /\ SchedulerInit
    /\ events = [committed |-> {}, sequence |-> 0]
    /\ writes = [w \in Writers |-> [state |-> "new", id |-> 0]]
    /\ forward = [pc |-> "load", last |-> 0, rows |-> <<>>]
    /\ watermark = 0
    /\ clients = [c \in Clients |-> NoClient]
    /\ stopping = "none"
    /\ failures = 0
-----------------------------------------------------------------------------
\* The writers.
Call(w) ==
    /\ writes[w].state = "new" /\ stopping = "none"
    /\ Arrive(w)
    /\ UNCHANGED feedVars

\* insert_event_unlocked, inside the caller's transaction.
Insert(w) ==
    /\ callers[w] = "running" /\ writes[w].state = "new"
    /\ writes' = [writes EXCEPT ![w] = [state |-> "inserted", id |-> events.sequence + 1]]
    /\ events' = [events EXCEPT !.sequence = @ + 1]
    /\ UNCHANGED <<schedulerVars, forward, watermark, clients, stopping, failures>>

Commit(w) ==
    /\ writes[w].state = "inserted"
    /\ events' = [events EXCEPT !.committed = @ \cup {writes[w].id}]
    /\ writes' = [writes EXCEPT ![w].state = "ended"]
    /\ Unlock(w)
    /\ UNCHANGED <<forward, watermark, clients, stopping, failures>>

\* Mutant: an id that was rolled back is not used again.
SequenceAfterRollbackKept(id) == events.sequence

\* AUTOINCREMENT: sqlite_sequence is part of the transaction.
SequenceAfterRollback(id) == id - 1

Rollback(w) ==
    /\ writes[w].state = "inserted"
    /\ events' = [events EXCEPT !.sequence = SequenceAfterRollback(writes[w].id)]
    /\ writes' = [writes EXCEPT ![w].state = "ended"]
    /\ Unlock(w)
    /\ UNCHANGED <<forward, watermark, clients, stopping, failures>>
-----------------------------------------------------------------------------
\* committed_event_loop
BeginLoad ==
    /\ forward.pc = "load"
    /\ Arrive(Forwarder)
    /\ forward' = [forward EXCEPT !.pc = "loading"]
    /\ UNCHANGED <<events, writes, watermark, clients, stopping, failures>>

\* load_events_after
Load ==
    /\ forward.pc = "loading" /\ callers[Forwarder] = "running"
    /\ LET rows == FirstRows(Batch, forward.last)
       IN forward' = [forward EXCEPT !.rows = rows, !.pc = IF rows = <<>> THEN "empty" ELSE "publish"]
    /\ Unlock(Forwarder)
    /\ UNCHANGED <<events, writes, watermark, clients, stopping, failures>>

Running == stopping # "closed"

\* Mutant: a client that is full just misses the event.
PublishedToSlowSkips(c, id) ==
    IF c.state # "open" \/ Len(c.output) >= MaxFrames THEN c ELSE [c EXCEPT !.output = Append(@, id)]

\* publish_committed, for one client.
PublishedTo(c, id) ==
    CASE c.state # "open" -> c
      [] c.state = "open" /\ Len(c.output) >= MaxFrames -> [c EXCEPT !.state = "closed", !.output = <<>>]
      [] OTHER -> [c EXCEPT !.output = Append(@, id)]

\* publish_committed of the next row.
Publish ==
    /\ forward.pc = "publish" /\ callers[Forwarder] = "idle"
    /\ LET id == Head(forward.rows)
           rest == Tail(forward.rows)
       IN /\ IF id > watermark
             THEN /\ watermark' = id
                  /\ clients' = [c \in Clients |-> PublishedTo(clients[c], id)]
             ELSE UNCHANGED <<watermark, clients>>
          /\ forward' = [pc |-> IF rest = <<>> THEN "load" ELSE "publish", last |-> id, rows |-> rest]
    /\ UNCHANGED <<schedulerVars, events, writes, stopping, failures>>

\* Nothing was loaded: the loop ends if it is to stop.
FoundNothing ==
    /\ forward.pc = "empty" /\ callers[Forwarder] = "idle"
    /\ forward' = [forward EXCEPT !.pc = IF stopping = "none" THEN "load" ELSE "gone"]
    /\ UNCHANGED <<schedulerVars, events, writes, watermark, clients, stopping, failures>>

\* Mutant: after a failure the batch counts as done.
ResumeAtBatchEnd == forward.rows[Len(forward.rows)]

\* The loop goes on after the last event it published.
ResumeAt == forward.last

\* A row cannot be turned into a frame; the rest of the batch is dropped.
FrameFails ==
    /\ forward.pc = "publish" /\ callers[Forwarder] = "idle"
    /\ failures < MaxFailures
    /\ failures' = failures + 1
    /\ forward' = [pc |-> IF stopping = "none" THEN "load" ELSE "gone", last |-> ResumeAt, rows |-> <<>>]
    /\ UNCHANGED <<schedulerVars, events, writes, watermark, clients, stopping>>
-----------------------------------------------------------------------------
\* EventStream
OpenClients == {c \in Clients : clients[c].state = "open"}

\* Mutant: the mark is read before clients_mutex_ is taken, and is older.
MarkOfStreamOpenStale == IF watermark = 0 THEN 0 ELSE watermark - 1

MarkOfStreamOpen == watermark

\* accept_clients
AcceptClient(c) ==
    /\ Running /\ clients[c].state = "none"
    /\ clients' = [clients EXCEPT ![c] =
          IF Cardinality(OpenClients) >= MaxClients THEN [NoClient EXCEPT !.state = "closed"]
          ELSE [NoClient EXCEPT !.state = "open", !.mark = MarkOfStreamOpen, !.output = <<0>>]]
    /\ UNCHANGED <<schedulerVars, events, writes, forward, watermark, stopping, failures>>

\* service_clients: the front frame has gone out, or the peer hung up or wrote.
Send(c) ==
    /\ Running /\ clients[c].state = "open" /\ clients[c].output # <<>>
    /\ clients' = [clients EXCEPT ![c].output = Tail(@), ![c].got = Append(@, Head(clients[c].output))]
    /\ UNCHANGED <<schedulerVars, events, writes, forward, watermark, stopping, failures>>

HangUp(c) ==
    /\ Running /\ clients[c].state = "open"
    /\ clients' = [clients EXCEPT ![c].state = "closed", ![c].output = <<>>]
    /\ UNCHANGED <<schedulerVars, events, writes, forward, watermark, stopping, failures>>

\* Mutant: the cursor is the row that only told that a next page exists.
NextCursorExtraRow(rows) == rows[Len(rows)]

\* run_collection: the last row of the page.
NextCursor(rows) == rows[PageLimit]

\* One page of GET /v1/events: a row beyond the limit tells that a next page exists.
ReadPage(c) ==
    /\ clients[c].state = "open" /\ clients[c].got # <<>> /\ clients[c].more
    /\ LET rows == FirstRows(PageLimit + 1, clients[c].cursor)
           more == Len(rows) > PageLimit
           shown == IF more THEN SubSeq(rows, 1, PageLimit) ELSE rows
       IN clients' = [clients EXCEPT ![c].history = @ \o shown, ![c].more = more,
                                     ![c].cursor = IF more THEN NextCursor(rows) ELSE @]
    /\ UNCHANGED <<schedulerVars, events, writes, forward, watermark, stopping, failures>>
-----------------------------------------------------------------------------
\* stop_locked, once all threads that write are joined: the forwarding thread is
\* asked to stop and joined, then the stream closes its clients.
RequestStop ==
    /\ stopping = "none"
    /\ \A w \in Writers : callers[w] = "idle"
    /\ stopping' = "requested"
    /\ UNCHANGED <<schedulerVars, events, writes, forward, watermark, clients, failures>>

StopStream ==
    /\ stopping = "requested" /\ forward.pc = "gone"
    /\ stopping' = "closed"
    /\ clients' = [c \in Clients |-> IF clients[c].state = "open"
                                     THEN [clients[c] EXCEPT !.state = "closed", !.output = <<>>]
                                     ELSE clients[c]]
    /\ UNCHANGED <<schedulerVars, events, writes, forward, watermark, failures>>
-----------------------------------------------------------------------------
Scheduling(p) == Schedule(p) /\ UNCHANGED feedVars
Write(w) == Insert(w) \/ Commit(w) \/ Rollback(w)
ForwardStep == BeginLoad \/ Load \/ Publish \/ FoundNothing

FeedNext ==
    \/ \E w \in Writers : Call(w) \/ Write(w)
    \/ \E p \in Callers : Scheduling(p)
    \/ ForwardStep
    \/ FrameFails
    \/ \E c \in Clients : AcceptClient(c) \/ Send(c) \/ HangUp(c) \/ ReadPage(c)
    \/ RequestStop
    \/ StopStream

FeedSpec == FeedInit /\ [][FeedNext]_allVars

\* Threads run, and a transaction once begun ends.  Nothing makes a call come, a
\* client connect, read or leave, or the server stop.
FeedFairness ==
    /\ \A p \in Callers : WF_allVars(Scheduling(p))
    /\ \A w \in Writers : WF_allVars(Write(w))
    /\ WF_allVars(ForwardStep)

FairFeedSpec == FeedSpec /\ FeedFairness
-----------------------------------------------------------------------------
\* The sequence s is as long as t or shorter, and agrees with it as far as it goes.
IsStartOf(s, t) == Len(s) <= Len(t) /\ s = SubSeq(t, 1, Len(s))

\* What a client of the stream gets is the control frame and then every event
\* after its mark, in order and without a gap, up to what has been published when
\* it is open; and the pages it has read are every event from the first on, at
\* least up to its mark when the last page came ("either at/below the advertised
\* replay watermark or delivered live, never silently between them").
ReadersMissNothing ==
    \A c \in Clients : clients[c].state # "none" =>
        LET client == clients[c]
            live == client.got \o client.output
        IN /\ client.state = "open" => live = <<0>> \o Interval(client.mark, watermark)
           /\ IsStartOf(live, <<0>> \o Interval(client.mark, watermark))
           /\ client.history = Interval(0, Len(client.history))
           /\ ~client.more => Len(client.history) >= client.mark

\* A committed event is published in the end, whatever transactions of either
\* kind compete for the writer lock and whichever batch fails, unless the server
\* stops first.
CommittedIsStreamed ==
    \A i \in EventIds : i \in events.committed ~> watermark >= i \/ stopping # "none"
=============================================================================
