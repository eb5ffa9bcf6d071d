--------------------------- MODULE RoundAccounting ---------------------------
(***************************************************************************)
(* Share and effort accounting of src/src/db/database.cpp.  A share is     *)
(* staged in memory, assigned to the round that is open at that moment,    *)
(* and later judged.  Cheap shares only change buffered totals, which a    *)
(* flush writes; candidates and high-difficulty shares get a row.  A       *)
(* closed round's effort is finalized once nothing can change it any more. *)
(*                                                                         *)
(* The Database object is the record db.  Each operator on a record d is   *)
(* one of the *_unlocked helpers; an action composes the helpers that its  *)
(* operation calls under the writer lock.  Hashrate buckets get the same   *)
(* deltas as the rounds and are left out.                                  *)
(***************************************************************************)
EXTENDS Integers, FiniteSets, FiniteSetsExt

CONSTANTS
    Shares,      \* submissions
    Segments,    \* keys (source, network difficulty) of round_work_segments
    Heights,     \* job heights; 0 is the NULL height of an unknown job
    Difficulty,  \* assigned difficulty of each share
    FlushLimit,  \* buffered items that force a flush (4096)
    MaxRounds    \* bound on the number of rounds

ASSUME AccountingAssumption ==
    /\ Heights \subseteq Nat \ {0}
    /\ Difficulty \in [Shares -> Nat \ {0}]
    /\ FlushLimit \in Nat \ {0}
    /\ MaxRounds \in Nat \ {0}

VARIABLE db

RoundIds == 1..MaxRounds

NoWork == [credit |-> 0, count |-> 0]
Plus(w, v) == [credit |-> w.credit + v.credit, count |-> w.count + v.count]
WorkOf(s) == [credit |-> Difficulty[s], count |-> 1]

\* All work of one round, over its segments.
TotalWork(byRound, r) ==
    [credit |-> MapThenSumSet(LAMBDA g : byRound[r][g].credit, Segments),
     count |-> MapThenSumSet(LAMBDA g : byRound[r][g].count, Segments)]

\* Where a share is: a staged entry of transient_shares, a row of shares, an
\* effect in the buffers, in the flushed tables, or lost with the process.
Places == {"new", "staged", "row", "buffered", "flushed", "lost"}

\* "active" is received or verifying, "refused" every other terminal status.
Statuses == {"active", "accepted", "refused", "cancelled"}
Terminal == Statuses \ {"active"}

NewShare == [at |-> "new", status |-> "active", round |-> 0, height |-> 0]

AbsentRound == [state |-> "absent", effort |-> NoWork, max_share_height |-> 0,
                finalized |-> FALSE]

Works == [credit : Nat, count : 0..Cardinality(Shares)]

\* Counters never exceed the number of shares: nothing is counted twice.
AccountingTypeOK ==
    db \in [rounds : [RoundIds -> [state : {"absent", "open", "closed"}, effort : Works,
                                   max_share_height : Heights \cup {0}, finalized : BOOLEAN]],
            open : RoundIds,
            segments : [RoundIds -> [Segments -> Works]],
            totals : [Terminal -> 0..Cardinality(Shares)],
            work : [RoundIds -> [Segments -> Works]],
            heights : [RoundIds -> Heights \cup {0}],
            items : [Terminal -> 0..Cardinality(Shares)],
            shares : [Shares -> [at : Places, status : Statuses, round : RoundIds \cup {0},
                                 height : Heights \cup {0}]],
            journaled : SUBSET Shares]

EmptyWork == [r \in RoundIds |-> [g \in Segments |-> NoWork]]
NoItems == [t \in Terminal |-> 0]

Init ==
    db = [rounds |-> [r \in RoundIds |-> IF r = 1 THEN [AbsentRound EXCEPT !.state = "open"]
                                         ELSE AbsentRound],
          open |-> 1,
          segments |-> EmptyWork,
          totals |-> NoItems,
          work |-> EmptyWork,                        \* pending_round_work
          heights |-> [r \in RoundIds |-> 0],        \* pending_round_max_height
          items |-> NoItems,                         \* pending_share_totals
          shares |-> [s \in Shares |-> NewShare],
          journaled |-> {}]

Higher(a, b) == IF a > b THEN a ELSE b

InPlace(d, r, place) == {s \in Shares : d.shares[s].round = r /\ d.shares[s].at = place}
ActiveRows(d, r) == {s \in InPlace(d, r, "row") : d.shares[s].status = "active"}

-----------------------------------------------------------------------------
(* Helpers. *)

\* Nothing that can change the round's effort is left.
Settled(d, r, applied) ==
    /\ InPlace(d, r, "staged") = {}
    /\ applied \/ d.work[r] = EmptyWork[r]
    /\ ActiveRows(d, r) = {}

\* try_finalize_round_unlocked
TryFinalize(d, r, applied) ==
    IF d.rounds[r].state = "closed" /\ ~d.rounds[r].finalized /\ Settled(d, r, applied)
    THEN [d EXCEPT !.rounds[r].finalized = TRUE]
    ELSE d

\* The rounds in R, one after the other; they do not affect each other.
TryFinalizeAll(d, R, applied) ==
    [d EXCEPT !.rounds = [r \in RoundIds |->
        IF r \in R THEN TryFinalize(d, r, applied).rounds[r] ELSE d.rounds[r]]]

\* insert_staged_share_unlocked
Promote(d, s) ==
    [d EXCEPT !.shares[s].at = "row",
              !.rounds[d.shares[s].round].max_share_height = Higher(@, d.shares[s].height)]

\* The triggers and require()s refuse to change a finalized round.
FlushAborts(d) ==
    \E r \in RoundIds :
        /\ d.rounds[r].finalized
        /\ d.work[r] # EmptyWork[r] \/ d.heights[r] > d.rounds[r].max_share_height

\* Mutant: the flush leaves the finalization to others.
AffectedNone(d) == {}

\* The rounds whose buffered work a flush writes.
Affected(d) == {r \in RoundIds : d.work[r] # EmptyWork[r]}

\* Mutant: the buffers are written but not cleared.
ClearedNot(d) == d

\* clear_accounting_unlocked
Cleared(d) ==
    [d EXCEPT !.work = EmptyWork, !.heights = [r \in RoundIds |-> 0], !.items = NoItems,
              !.shares = [s \in Shares |->
                  IF @[s].at = "buffered" THEN [@[s] EXCEPT !.at = "flushed"] ELSE @[s]]]

\* apply_accounting_unlocked
Applied(d) ==
    [d EXCEPT
       !.rounds = [r \in RoundIds |-> [d.rounds[r] EXCEPT
                      !.effort = Plus(@, TotalWork(d.work, r)),
                      !.max_share_height = Higher(@, d.heights[r])]],
       !.segments = [r \in RoundIds |-> [g \in Segments |->
                        Plus(d.segments[r][g], d.work[r][g])]],
       !.totals = [t \in Terminal |-> d.totals[t] + d.items[t]]]

\* flush_accounting_transaction_unlocked
Flush(d) == Cleared(TryFinalizeAll(Applied(d), Affected(d), TRUE))

\* round_has_higher_share_height_unlocked
HasHigherShare(d, r, h) ==
    \/ d.rounds[r].max_share_height > h
    \/ \E s \in InPlace(d, r, "staged") \cup InPlace(d, r, "row") : d.shares[s].height > h

\* record_share_total_unlocked
RecordTotal(d, s, status) ==
    [d EXCEPT !.items[status] = @ + 1,
              !.shares[s] = [@ EXCEPT !.at = "buffered", !.status = status]]

\* Mutant: the work is credited to the round that is open now.
CreditedRoundNow(d, s) == d.open

\* The round of a share is the one it was inserted in.
CreditedRound(d, s) == d.shares[s].round

\* record_work_unlocked
RecordWork(d, s, g) == [d EXCEPT !.work[CreditedRound(d, s)][g] = Plus(@, WorkOf(s))]

FlushIfFull(d) ==
    IF MapThenSumSet(LAMBDA t : d.items[t], Terminal) >= FlushLimit THEN Flush(d) ELSE d

-----------------------------------------------------------------------------
(* Operations. *)

\* insert_share; the share is new to the open round.
InsertShare(s, h) ==
    /\ db.shares[s].at = "new"
    /\ db' = [db EXCEPT !.shares[s] = [at |-> "staged", status |-> "active",
                                       round |-> db.open, height |-> h],
                        !.heights[db.open] = Higher(@, h)]

\* ensure_share_persisted
EnsureSharePersisted(s) ==
    /\ db.shares[s].at = "staged"
    /\ db' = Promote(db, s)

FlushAccounting ==
    /\ ~FlushAborts(db)
    /\ db' = Flush(db)

\* A share with a row is accepted in its own transaction.
AcceptRow(d, s, g) ==
    LET r == d.shares[s].round
        credited == [d EXCEPT !.shares[s].status = "accepted",
                              !.segments[r][g] = Plus(@, WorkOf(s)),
                              !.rounds[r].effort = Plus(@, WorkOf(s)),
                              !.totals["accepted"] = @ + 1]
    IN TryFinalize(credited, r, FALSE)

\* accept_share: below the persistence threshold only the buffers change.
AcceptShareBuffered(s, g) ==
    /\ db.shares[s].at = "staged"
    /\ db.shares[s].height # 0
    /\ db' = FlushIfFull(RecordWork(RecordTotal(db, s, "accepted"), s, g))

AcceptShareRow(s, g) ==
    /\ db.shares[s].at \in {"staged", "row"}
    /\ db.shares[s].status = "active"
    /\ db.shares[s].height # 0
    /\ ~FlushAborts(db)
    /\ LET flushed == Flush(db)
           row == IF db.shares[s].at = "staged" THEN Promote(flushed, s) ELSE flushed
       IN /\ ~row.rounds[row.shares[s].round].finalized
          /\ db' = AcceptRow(row, s, g)

\* finalize_share with any status but accepted.
FinalizeShareBuffered(s) ==
    /\ db.shares[s].at = "staged"
    /\ db' = TryFinalize(FlushIfFull(RecordTotal(db, s, "refused")), db.shares[s].round, FALSE)

RefuseRow(d, s) ==
    TryFinalize([d EXCEPT !.shares[s].status = "refused", !.totals["refused"] = @ + 1],
                d.shares[s].round, FALSE)

FinalizeShareRow(s) ==
    /\ db.shares[s].at \in {"staged", "row"}
    /\ db.shares[s].status = "active"
    /\ ~FlushAborts(db)
    /\ LET flushed == Flush(db)
       IN db' = RefuseRow(IF db.shares[s].at = "staged" THEN Promote(flushed, s) ELSE flushed, s)

\* journal_candidate for the block in share s.
JournalCandidate(s) ==
    /\ db.shares[s].at = "row"
    /\ db.shares[s].status = "active"
    /\ ~FlushAborts(db)
    /\ LET d == Flush(db)
           r == d.shares[s].round
       IN db' = IF d.rounds[r].state = "open" /\ ~HasHigherShare(d, r, d.shares[s].height)
                THEN [d EXCEPT !.journaled = @ \cup {s}]
                ELSE d

\* Mutant: the acceptance does not write the buffers first.
BeforeAcceptanceUnflushed(d) == d

\* finish_candidate_attempt and finish_candidate_reconciliation begin with a
\* flush.
BeforeAcceptance(d) == Flush(d)

\* accept_candidate_in_transaction: the round closes, the next opens.
AcceptCandidate(s) ==
    /\ s \in db.journaled
    /\ ~FlushAborts(db)
    /\ db.open < MaxRounds
    /\ LET d == BeforeAcceptance(db)
           r == d.shares[s].round
       IN /\ r = d.open
          /\ ~HasHigherShare(d, r, d.shares[s].height)
          /\ db' = TryFinalize([d EXCEPT !.rounds[r].state = "closed",
                                         !.rounds[r + 1] = [AbsentRound EXCEPT !.state = "open"],
                                         !.open = r + 1,
                                         !.journaled = @ \ {s}], r, FALSE)

\* A share after recover_interrupted_runtime.
RecoveredShare(share) ==
    CASE share.at \in {"staged", "buffered"} -> [share EXCEPT !.at = "lost"]
      [] share.at = "row" /\ share.status = "active" -> [share EXCEPT !.status = "cancelled"]
      [] OTHER -> share

\* The process dies: staged shares and buffers are gone.  recover_interrupted_
\* runtime cancels the active rows and finalizes the closed rounds.
Restart ==
    LET interrupted == UNION {ActiveRows(db, r) : r \in RoundIds}
        d == [db EXCEPT !.work = EmptyWork,
                        !.heights = [r \in RoundIds |-> 0],
                        !.items = NoItems,
                        !.totals["cancelled"] = @ + Cardinality(interrupted),
                        !.shares = [s \in Shares |-> RecoveredShare(db.shares[s])]]
    IN db' = TryFinalizeAll(d, RoundIds, FALSE)

JudgeShare(s) ==
    \/ \E g \in Segments : AcceptShareBuffered(s, g) \/ AcceptShareRow(s, g)
    \/ FinalizeShareBuffered(s) \/ FinalizeShareRow(s)

Next ==
    \/ \E s \in Shares, h \in Heights \cup {0} : InsertShare(s, h)
    \/ \E s \in Shares : EnsureSharePersisted(s)
    \/ \E s \in Shares : JudgeShare(s)
    \/ FlushAccounting
    \/ \E s \in Shares : JournalCandidate(s)
    \/ \E s \in Shares : AcceptCandidate(s)
    \/ Restart

AccountingSpec == Init /\ [][Next]_db

\* accounting_loop flushes at every interval; process_share judges every share
\* it inserted.
FairAccountingSpec ==
    /\ AccountingSpec
    /\ WF_db(FlushAccounting)
    /\ \A s \in Shares : WF_db(JudgeShare(s))

-----------------------------------------------------------------------------
(* Properties. *)

\* A finalized round is never written again: no staged, buffered or active
\* share of it is left and no buffered height exceeds its own, so neither the
\* triggers nor the require()s of a later flush can fail, which would stop the
\* server.
FinalizedRoundIsSettled ==
    \A r \in RoundIds :
        db.rounds[r].finalized =>
            /\ InPlace(db, r, "staged") = {}
            /\ ActiveRows(db, r) = {}
            /\ db.work[r] = EmptyWork[r]
            /\ db.heights[r] <= db.rounds[r].max_share_height

EffortOf(r, places) ==
    LET S == {s \in Shares : /\ db.shares[s].round = r
                             /\ db.shares[s].status = "accepted"
                             /\ db.shares[s].at \in places}
    IN [credit |-> MapThenSumSet(LAMBDA s : Difficulty[s], S), count |-> Cardinality(S)]

\* An accepted share counts exactly once, for the round in which it arrived,
\* even when that round was closed before the share was judged: the round and
\* its segments hold the written shares, the buffers the others.  What a crash
\* loses was only buffered.
EffortIsExact ==
    \A r \in RoundIds :
        /\ db.rounds[r].effort = EffortOf(r, {"row", "flushed"})
        /\ db.rounds[r].effort = TotalWork(db.segments, r)
        /\ TotalWork(db.work, r) = EffortOf(r, {"buffered"})

\* What is written, buffered and staged adds up, and stays so once a round is finalized.
AccountingIsExact == AccountingTypeOK /\ EffortIsExact /\ FinalizedRoundIsSettled

\* A closed round's effort is finalized in the end, whatever the order in which
\* its last shares are judged and flushed and however often the process dies.
\* The last round of the bound cannot close.
ClosedRoundIsFinalized ==
    \A r \in 1..(MaxRounds - 1) : db.rounds[r].state = "closed" ~> db.rounds[r].finalized
=============================================================================
