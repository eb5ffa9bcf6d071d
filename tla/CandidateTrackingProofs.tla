----------------------- MODULE CandidateTrackingProofs ------------------------
(***************************************************************************)
(* Proofs that CandidateRuntime loses track of no candidate, for any number *)
(* of candidates, workers, attempts, cycles and crashes.                   *)
(*                                                                         *)
(* The cycle of an owner is ahead of those of its quick lookups and of     *)
(* every row that was started, so no two tasks meet in one row; and the    *)
(* mode of an owner follows the state of its candidate.                    *)
(***************************************************************************)
EXTENDS CandidateProofs

\* Leaves that need arithmetic or extensionality name SMT; the others are for Zenon.
USE ZenonT(30), SMTT(30)
USE DEF Unresolved, Accepted, Dispatchable

-----------------------------------------------------------------------------
(* Cycles. *)
LEMMA UpcomingType ==
    ASSUME TasksTypeOK, NEW t \in TaskIds
    PROVE  tasks[t].cycle \in 0..MaxCycle /\ Upcoming(t) \in 1..MaxCycle
<1>1. tasks[t].cycle \in 0..MaxCycle
  BY TaskColumns DEF TasksTypeOK
<1> QED BY <1>1, NextCycleType DEF Upcoming

LEMMA RowTypes ==
    ASSUME NEW n \in 1..MaxCycle
    PROVE  <<n, "expected_hash">> \in Lookups /\ <<n, "height">> \in Lookups
BY RuntimeAssumption DEF Lookups, Cycles

LEMMA LookupCycle ==
    ASSUME NEW l \in Lookups
    PROVE  l[1] \in 1..MaxCycle /\ l = <<l[1], l[2]>> /\ l[2] \in {"expected_hash", "height"}
BY SMTT(30), RuntimeAssumption DEF Lookups, Cycles

\* Most steps start no lookup.
LEMMA CyclesGoOn ==
    ASSUME CyclesInv, TasksTypeOK, \A t \in TaskIds : GoesOn(t), StartsNoLookup
    PROVE  CyclesInv'
<1>1. ASSUME NEW t \in TaskIds, tasks'[t].pc # "none"
      PROVE  tasks[t].pc # "none" /\ Upcoming(t)' = Upcoming(t)
  BY <1>1 DEF GoesOn, Upcoming
<1>2. ASSUME NEW t \in TaskIds PROVE RowsAhead(t)'
  <2>1. Upcoming(t) \in 1..MaxCycle /\ t[1] \in Candidates
    BY UpcomingType, TaskIdParts
  <2>2. ASSUME NEW kind \in {"expected_hash", "height"}, IsFree(t[1], Upcoming(t), kind)
        PROVE  IsFree(t[1], Upcoming(t), kind)'  \/ tasks'[t].pc = "none"
    <3>1. <<Upcoming(t), kind>> \in Lookups
      BY <2>1, RowTypes
    <3> QED BY SMTT(30), <1>1, <2>1, <2>2, <3>1 DEF IsFree, StartsNoLookup
  <2> QED BY <2>2 DEF RowsAhead, CyclesInv, GoesOn, BeforeHash, BeforeHeight
<1>3. ASSUME NEW t \in TaskIds, NEW u \in TaskIds PROVE TasksApart(t, u)'
  BY <1>1 DEF TasksApart, CyclesInv, Quick
<1>4. ASSUME NEW c \in Candidates PROVE OwnerAhead(c)'
  BY SMTT(30), <1>1, OwnerIsTask DEF OwnerAhead, CyclesInv, StartsNoLookup, Owner
<1>5. ASSUME NEW c \in Candidates PROVE RowsAreCounted(c)'
  BY DEF RowsAreCounted, CyclesInv, StartsNoLookup
<1>6. ASSUME NEW c \in Candidates PROVE QueriesAreAsked(c)'
  <2> SUFFICES ASSUME NEW l \in Lookups, reconciliations'[c][l] = "querying"
               PROVE  \E t \in TaskIds : t[1] = c /\ tasks'[t].pc \in Asking /\ LookupRow(t)' = l
    BY DEF QueriesAreAsked
  <2>1. PICK t \in TaskIds : t[1] = c /\ tasks[t].pc \in Asking /\ LookupRow(t) = l
    BY SMTT(30) DEF CyclesInv, QueriesAreAsked, StartsNoLookup
  <2>2. tasks'[t].pc = tasks[t].pc /\ tasks'[t].cycle = tasks[t].cycle
    BY <2>1 DEF StartsNoLookup
  <2> QED BY <2>1, <2>2 DEF LookupRow
<1> QED BY <1>2, <1>3, <1>4, <1>5, <1>6 DEF CyclesInv

\* The owner takes its next cycle; it may leave the one it had to a quick lookup q.
LEMMA OwnerAdvances ==
    ASSUME CyclesInv, TasksTypeOK, TasksTypeOK', NEW c \in Candidates, NEW q \in TaskIds,
           tasks[Owner(c)].pc \notin Asking \cup {"none"},
           tasks'[Owner(c)].cycle = Upcoming(Owner(c)),
           \A u \in TaskIds : u # Owner(c) /\ u # q => tasks'[u] = tasks[u],
           q # Owner(c) => /\ q[1] = c /\ Quick(q) /\ tasks[q].pc = "none"
                           /\ tasks'[q].cycle = tasks[Owner(c)].cycle
                           /\ tasks[Owner(c)].pc \in BeforeHash,
           reconciliations' = reconciliations,
           \A d \in Candidates : candidates'[d].cycle_count = candidates[d].cycle_count
    PROVE  CyclesInv'
<1> DEFINE o == Owner(c)
           n == Upcoming(o)
           m == Upcoming(o)'
<1>1. o \in TaskIds /\ o[1] = c /\ ~Quick(o)
  BY OwnerIsTask
<1>2. n \in 1..MaxCycle /\ m \in 1..MaxCycle /\ (n < m \/ m = MaxCycle) /\ n <= m
  <2>1. n \in 1..MaxCycle /\ m = NextCycle(n)
    BY <1>1, UpcomingType DEF Upcoming
  <2> HIDE DEF n, m
  <2> QED BY SMTT(30), <2>1, MaxCycleAssumption DEF NextCycle
<1>3. q # o => Upcoming(q)' = n
  BY DEF Upcoming
<1>4. ASSUME NEW u \in TaskIds, u # o, u # q
      PROVE  tasks'[u] = tasks[u] /\ Upcoming(u)' = Upcoming(u) /\ Upcoming(u) \in 1..MaxCycle
  BY <1>4, UpcomingType DEF Upcoming
<1>5. ASSUME NEW u \in TaskIds, u # o, u # q, u[1] = c, tasks[u].pc # "none"
      PROVE  Quick(u) /\ (Upcoming(u) < n \/ n = MaxCycle)
  <2>1. Quick(u)
    BY <1>5, TaskIdParts
  <2> QED BY <1>1, <1>5, <2>1 DEF CyclesInv, TasksApart
<1>6. ASSUME NEW kind \in {"expected_hash", "height"} 
      PROVE  m = MaxCycle \/ reconciliations'[c][<<m, kind>>] = "none"
  <2>1. <<m, kind>> \in Lookups /\ <<m, kind>>[1] = m
    BY <1>2, RowTypes
  <2>2. n < m => reconciliations[c][<<m, kind>>] = "none"
    BY <1>1, <2>1 DEF CyclesInv, OwnerAhead
  <2> HIDE DEF n, m
  <2> QED BY <1>2, <2>2
<1>7. ASSUME NEW t \in TaskIds PROVE RowsAhead(t)'
  <2>1. CASE t = o
    BY <1>1, <1>6, <2>1 DEF RowsAhead, IsFree
  <2>2. CASE t = q /\ t # o
    BY <1>1, <1>3, <2>2 DEF RowsAhead, CyclesInv, BeforeHeight, IsFree
  <2>3. CASE t # q /\ t # o
    BY <1>4, <2>3 DEF RowsAhead, CyclesInv, IsFree
  <2> QED BY <2>1, <2>2, <2>3
<1>8. ASSUME NEW t \in TaskIds, NEW u \in TaskIds PROVE TasksApart(t, u)'
  <2> SUFFICES ASSUME t # u, t[1] = u[1], tasks'[t].pc # "none", tasks'[u].pc # "none"
               PROVE  /\ Upcoming(t)' # Upcoming(u)' \/ Upcoming(t)' = MaxCycle
                      /\ ~Quick(u) => Upcoming(t)' < Upcoming(u)' \/ Upcoming(u)' = MaxCycle
    BY DEF TasksApart, Quick
  <2> HIDE DEF n, m, o
  <2>1. CASE t \notin {o, q} /\ u \notin {o, q}
    BY SMTT(30), <1>4, <2>1 DEF CyclesInv, TasksApart
  <2>2. CASE u = o /\ t = q
    BY SMTT(30), <1>2, <1>3, <2>2 DEF m, o
  <2>3. CASE u = o /\ t # q
    <3>1. Upcoming(t)' \in 1..MaxCycle /\ (Upcoming(t)' < n \/ n = MaxCycle)
      BY <1>1, <1>4, <1>5, <2>3
    <3> QED BY SMTT(30), <1>2, <2>3, <3>1 DEF m, o
  <2>4. CASE t = o /\ u = q
    BY SMTT(30), <1>2, <1>3, <2>4 DEF m, o
  <2>5. CASE t = o /\ u # q
    <3>1. Quick(u) /\ Upcoming(u)' \in 1..MaxCycle /\ (Upcoming(u)' < n \/ n = MaxCycle)
      BY <1>1, <1>4, <1>5, <2>5
    <3> QED BY SMTT(30), <1>2, <2>5, <3>1 DEF m, o
  <2>6. CASE t = q /\ u # o /\ t # o
    <3>1. Quick(u) /\ Upcoming(u)' \in 1..MaxCycle /\ (Upcoming(u)' < n \/ n = MaxCycle)
      BY <1>4, <1>5, <2>6 DEF o
    <3> QED BY SMTT(30), <1>2, <1>3, <2>6, <3>1
  <2>7. CASE u = q /\ t # o /\ u # o
    <3>1. Quick(u) /\ Upcoming(t)' \in 1..MaxCycle /\ (Upcoming(t)' < n \/ n = MaxCycle)
      BY <1>4, <1>5, <2>7 DEF o
    <3> QED BY SMTT(30), <1>2, <1>3, <2>7, <3>1
  <2> QED BY <2>1, <2>2, <2>3, <2>4, <2>5, <2>6, <2>7
<1>9. ASSUME NEW d \in Candidates PROVE OwnerAhead(d)'
  <2>1. CASE d = c
    <3> SUFFICES ASSUME NEW l \in Lookups, l[1] > m PROVE reconciliations[c][l] = "none"
      BY <2>1 DEF OwnerAhead, Owner
    <3>1. l[1] > n
      <4>1. l[1] \in 1..MaxCycle
        BY LookupCycle
      <4> HIDE DEF n, m
      <4> QED BY SMTT(30), <1>2, <4>1
    <3> QED BY <1>1, <3>1 DEF CyclesInv, OwnerAhead
  <2>2. CASE d # c
    <3>1. Owner(d) \in TaskIds /\ Owner(d) # o /\ Owner(d) # q
      BY <1>1, <2>2, OwnerIsTask
    <3>2. tasks'[Owner(d)] = tasks[Owner(d)] /\ Upcoming(Owner(d))' = Upcoming(Owner(d))
      BY <1>4, <3>1
    <3> QED BY <3>2 DEF CyclesInv, OwnerAhead, Owner
  <2> QED BY <2>1, <2>2
<1>10. ASSUME NEW d \in Candidates PROVE RowsAreCounted(d)'
  BY DEF RowsAreCounted, CyclesInv
<1>11. ASSUME NEW d \in Candidates PROVE QueriesAreAsked(d)'
  <2> SUFFICES ASSUME NEW l \in Lookups, reconciliations[d][l] = "querying"
               PROVE  \E t \in TaskIds : t[1] = d /\ tasks'[t].pc \in Asking /\ LookupRow(t)' = l
    BY DEF QueriesAreAsked
  <2>1. PICK t \in TaskIds : t[1] = d /\ tasks[t].pc \in Asking /\ LookupRow(t) = l
    BY DEF CyclesInv, QueriesAreAsked
  <2>2. tasks'[t] = tasks[t]
    BY <1>4, <2>1 DEF Asking
  <2> QED BY <2>1, <2>2 DEF LookupRow
<1> QED BY <1>7, <1>8, <1>9, <1>10, <1>11 DEF CyclesInv

\* The row of a lookup that starts is that of one task, and ahead of no owner.
LEMMA LookupStarts ==
    ASSUME CyclesInv, TasksTypeOK, StoreTypeOK, NEW t \in TaskIds, LookupDispatch(t)
    PROVE  CyclesInv'
<1> DEFINE c == t[1]
           l == LookupRow(t)
           pc == IF tasks[t].pc = "height" THEN "height_rpc" ELSE "expected_hash_rpc"
<1>0. /\ c \in Candidates /\ l \in Lookups /\ l[1] = Upcoming(t)
      /\ tasks[t].pc \in {"expected_hash", "height"} /\ Upcoming(t) \in 1..MaxCycle
  BY TaskIdParts, LookupRowType, UpcomingType DEF LookupRow, Upcoming, LookupDispatch, AtBarrier
<1>1. /\ tasks'[t].pc = pc /\ tasks'[t].cycle = tasks[t].cycle
      /\ \A u \in TaskIds \ {t} : tasks'[u] = tasks[u]
  BY DEF LookupDispatch, TasksTypeOK, TaskRows
<1>2. /\ reconciliations'[c][l] = "querying"
      /\ \A d \in Candidates : \A m \in Lookups :
            d # c \/ m # l => reconciliations'[d][m] = reconciliations[d][m]
  <2>1. reconciliations' = [reconciliations EXCEPT ![c][l] = "querying"]
    BY DEF LookupDispatch, StartCandidateReconciliation
  <2> HIDE DEF l, c
  <2> QED BY SMTT(30), <1>0, <2>1 DEF StoreTypeOK
<1>3. \A u \in TaskIds : Upcoming(u)' = Upcoming(u)
  BY <1>1 DEF Upcoming
<1>4. \A u \in TaskIds : tasks'[u].pc # "none" => tasks[u].pc # "none"
  BY <1>0, <1>1
<1>5. l = <<Upcoming(t), IF tasks[t].pc = "height" THEN "height" ELSE "expected_hash">>
  BY <1>0 DEF LookupRow, Upcoming
<1>6. ASSUME NEW u \in TaskIds PROVE RowsAhead(u)'
  <2>0. Upcoming(u) \in 1..MaxCycle /\ u[1] \in Candidates
    BY UpcomingType, TaskIdParts
  <2>1. CASE u = t
    <3>1. CASE tasks[t].pc = "height"
      BY <1>1, <2>1, <3>1 DEF RowsAhead, BeforeHash, BeforeHeight
    <3>2. CASE tasks[t].pc = "expected_hash"
      <4>1. l # <<Upcoming(t), "height">> /\ <<Upcoming(t), "height">> \in Lookups
        BY SMTT(30), <1>0, <1>5, <3>2, RowTypes
      <4>2. IsFree(c, Upcoming(t), "height")
        BY <3>2 DEF CyclesInv, RowsAhead, BeforeHash, BeforeHeight
      <4>3. Upcoming(t)' = MaxCycle \/ reconciliations'[c][<<Upcoming(t)', "height">>] = "none"
        BY <1>0, <1>2, <1>3, <4>1, <4>2 DEF IsFree
      <4> QED BY <1>1, <2>1, <3>2, <4>3 DEF RowsAhead, IsFree, BeforeHash
    <3> QED BY <1>0, <3>1, <3>2
  <2>2. CASE u # t
    <3>1. ASSUME NEW kind \in {"expected_hash", "height"}, IsFree(u[1], Upcoming(u), kind),
                 tasks[u].pc # "none"
          PROVE  Upcoming(u)' = MaxCycle \/ reconciliations'[u[1]][<<Upcoming(u)', kind>>] = "none"
      <4>1. u[1] # c \/ Upcoming(u) # Upcoming(t) \/ Upcoming(u) = MaxCycle
        BY <1>0, <2>2, <3>1 DEF CyclesInv, TasksApart
      <4>2. Upcoming(u) # Upcoming(t) => <<Upcoming(u), kind>> # l
        BY SMTT(30), <1>5
      <4>3. <<Upcoming(u), kind>> \in Lookups
        BY <2>0, RowTypes
      <4> QED BY <1>2, <1>3, <2>0, <3>1, <4>1, <4>2, <4>3 DEF IsFree
    <3> QED BY <1>1, <2>2, <3>1 DEF CyclesInv, RowsAhead, IsFree, BeforeHash, BeforeHeight
  <2> QED BY <2>1, <2>2
<1>7. ASSUME NEW u \in TaskIds, NEW v \in TaskIds PROVE TasksApart(u, v)'
  BY <1>3, <1>4 DEF TasksApart, CyclesInv, Quick
<1>8. ASSUME NEW d \in Candidates PROVE OwnerAhead(d)'
  <2> SUFFICES ASSUME NEW m \in Lookups, m[1] > Upcoming(Owner(d)), tasks[Owner(d)].pc # "none"
               PROVE  reconciliations'[d][m] = "none"
    BY <1>3, <1>4, OwnerIsTask DEF OwnerAhead, Owner
  <2>1. Owner(d) \in TaskIds /\ Owner(d)[1] = d /\ ~Quick(Owner(d)) /\ Upcoming(Owner(d)) \in 1..MaxCycle
    BY OwnerIsTask, UpcomingType
  <2>2. reconciliations[d][m] = "none"
    BY DEF CyclesInv, OwnerAhead
  <2>3. d # c \/ m # l
    <3> SUFFICES ASSUME d = c, Upcoming(t) > Upcoming(Owner(d)) PROVE FALSE
      BY <1>0
    <3>1. t # Owner(d) => Upcoming(t) < Upcoming(Owner(d)) \/ Upcoming(Owner(d)) = MaxCycle
      BY <1>0, <2>1 DEF CyclesInv, TasksApart
    <3> QED BY SMTT(30), <1>0, <2>1, <3>1
  <2> QED BY <1>2, <2>2, <2>3
<1>9. ASSUME NEW d \in Candidates PROVE RowsAreCounted(d)'
  <2> SUFFICES ASSUME NEW m \in Lookups, m[1] > candidates'[d].cycle_count
               PROVE  reconciliations'[d][m] = "none"
    BY DEF RowsAreCounted
  <2>0. m[1] \in Nat /\ l[1] \in Nat /\ candidates[d].cycle_count \in Nat
    BY SMTT(30), <1>0, LookupCycle DEF StoreTypeOK, CandidateRows
  <2>1. CASE d = c
    <3>1. candidates'[c].cycle_count = Higher(candidates[c].cycle_count, l[1])
      BY SMTT(30), <1>0 DEF LookupDispatch, StartCandidateReconciliation, CycleCount, StoreTypeOK, CandidateRows
    <3>2. m[1] > candidates[d].cycle_count /\ m # l
      <4> HIDE DEF l, c
      <4> QED BY SMTT(30), <2>0, <2>1, <3>1 DEF Higher
    <3>3. reconciliations[d][m] = "none"
      BY <3>2 DEF CyclesInv, RowsAreCounted
    <3> QED BY <1>2, <3>2, <3>3
  <2>2. CASE d # c
    <3>1. candidates'[d] = candidates[d]
      BY <2>2 DEF LookupDispatch, StartCandidateReconciliation, StoreTypeOK
    <3> QED BY <1>2, <2>2, <3>1 DEF CyclesInv, RowsAreCounted
  <2> QED BY <2>1, <2>2
<1>10. ASSUME NEW d \in Candidates PROVE QueriesAreAsked(d)'
  <2> SUFFICES ASSUME NEW m \in Lookups, reconciliations'[d][m] = "querying"
               PROVE  \E u \in TaskIds : u[1] = d /\ tasks'[u].pc \in Asking /\ LookupRow(u)' = m
    BY DEF QueriesAreAsked
  <2>1. CASE d = c /\ m = l
    <3>1. tasks'[t].pc \in Asking /\ LookupRow(t)' = l
      BY <1>0, <1>1 DEF Asking, LookupRow
    <3> QED BY <2>1, <3>1
  <2>2. CASE d # c \/ m # l
    <3>1. PICK u \in TaskIds : u[1] = d /\ tasks[u].pc \in Asking /\ LookupRow(u) = m
      BY <1>2, <2>2 DEF CyclesInv, QueriesAreAsked
    <3>2. tasks'[u] = tasks[u]
      BY <1>0, <1>1, <3>1 DEF Asking
    <3> QED BY <3>1, <3>2 DEF LookupRow
  <2> QED BY <2>1, <2>2
<1> QED BY <1>6, <1>7, <1>8, <1>9, <1>10 DEF CyclesInv

-----------------------------------------------------------------------------
(* A restart goes on from the counts and states in the database. *)
LEMMA RestartRows ==
    ASSUME StoreTypeOK, Restart, NEW c \in Candidates
    PROVE  /\ candidates'[c].attempt_count = candidates[c].attempt_count
           /\ candidates'[c].cycle_count = candidates[c].cycle_count
           /\ candidates'[c].state =
                 IF candidates[c].state # "dispatching" THEN candidates[c].state
                 ELSE IF candidates[c].attempt_count < MaxAttempts THEN "retry_wait" ELSE "ambiguous"
           /\ \A l \in Lookups :
                 /\ reconciliations'[c][l] # "querying"
                 /\ reconciliations[c][l] = "none" => reconciliations'[c][l] = "none"
           /\ tasks'[Owner(c)] = IF candidates[c].state \in Unresolved THEN RecoveredTask(c) ELSE NoTask
           /\ \A t \in TaskIds : Quick(t) => tasks'[t] = NoTask
<1>1. candidates[c] \in CandidateRows /\ candidates'[c] = RecoveredRow(c)
  BY DEF StoreTypeOK, Restart, ReopenDatabase
<1>2. /\ candidates'[c].attempt_count = candidates[c].attempt_count
      /\ candidates'[c].cycle_count = candidates[c].cycle_count
      /\ candidates'[c].state =
                 IF candidates[c].state # "dispatching" THEN candidates[c].state
                 ELSE IF candidates[c].attempt_count < MaxAttempts THEN "retry_wait" ELSE "ambiguous"
  BY <1>1 DEF RecoveredRow, CandidateRows
<1>3. ASSUME NEW l \in Lookups
      PROVE  /\ reconciliations'[c][l] # "querying"
             /\ reconciliations[c][l] = "none" => reconciliations'[c][l] = "none"
  BY DEF Restart, ReopenDatabase
<1>4. tasks'[Owner(c)] = IF candidates[c].state \in Unresolved THEN RecoveredTask(c) ELSE NoTask
  BY OwnerIsTask DEF Restart, UnresolvedCandidates
<1>5. \A t \in TaskIds : Quick(t) => tasks'[t] = NoTask
  BY DEF Restart
<1> QED BY <1>2, <1>3, <1>4, <1>5

LEMMA RestartCycles ==
    ASSUME CyclesInv, StoreTypeOK, Restart
    PROVE  CyclesInv' /\ OneLookup' /\ \A t \in TaskIds : QuickFollows(t)'
<1>1. ASSUME NEW t \in TaskIds, tasks'[t].pc # "none"
      PROVE  /\ t = Owner(t[1]) /\ t[1] \in Candidates /\ ~Quick(t)
             /\ tasks'[t].pc = "recover"
             /\ tasks'[t].cycle = candidates[t[1]].cycle_count
  <2>1. ~Quick(t)
    BY SMTT(30), <1>1, RestartRows, TaskIdParts DEF NoTask
  <2>2. t = Owner(t[1]) /\ t[1] \in Candidates
    BY <2>1, TaskIdParts
  <2>3. tasks'[t] = IF candidates[t[1]].state \in Unresolved THEN RecoveredTask(t[1]) ELSE NoTask
    BY <2>1, <2>2 DEF Restart, UnresolvedCandidates
  <2>4. tasks'[t] = RecoveredTask(t[1])
    BY SMTT(30), <1>1, <2>3 DEF NoTask
  <2> QED BY SMTT(30), <2>1, <2>2, <2>4 DEF RecoveredTask
<1>2. ASSUME NEW t \in TaskIds, tasks'[t].pc # "none", NEW l \in Lookups,
             l[1] >= Upcoming(t)', Upcoming(t)' # MaxCycle
      PROVE  reconciliations'[t[1]][l] = "none"
  <2>1. candidates[t[1]].cycle_count \in 0..MaxCycle /\ l[1] \in 1..MaxCycle /\ t[1] \in Candidates
    BY <1>1, <1>2, LookupCycle DEF StoreTypeOK, CandidateRows
  <2>2. Upcoming(t)' = NextCycle(candidates[t[1]].cycle_count)
    BY <1>1, <1>2 DEF Upcoming
  <2>3. l[1] > candidates[t[1]].cycle_count
    BY SMTT(30), <1>2, <2>1, <2>2, MaxCycleAssumption DEF NextCycle
  <2> QED BY <2>1, <2>3, RestartRows DEF CyclesInv, RowsAreCounted
<1>3. ASSUME NEW t \in TaskIds, tasks'[t].pc # "none"
      PROVE  Upcoming(t)' \in 1..MaxCycle
  <2>1. candidates[t[1]].cycle_count \in 0..MaxCycle
    BY <1>1, <1>3 DEF StoreTypeOK, CandidateRows
  <2> QED BY <1>1, <1>3, <2>1, NextCycleType DEF Upcoming
<1>4. ASSUME NEW t \in TaskIds PROVE RowsAhead(t)'
  <2> SUFFICES ASSUME tasks'[t].pc # "none", NEW kind \in {"expected_hash", "height"}
               PROVE  Upcoming(t)' = MaxCycle \/ reconciliations'[t[1]][<<Upcoming(t)', kind>>] = "none"
    BY DEF RowsAhead, IsFree, BeforeHash, BeforeHeight
  <2>1. Upcoming(t)' \in 1..MaxCycle
    BY <1>3
  <2>2. <<Upcoming(t)', kind>> \in Lookups /\ <<Upcoming(t)', kind>>[1] = Upcoming(t)'
    BY <2>1, RowTypes
  <2>3. Upcoming(t)' >= Upcoming(t)'
    BY SMTT(30), <2>1
  <2> QED BY <1>2, <2>2, <2>3
<1>5. ASSUME NEW t \in TaskIds, NEW u \in TaskIds PROVE TasksApart(t, u)'
  BY <1>1 DEF TasksApart
<1>6. ASSUME NEW c \in Candidates PROVE OwnerAhead(c)'
  <2> SUFFICES ASSUME tasks'[Owner(c)].pc # "none", NEW l \in Lookups, l[1] > Upcoming(Owner(c))'
               PROVE  reconciliations'[c][l] = "none"
    BY DEF OwnerAhead, Owner
  <2>1. Owner(c) \in TaskIds /\ Owner(c)[1] = c
    BY OwnerIsTask
  <2>2. Upcoming(Owner(c))' \in 1..MaxCycle /\ l[1] \in 1..MaxCycle
    BY <1>3, <2>1, LookupCycle
  <2>3. l[1] >= Upcoming(Owner(c))' /\ Upcoming(Owner(c))' # MaxCycle
    BY SMTT(30), <2>2, MaxCycleAssumption
  <2> QED BY <1>2, <2>1, <2>3
<1>7. ASSUME NEW c \in Candidates PROVE RowsAreCounted(c)' /\ QueriesAreAsked(c)'
  BY SMTT(30), RestartRows DEF RowsAreCounted, QueriesAreAsked, CyclesInv
<1>8. OneLookup'
  BY <1>1 DEF OneLookup, Lookup
<1>9. ASSUME NEW t \in TaskIds PROVE QuickFollows(t)'
  BY <1>1 DEF QuickFollows, Quick
<1> QED BY <1>4, <1>5, <1>6, <1>7, <1>8, <1>9 DEF CyclesInv

LEMMA RestartOwns ==
    ASSUME StoreTypeOK, Restart, NEW c \in Candidates, OwnerInv(c)
    PROVE  OwnerInv(c)'
<1> DEFINE o == tasks'[Owner(c)]
           s == candidates'[c].state
           left == (s # "ambiguous" /\ candidates'[c].attempt_count < MaxAttempts)
<1>1. s \in {"journaled", "retry_wait"} => candidates'[c].attempt_count < MaxAttempts
  BY RestartRows DEF OwnerInv
<1>2. s # "dispatching" /\ (s \in Unresolved <=> candidates[c].state \in Unresolved)
  BY RestartRows
<1>3. CASE s \in Unresolved
  <2>1. o = RecoveredTask(c)
    BY <1>2, <1>3, RestartRows
  <2>2. o.pc = "recover" /\ o.reconciliation_only = TRUE /\ o.resume = left
    BY SMTT(30), <2>1 DEF RecoveredTask
  <2>3. left = (s # "ambiguous")
    BY <1>1, <1>2, <1>3
  <2>4. OwnerMode(o, s)
    <3> HIDE DEF left, s, o
    <3> QED BY <2>2, <2>3 DEF OwnerMode, Lookup
  <2> QED BY <1>1, <1>3, <2>2, <2>4 DEF OwnerInv, Owner
<1>4. CASE s \notin Unresolved
  <2>1. o = NoTask
    BY <1>2, <1>4, RestartRows
  <2>2. OwnerMode(o, s)
    BY SMTT(30), <2>1 DEF OwnerMode, NoTask, Lookup
  <2>3. ASSUME s = "absent"
        PROVE  candidates'[c].cycle_count = 0 /\ \A t \in TaskIds : t[1] = c => tasks'[t].pc = "none"
    <3>1. candidates[c].state = "absent"
      BY <2>3, RestartRows
    <3>2. ASSUME NEW t \in TaskIds, t[1] = c PROVE tasks'[t].pc = "none"
      <4>1. Quick(t) \/ t = Owner(c)
        BY <3>2, TaskIdParts
      <4> QED BY SMTT(30), <2>1, <4>1, RestartRows DEF NoTask
    <3> QED BY <3>1, <3>2, RestartRows DEF OwnerInv
  <2> QED BY <1>1, <1>4, <2>2, <2>3 DEF OwnerInv, Owner
<1> QED BY <1>3, <1>4

-----------------------------------------------------------------------------
(* A journaled candidate has no lookups and no tasks but its owner. *)
LEMMA JournalTracks ==
    ASSUME TrackInv, NEW c \in Candidates, NEW r, Journal(c, r)
    PROVE  Tracked'
<1> DEFINE o == Owner(c)
<1>0. StoreTypeOK /\ TasksTypeOK /\ o \in TaskIds /\ o[1] = c /\ ~Quick(o)
  BY PublicationFacts, OwnerIsTask DEF TrackInv
<1>1. /\ candidates[c].cycle_count = 0
      /\ \A t \in TaskIds : t[1] = c => tasks[t].pc = "none"
  BY DEF TrackInv, Tracked, OwnerInv, Journal, JournalCandidate
<1>2. \A l \in Lookups : reconciliations[c][l] = "none"
  <2> SUFFICES ASSUME NEW l \in Lookups PROVE reconciliations[c][l] = "none"
    OBVIOUS
  <2>1. l[1] > 0
    BY SMTT(30), LookupCycle, MaxCycleAssumption
  <2> QED BY <1>1, <2>1 DEF TrackInv, Tracked, CyclesInv, RowsAreCounted
<1>3. /\ tasks'[o] = [NoTask EXCEPT !.pc = "queued"]
      /\ \A t \in TaskIds \ {o} : tasks'[t] = tasks[t]
      /\ reconciliations' = reconciliations /\ database_operational' = database_operational
  BY <1>0 DEF Journal, JournalCandidate, TasksTypeOK
<1>4. /\ tasks'[o].pc = "queued" /\ ~tasks'[o].reconciliation_only /\ ~tasks'[o].resume
      /\ Upcoming(o)' \in 1..MaxCycle
  <2>1. tasks'[o].cycle = 0 /\ 0 \in 0..MaxCycle
    BY SMTT(30), <1>3, MaxCycleAssumption DEF NoTask
  <2>2. Upcoming(o)' \in 1..MaxCycle
    BY <2>1, NextCycleType DEF Upcoming
  <2> QED BY <1>3, <2>2 DEF NoTask
<1>5. /\ candidates'[c].state = "journaled" /\ candidates'[c].attempt_count = 0
      /\ candidates'[c].cycle_count = 0
      /\ \A d \in Candidates \ {c} : candidates'[d] = candidates[d]
  BY <1>0 DEF Journal, JournalCandidate, AbsentRow, StoreTypeOK
<1>6. ASSUME NEW t \in TaskIds, t # o, tasks'[t].pc # "none"
      PROVE  t[1] # c /\ t[1] \in Candidates /\ tasks'[t] = tasks[t] /\ Upcoming(t)' = Upcoming(t)
  BY <1>1, <1>3, <1>6, TaskIdParts DEF Upcoming
<1>7. ASSUME NEW t \in TaskIds PROVE RowsAhead(t)'
  <2>1. CASE t = o
    BY <1>0, <1>2, <1>3, <1>4, <2>1, RowTypes DEF RowsAhead, IsFree
  <2>2. CASE t # o
    BY SMTT(30), <1>3, <1>6, <2>2 DEF RowsAhead, IsFree, TrackInv, Tracked, CyclesInv, BeforeHash, BeforeHeight
  <2> QED BY <2>1, <2>2
<1>8. ASSUME NEW t \in TaskIds, NEW u \in TaskIds PROVE TasksApart(t, u)'
  BY SMTT(30), <1>0, <1>6 DEF TasksApart, TrackInv, Tracked, CyclesInv, Quick
<1>9. ASSUME NEW d \in Candidates PROVE OwnerAhead(d)'
  <2>1. CASE d = c
    BY <1>2, <1>3, <2>1 DEF OwnerAhead
  <2>2. CASE d # c
    <3>1. Owner(d) \in TaskIds /\ Owner(d) # o
      BY <1>0, <2>2, OwnerIsTask
    <3> QED BY SMTT(30), <1>3, <1>6, <3>1 DEF OwnerAhead, TrackInv, Tracked, CyclesInv, Owner
  <2> QED BY <2>1, <2>2
<1>10. ASSUME NEW d \in Candidates PROVE RowsAreCounted(d)'
  BY SMTT(30), <1>2, <1>3, <1>5 DEF RowsAreCounted, TrackInv, Tracked, CyclesInv
<1>11. ASSUME NEW d \in Candidates PROVE QueriesAreAsked(d)'
  <2> SUFFICES ASSUME NEW l \in Lookups, reconciliations[d][l] = "querying"
               PROVE  \E t \in TaskIds : t[1] = d /\ tasks'[t].pc \in Asking /\ LookupRow(t)' = l
    BY <1>3 DEF QueriesAreAsked
  <2>1. PICK t \in TaskIds : t[1] = d /\ tasks[t].pc \in Asking /\ LookupRow(t) = l
    BY DEF TrackInv, Tracked, CyclesInv, QueriesAreAsked
  <2>2. tasks'[t] = tasks[t]
    BY <1>0, <1>1, <1>3, <2>1 DEF Asking
  <2> QED BY <2>1, <2>2 DEF LookupRow
<1>12. OneLookup'
  BY <1>4, <1>6 DEF OneLookup, TrackInv, Tracked, Lookup
<1>13. ASSUME NEW t \in TaskIds PROVE QuickFollows(t)'
  BY <1>0, <1>5, <1>6 DEF QuickFollows, TrackInv, Tracked, Quick
<1>14. ASSUME NEW d \in Candidates PROVE OwnerInv(d)'
  <2>1. CASE d = c
    <3>1. OwnerMode(tasks'[o], "journaled")
      BY <1>4 DEF OwnerMode, Lookup
    <3>2. 0 < MaxAttempts
      BY SMTT(30), MaxAttemptsAssumption
    <3> QED BY <1>4, <1>5, <2>1, <3>1, <3>2 DEF OwnerInv, Owner
  <2>2. CASE d # c
    <3>1. Owner(d) # o /\ Owner(d) \in TaskIds
      BY <1>0, <2>2, OwnerIsTask
    <3> QED BY <1>0, <1>3, <1>5, <2>2, <3>1 DEF OwnerInv, TrackInv, Tracked, Owner
  <2> QED BY <2>1, <2>2
<1> QED BY <1>7, <1>8, <1>9, <1>10, <1>11, <1>12, <1>13, <1>14 DEF CyclesInv, Tracked

-----------------------------------------------------------------------------
(* What a step leaves alone. *)
LEMMA OthersAreOwned ==
    ASSUME NEW c \in Candidates, OwnerInv(c), candidates'[c] = candidates[c],
           \A t \in TaskIds : t[1] = c => tasks'[t] = tasks[t],
           database_operational' => database_operational
    PROVE  OwnerInv(c)'
<1>1. tasks'[Owner(c)] = tasks[Owner(c)]
  BY OwnerIsTask
<1> QED BY SMTT(30), <1>1 DEF OwnerInv, Owner

LEMMA QuickKeepsFollowing ==
    ASSUME StoreTypeOK, StoreTypeOK', NEW t \in TaskIds, QuickFollows(t), AttemptsGoOn(t[1]),
           tasks'[t].pc # "none" => tasks[t].pc # "none"
    PROVE  QuickFollows(t)'
<1>1. t[1] \in Candidates /\ t[2] \in Nat
  BY SMTT(30), TaskIdParts, MaxAttemptsAssumption
<1>2. candidates[t[1]].attempt_count \in Nat /\ candidates'[t[1]].attempt_count \in Nat
  <2>1. candidates[t[1]].attempt_count \in 0..MaxAttempts /\ candidates'[t[1]].attempt_count \in 0..MaxAttempts
    BY <1>1 DEF StoreTypeOK, CandidateRows
  <2> QED BY SMTT(30), <2>1, MaxAttemptsAssumption
<1> QED BY SMTT(30), <1>1, <1>2 DEF QuickFollows, AttemptsGoOn, Quick

LEMMA LookupsStayOne ==
    ASSUME OneLookup, \A t \in TaskIds : tasks'[t].pc \in Lookup => tasks[t].pc \in Lookup
    PROVE  OneLookup'
BY DEF OneLookup, Lookup

\* A task of an absent candidate has no step.
LEMMA TaskFacts ==
    ASSUME TrackInv, NEW t \in TaskIds
    PROVE  /\ tasks[t] \in TaskRows /\ tasks[t].pc \in TaskPcs /\ t[1] \in Candidates
           /\ Quick(t) => /\ tasks[t].pc \notin {"submit", "submit_rpc"}
                          /\ tasks[t].pc # "none" => tasks[t].reconciliation_only
                          /\ t # Owner(t[1])
           /\ ~Quick(t) => t = Owner(t[1])
           /\ tasks[t].pc # "none" => candidates[t[1]].state # "absent"
           /\ OwnerInv(t[1]) /\ Owner(t[1]) \in TaskIds
           /\ StoreTypeOK /\ TasksTypeOK /\ CyclesInv /\ OneLookup
<1>1. RuntimeInv /\ t[1] \in Candidates
  BY TaskIdParts DEF TrackInv, PublicationInv
<1>2. Quick(t) => t # Owner(t[1])
  BY <1>1, OwnerIsTask
<1>3. OwnerInv(t[1]) /\ CyclesInv /\ OneLookup
  BY <1>1 DEF TrackInv, Tracked
<1> QED BY <1>1, <1>2, <1>3, TaskTypes, TaskIdParts, OwnerIsTask DEF OwnerInv, RuntimeInv

\* A step of a task that starts no lookup.
LEMMA TaskGoesOn ==
    ASSUME TrackInv, StoreTypeOK', NEW t \in TaskIds,
           \A u \in TaskIds \ {t} : tasks'[u] = tasks[u],
           \A d \in Candidates \ {t[1]} : candidates'[d] = candidates[d],
           GoesOn(t), StartsNoLookup, AttemptsGoOn(t[1]), OwnerInv(t[1])',
           tasks'[t].pc \in Lookup =>
               \/ tasks[t].pc \in Lookup
               \/ \A u \in TaskIds : u[1] = t[1] => tasks[u].pc \notin Lookup,
           database_operational' => database_operational
    PROVE  Tracked'
<1>0. t[1] \in Candidates /\ StoreTypeOK /\ TasksTypeOK /\ CyclesInv /\ OneLookup
  BY TaskFacts
<1>1. \A u \in TaskIds : GoesOn(u)
  BY DEF GoesOn
<1>2. CyclesInv'
  BY <1>0, <1>1, CyclesGoOn
<1>3. OneLookup'
  BY <1>0 DEF OneLookup
<1>4. ASSUME NEW u \in TaskIds PROVE QuickFollows(u)'
  <2>1. AttemptsGoOn(u[1])
    <3>1. CASE u[1] = t[1]
      BY <3>1 DEF AttemptsGoOn
    <3>2. CASE u[1] # t[1]
      <4>1. candidates'[u[1]] = candidates[u[1]] /\ candidates[u[1]].attempt_count \in 0..MaxAttempts
        BY <1>0, <3>2, TaskIdParts DEF StoreTypeOK, CandidateRows
      <4> QED BY SMTT(30), <4>1 DEF AttemptsGoOn
    <3> QED BY <3>1, <3>2
  <2>2. tasks'[u].pc # "none" => tasks[u].pc # "none"
    BY <1>1 DEF GoesOn
  <2> QED BY <1>0, <2>1, <2>2, QuickKeepsFollowing DEF TrackInv, Tracked
<1>5. ASSUME NEW d \in Candidates, d # t[1] PROVE OwnerInv(d)'
  <2>1. \A u \in TaskIds : u[1] = d => tasks'[u] = tasks[u]
    BY <1>5
  <2> QED BY <1>5, <2>1, OthersAreOwned DEF TrackInv, Tracked
<1> QED BY <1>2, <1>3, <1>4, <1>5 DEF Tracked

LEMMA SameAttempts ==
    ASSUME StoreTypeOK, NEW c \in Candidates,
           candidates'[c].attempt_count = candidates[c].attempt_count,
           candidates'[c].state = "dispatching" => candidates[c].state = "dispatching"
    PROVE  AttemptsGoOn(c)
<1>1. candidates[c].attempt_count \in 0..MaxAttempts
  BY DEF StoreTypeOK, CandidateRows
<1> QED BY SMTT(30), <1>1 DEF AttemptsGoOn

\* A task moves on and the database is left alone.
LEMMA PcStepTracks ==
    ASSUME TrackInv, StoreTypeOK', NEW t \in TaskIds, NEW pc \in TaskPcs,
           tasks' = [tasks EXCEPT ![t].pc = pc], UNCHANGED storeVars,
           tasks[t].pc \notin Asking \cup {"none", "submit_rpc"}, pc \notin {"none", "submit_rpc"},
           pc \in BeforeHash => tasks[t].pc \in BeforeHash,
           pc \in BeforeHeight => tasks[t].pc \in BeforeHeight,
           pc \in Lookup => \/ tasks[t].pc \in Lookup
                            \/ \A u \in TaskIds : u[1] = t[1] => tasks[u].pc \notin Lookup,
           pc \in Lookup \cup {"recover"} => tasks[t].reconciliation_only,
           pc = "submit" => ~tasks[t].reconciliation_only,
           database_operational' => database_operational
    PROVE  Tracked'
<1> DEFINE c == t[1]
<1>0. /\ tasks[t] \in TaskRows /\ c \in Candidates /\ StoreTypeOK /\ TasksTypeOK /\ OwnerInv(c)
      /\ candidates[c].state # "absent" /\ Owner(c) \in TaskIds
  BY TaskFacts
<1>1. /\ tasks'[t].pc = pc /\ tasks'[t].cycle = tasks[t].cycle
      /\ tasks'[t].reconciliation_only = tasks[t].reconciliation_only
      /\ tasks'[t].resume = tasks[t].resume
      /\ \A u \in TaskIds \ {t} : tasks'[u] = tasks[u]
  BY <1>0 DEF TasksTypeOK, TaskRows
<1>2. GoesOn(t)
  BY <1>1 DEF GoesOn
<1>3. StartsNoLookup
  BY <1>1 DEF StartsNoLookup, storeVars
<1>4. AttemptsGoOn(c)
  BY <1>0, SameAttempts DEF storeVars
<1>5. OwnerInv(c)'
  <2>1. candidates' = candidates
    BY DEF storeVars
  <2>2. CASE t = Owner(c)
    <3>1. OwnerMode(tasks'[Owner(c)], candidates[c].state)
      <4>1. OwnerMode(tasks[Owner(c)], candidates[c].state)
        BY <1>0 DEF OwnerInv
      <4> HIDE DEF c
      <4> QED BY <1>1, <2>2, <4>1 DEF OwnerMode
    <3> QED BY <1>0, <1>1, <2>1, <2>2, <3>1 DEF OwnerInv, Owner
  <2>3. CASE t # Owner(c)
    BY <1>0, <1>1, <2>1, <2>3 DEF OwnerInv, Owner
  <2> QED BY <2>2, <2>3
<1>6. \A d \in Candidates \ {c} : candidates'[d] = candidates[d]
  BY DEF storeVars
<1> QED BY <1>1, <1>2, <1>3, <1>4, <1>5, <1>6, TaskGoesOn

\* A task ends.
LEMMA DropTracks ==
    ASSUME TrackInv, StoreTypeOK', NEW t \in TaskIds, Drop(t), reconciliations' = reconciliations,
           tasks[t].pc \notin Asking \cup {"none"},
           \A d \in Candidates \ {t[1]} : candidates'[d] = candidates[d],
           candidates'[t[1]].state = candidates[t[1]].state,
           candidates'[t[1]].attempt_count = candidates[t[1]].attempt_count,
           candidates'[t[1]].cycle_count = candidates[t[1]].cycle_count,
           candidates[t[1]].exhausted => candidates'[t[1]].exhausted,
           ~Quick(t) => candidates[t[1]].state \notin Unresolved \/ candidates'[t[1]].exhausted,
           database_operational' => database_operational
    PROVE  Tracked'
<1> DEFINE c == t[1]
<1>0. /\ c \in Candidates /\ StoreTypeOK /\ TasksTypeOK /\ OwnerInv(c)
      /\ candidates[c].state # "absent" /\ Owner(c) \in TaskIds
      /\ Quick(t) => t # Owner(c)
      /\ ~Quick(t) => t = Owner(c)
  BY TaskFacts
<1>1. tasks'[t] = NoTask /\ \A u \in TaskIds \ {t} : tasks'[u] = tasks[u]
  BY <1>0 DEF Drop, TasksTypeOK
<1>2. GoesOn(t) /\ tasks'[t].pc = "none"
  BY SMTT(30), <1>1 DEF GoesOn, NoTask
<1>3. StartsNoLookup
  BY <1>0, <1>1 DEF StartsNoLookup
<1>4. AttemptsGoOn(c)
  BY <1>0, SameAttempts
<1>5. OwnerInv(c)'
  <2>1. CASE t = Owner(c)
    <3>1. OwnerMode(tasks'[Owner(c)], candidates'[c].state)
      BY SMTT(30), <1>1, <2>1 DEF OwnerMode, NoTask, Lookup
    <3> QED BY <1>0, <2>1, <3>1 DEF OwnerInv, Owner
  <2>2. CASE t # Owner(c)
    <3>1. tasks'[Owner(c)] = tasks[Owner(c)]
      BY <1>0, <1>1, <2>2
    <3> QED BY <1>0, <3>1 DEF OwnerInv, Owner
  <2> QED BY <2>1, <2>2
<1>6. tasks'[t].pc \notin Lookup
  BY <1>2 DEF Lookup
<1> QED BY <1>1, <1>2, <1>3, <1>4, <1>5, <1>6, TaskGoesOn

\* The owner takes its next cycle.
LEMMA AdvanceTracks ==
    ASSUME TrackInv, TasksTypeOK', StoreTypeOK', NEW c \in Candidates, NEW q \in TaskIds,
           tasks[Owner(c)].pc \notin Asking \cup {"none"},
           tasks'[Owner(c)].cycle = Upcoming(Owner(c)), tasks'[Owner(c)].pc = "queued",
           \A u \in TaskIds : u # Owner(c) /\ u # q => tasks'[u] = tasks[u],
           q # Owner(c) => /\ q[1] = c /\ Quick(q) /\ tasks[q].pc = "none"
                           /\ tasks'[q].cycle = tasks[Owner(c)].cycle
                           /\ tasks[Owner(c)].pc \in BeforeHash
                           /\ tasks'[q].pc = "queued" /\ QuickFollows(q)',
           reconciliations' = reconciliations,
           candidates'[c].cycle_count = candidates[c].cycle_count,
           \A d \in Candidates \ {c} : candidates'[d] = candidates[d],
           AttemptsGoOn(c), OwnerInv(c)',
           database_operational' => database_operational
    PROVE  Tracked'
<1> DEFINE o == Owner(c)
<1>0. o \in TaskIds /\ o[1] = c /\ ~Quick(o) /\ StoreTypeOK /\ TasksTypeOK
  BY PublicationFacts, OwnerIsTask DEF TrackInv
<1>1. CyclesInv'
  <2>1. \A d \in Candidates : candidates'[d].cycle_count = candidates[d].cycle_count
    OBVIOUS
  <2>2. CyclesInv
    BY DEF TrackInv, Tracked
  <2> QED BY <1>0, <2>1, <2>2, OwnerAdvances
<1>2. OneLookup'
  <2>1. \A t \in TaskIds : tasks'[t].pc \in Lookup => tasks[t].pc \in Lookup
    BY DEF Lookup
  <2>2. OneLookup
    BY DEF TrackInv, Tracked
  <2> QED BY <2>1, <2>2, LookupsStayOne
<1>3. ASSUME NEW t \in TaskIds PROVE QuickFollows(t)'
  <2>1. CASE t = q /\ q # o
    BY <2>1 DEF QuickFollows, Quick
  <2>2. CASE t # q \/ q = o
    <3>1. AttemptsGoOn(t[1])
      <4>1. CASE t[1] = c
        BY <4>1 DEF AttemptsGoOn
      <4>2. CASE t[1] # c
        <5>1. t[1] \in Candidates
          BY TaskIdParts
        <5>2. candidates'[t[1]] = candidates[t[1]]
          BY <4>2, <5>1
        <5> QED BY <1>0, <5>1, <5>2, SameAttempts
      <4> QED BY <4>1, <4>2
    <3>2. tasks'[t].pc # "none" => tasks[t].pc # "none"
      BY <2>2
    <3> QED BY <1>0, <3>1, <3>2, QuickKeepsFollowing DEF TrackInv, Tracked
  <2> QED BY <2>1, <2>2
<1>4. ASSUME NEW d \in Candidates, d # c PROVE OwnerInv(d)'
  <2>1. \A u \in TaskIds : u[1] = d => tasks'[u] = tasks[u]
    BY <1>0, <1>4
  <2> QED BY <1>4, <2>1, OthersAreOwned DEF TrackInv, Tracked
<1> QED BY <1>1, <1>2, <1>3, <1>4 DEF Tracked

LEMMA RequeueTracks ==
    ASSUME TrackInv, TasksTypeOK', StoreTypeOK', NEW t \in TaskIds, EndRequeue(t)
    PROVE  Tracked'
<1> DEFINE c == t[1]
<1>0. /\ tasks[t] \in TaskRows /\ c \in Candidates /\ StoreTypeOK /\ TasksTypeOK /\ OwnerInv(c)
      /\ candidates[c].state # "absent" /\ tasks[t].pc = "ended" /\ t = Owner(c)
  BY TaskFacts DEF EndRequeue
<1>1. /\ tasks'[t].pc = "queued" /\ tasks'[t].cycle = Upcoming(t)
      /\ tasks'[t].reconciliation_only = ~tasks[t].resume /\ tasks'[t].resume = FALSE
      /\ \A u \in TaskIds \ {t} : tasks'[u] = tasks[u]
  BY <1>0 DEF EndRequeue, TasksTypeOK, TaskRows, Upcoming
<1>2. UNCHANGED <<candidates, reconciliations, database_operational>>
  BY DEF EndRequeue, storeVars
<1>3. OwnerInv(c)'
  <2>1. tasks[t].reconciliation_only
    BY <1>0 DEF OwnerInv, OwnerMode, Lookup
  <2>2. OwnerMode(tasks'[t], candidates[c].state)
    <3>1. OwnerMode(tasks[t], candidates[c].state)
      BY <1>0 DEF OwnerInv
    <3> HIDE DEF c
    <3> QED BY <1>0, <1>1, <2>1, <3>1 DEF OwnerMode, Lookup
  <2> QED BY <1>0, <1>1, <1>2, <2>2 DEF OwnerInv, Owner
<1>4. AttemptsGoOn(c)
  BY <1>0, <1>2, SameAttempts
<1>5. tasks[t].pc \notin Asking \cup {"none"}
  BY <1>0 DEF Asking
<1> QED BY <1>0, <1>1, <1>2, <1>3, <1>4, <1>5, AdvanceTracks

-----------------------------------------------------------------------------
(* Submissions. *)
LEMMA DispatchTracks ==
    ASSUME TrackInv, StoreTypeOK', NEW t \in TaskIds, SubmitDispatch(t)
    PROVE  Tracked'
<1> DEFINE c == t[1]
           n == candidates[c].attempt_count
<1>0. /\ tasks[t] \in TaskRows /\ c \in Candidates /\ StoreTypeOK /\ TasksTypeOK /\ OwnerInv(c)
      /\ tasks[t].pc = "submit" /\ t = Owner(c) /\ candidates[c] \in CandidateRows
  BY TaskFacts DEF SubmitDispatch, StoreTypeOK
<1>1. /\ tasks'[t].pc = "submit_rpc" /\ tasks'[t].cycle = tasks[t].cycle
      /\ tasks'[t].reconciliation_only = tasks[t].reconciliation_only
      /\ tasks'[t].resume = tasks[t].resume
      /\ \A u \in TaskIds \ {t} : tasks'[u] = tasks[u]
  BY <1>0 DEF SubmitDispatch, TasksTypeOK, TaskRows
<1>2. /\ candidates'[c].state = "dispatching" /\ candidates'[c].attempt_count = n + 1
      /\ candidates'[c].cycle_count = candidates[c].cycle_count
      /\ \A d \in Candidates \ {c} : candidates'[d] = candidates[d]
  <2>1. candidates' = [candidates EXCEPT ![c].state = "dispatching", ![c].attempt_count = n + 1]
    BY DEF SubmitDispatch, StartCandidateAttempt
  <2> QED BY <1>0, <2>1 DEF StoreTypeOK, CandidateRows
<1>3. UNCHANGED <<reconciliations, database_operational>>
  BY DEF SubmitDispatch, StartCandidateAttempt
<1>4. GoesOn(t)
  BY <1>0, <1>1 DEF GoesOn, BeforeHash, BeforeHeight
<1>5. StartsNoLookup
  BY <1>0, <1>1, <1>2, <1>3 DEF StartsNoLookup, Asking
<1>6. AttemptsGoOn(c)
  <2>1. n \in 0..MaxAttempts
    BY <1>0 DEF CandidateRows
  <2> HIDE DEF n
  <2>2. n <= n + 1 /\ n < n + 1
    BY SMTT(30), <2>1, MaxAttemptsAssumption
  <2> QED BY <1>2, <2>2 DEF AttemptsGoOn, n
<1>7. OwnerInv(c)'
  <2>1. OwnerMode(tasks'[t], "dispatching")
    <3>1. OwnerMode(tasks[t], candidates[c].state)
      BY <1>0 DEF OwnerInv
    <3> HIDE DEF c
    <3> QED BY <1>0, <1>1, <3>1 DEF OwnerMode, Lookup
  <2> QED BY <1>0, <1>1, <1>2, <2>1 DEF OwnerInv, Owner
<1>8. tasks'[t].pc \notin Lookup
  BY <1>1 DEF Lookup
<1> QED BY <1>1, <1>2, <1>3, <1>4, <1>5, <1>6, <1>7, <1>8, TaskGoesOn

\* What the end of an attempt does to its candidate.
LEMMA AttemptEndRows ==
    ASSUME StoreTypeOK, NEW c \in Candidates, NEW class,
           FinishCandidateAttempt(c, candidates[c].attempt_count, class, TrustedMode)
    PROVE  LET n == candidates[c].attempt_count
               state == candidates'[c].state
           IN /\ n \in AttemptNumbers /\ reconciliations' = reconciliations
              /\ \A d \in Candidates \ {c} : candidates'[d] = candidates[d]
              /\ candidates'[c].attempt_count = n
              /\ candidates'[c].cycle_count = candidates[c].cycle_count
              /\ state \in Accepted \cup {"retry_wait", "ambiguous", "rejected"}
              /\ state = "retry_wait" => n < MaxAttempts /\ candidates[c].state = "dispatching"
              /\ state = "ambiguous" => ~(n < MaxAttempts)
              /\ state = "rejected" => class # "indeterminate"
<1> DEFINE n == candidates[c].attempt_count
<1>0. candidates[c] \in CandidateRows
  BY DEF StoreTypeOK
<1>1. n \in AttemptNumbers /\ reconciliations' = reconciliations
  BY DEF FinishCandidateAttempt, FinishAttemptAfterAcceptance, FinishAttemptAccepted,
     FinishAttemptFailed, ActiveAttempt
<1>2. CASE FinishAttemptAfterAcceptance(c, n, class)
  BY <1>1, <1>2 DEF FinishAttemptAfterAcceptance
<1>3. CASE FinishAttemptAccepted(c, n)
  <2>1. candidates' = [candidates EXCEPT ![c].state = "accepted"]
    BY <1>3 DEF FinishAttemptAccepted, AcceptInTransaction
  <2>2. /\ candidates'[c].state = "accepted" /\ candidates'[c].attempt_count = n
        /\ candidates'[c].cycle_count = candidates[c].cycle_count
        /\ \A d \in Candidates \ {c} : candidates'[d] = candidates[d]
    BY <1>0, <2>1 DEF StoreTypeOK, CandidateRows
  <2> QED BY <1>1, <2>2
<1>4. CASE FinishAttemptFailed(c, n, class, TrustedMode)
  <2> DEFINE state == StateAfterFailure(c, n, class)
             doubt == (candidates[c].had_indeterminate \/ class = "indeterminate")
  <2>1. /\ candidates' = [candidates EXCEPT ![c].state = state, ![c].had_indeterminate = doubt]
        /\ candidates[c].state = "dispatching"
    BY <1>4 DEF FinishAttemptFailed, StillDispatching
  <2>2. /\ candidates'[c].state = state /\ candidates'[c].attempt_count = n
        /\ candidates'[c].cycle_count = candidates[c].cycle_count
        /\ \A d \in Candidates \ {c} : candidates'[d] = candidates[d]
    <3> HIDE DEF state, doubt
    <3> QED BY <1>0, <2>1 DEF StoreTypeOK, CandidateRows
  <2>3. /\ state \in {"retry_wait", "ambiguous", "rejected"}
        /\ state = "retry_wait" => n < MaxAttempts
        /\ state = "ambiguous" => ~(n < MaxAttempts)
        /\ state = "rejected" => class # "indeterminate"
    BY DEF StateAfterFailure
  <2> HIDE DEF state
  <2> QED BY <1>1, <2>1, <2>2, <2>3
<1> QED BY <1>2, <1>3, <1>4 DEF FinishCandidateAttempt

\* The owner after its attempt, still in its cycle or gone.
LEMMA AttemptEndTracks ==
    ASSUME TrackInv, StoreTypeOK', NEW t \in TaskIds, tasks[t].pc = "submit_rpc", NEW class,
           FinishCandidateAttempt(t[1], candidates[t[1]].attempt_count, class, TrustedMode),
           NEW row, tasks' = [tasks EXCEPT ![t] = row],
           \/ row = NoTask /\ candidates'[t[1]].state \notin Unresolved
           \/ row.pc = "queued" /\ row.cycle = tasks[t].cycle,
           OwnerMode(row, candidates'[t[1]].state),
           database_operational' = database_operational
    PROVE  Tracked'
<1> DEFINE c == t[1]
<1>0. /\ c \in Candidates /\ StoreTypeOK /\ TasksTypeOK /\ t = Owner(c)
  BY TaskFacts
<1>1. tasks'[t] = row /\ \A u \in TaskIds \ {t} : tasks'[u] = tasks[u]
  BY <1>0 DEF TasksTypeOK
<1>2. /\ reconciliations' = reconciliations
      /\ \A d \in Candidates \ {c} : candidates'[d] = candidates[d]
      /\ candidates'[c].attempt_count = candidates[c].attempt_count
      /\ candidates'[c].cycle_count = candidates[c].cycle_count
      /\ candidates'[c].state \in Accepted \cup {"retry_wait", "ambiguous", "rejected"}
      /\ candidates'[c].state = "retry_wait" => candidates[c].attempt_count < MaxAttempts
  BY <1>0, AttemptEndRows
<1>3. row.pc \in {"none", "queued"} /\ (candidates'[c].state \in Unresolved => row.pc = "queued")
  BY SMTT(30) DEF NoTask
<1>4. GoesOn(t)
  BY SMTT(30), <1>1, <1>3 DEF GoesOn, BeforeHash, BeforeHeight, NoTask
<1>5. StartsNoLookup
  BY <1>0, <1>1, <1>2 DEF StartsNoLookup, Asking
<1>6. AttemptsGoOn(c)
  BY <1>0, <1>2, SameAttempts
<1>7. OwnerInv(c)'
  BY <1>0, <1>1, <1>2, <1>3 DEF OwnerInv, Owner
<1>8. tasks'[t].pc \notin Lookup
  BY <1>1, <1>3 DEF Lookup
<1> QED BY <1>1, <1>2, <1>4, <1>5, <1>6, <1>7, <1>8, TaskGoesOn

LEMMA ExceptionTracks ==
    ASSUME TrackInv, StoreTypeOK', NEW t \in TaskIds, SubmitException(t)
    PROVE  Tracked'
<1> DEFINE c == t[1]
           n == candidates[c].attempt_count
           state == candidates'[c].state
           again == (state # "ambiguous" /\ n < MaxAttempts)
           row == [tasks[t] EXCEPT !.pc = "queued", !.reply = "none", !.reconciliation_only = TRUE,
                                   !.resume = again]
<1>0. c \in Candidates /\ StoreTypeOK /\ tasks[t] \in TaskRows
  BY TaskFacts
<1>1. /\ tasks[t].pc = "submit_rpc" /\ database_operational' = database_operational
      /\ FinishCandidateAttempt(c, n, "indeterminate", TrustedMode)
      /\ tasks' = IF state \in Accepted THEN [tasks EXCEPT ![t] = NoTask]
                  ELSE [tasks EXCEPT ![t] = row]
  BY DEF SubmitException
<1>2. /\ state \in Accepted \cup {"retry_wait", "ambiguous"}
      /\ state = "retry_wait" => n < MaxAttempts
  BY <1>0, <1>1, AttemptEndRows
<1>3. CASE state \in Accepted
  <2>1. tasks' = [tasks EXCEPT ![t] = NoTask] /\ state \notin Unresolved
    BY <1>1, <1>3
  <2>2. OwnerMode(NoTask, state)
    BY DEF OwnerMode, NoTask, Lookup
  <2> QED BY <1>1, <2>1, <2>2, AttemptEndTracks
<1>4. CASE state \notin Accepted
  <2>1. row.pc = "queued" /\ row.cycle = tasks[t].cycle /\ row.reconciliation_only = TRUE /\ row.resume = again
    <3> HIDE DEF again
    <3> QED BY <1>0 DEF TaskRows
  <2>2. again <=> state # "ambiguous"
    BY <1>2, <1>4
  <2>3. OwnerMode(row, state)
    <3> HIDE DEF row, again, state
    <3> QED BY <2>1, <2>2 DEF OwnerMode, Lookup
  <2>4. tasks' = [tasks EXCEPT ![t] = row]
    BY <1>1, <1>4
  <2> HIDE DEF row
  <2> QED BY <1>1, <2>1, <2>3, <2>4, AttemptEndTracks
<1> QED BY <1>3, <1>4

LEMMA FinishTracks ==
    ASSUME TrackInv, StoreTypeOK', TasksTypeOK', NEW t \in TaskIds, NEW class \in AttemptClasses,
           SubmitFinish(t, class)
    PROVE  Tracked'
<1> DEFINE c == t[1]
           n == candidates[c].attempt_count
           state == candidates'[c].state
           owner == [tasks[t] EXCEPT !.pc = "queued", !.reply = "none"]
<1>0. /\ c \in Candidates /\ StoreTypeOK /\ tasks[t] \in TaskRows /\ TasksTypeOK
      /\ tasks[t].pc = "submit_rpc" /\ t = Owner(c) /\ OwnerInv(c)
  BY TaskFacts DEF SubmitFinish
<1>1. /\ database_operational' = database_operational
      /\ FinishCandidateAttempt(c, n, class, TrustedMode)
      /\ tasks' = AfterAttempt(t, n, class, state)
  BY DEF SubmitFinish
<1>2. /\ n \in AttemptNumbers /\ reconciliations' = reconciliations
      /\ \A d \in Candidates \ {c} : candidates'[d] = candidates[d]
      /\ candidates'[c].attempt_count = n
      /\ candidates'[c].cycle_count = candidates[c].cycle_count
      /\ state \in Accepted \cup {"retry_wait", "ambiguous", "rejected"}
      /\ state = "retry_wait" => n < MaxAttempts /\ candidates[c].state = "dispatching"
  BY <1>0, <1>1, AttemptEndRows
<1>3. /\ owner.pc = "queued" /\ owner.cycle = tasks[t].cycle
      /\ owner.reconciliation_only = tasks[t].reconciliation_only /\ owner.resume = tasks[t].resume
      /\ owner \in [pc : {"queued"}, reconciliation_only : BOOLEAN, resume : BOOLEAN,
                    cycle : 0..MaxCycle, reply : {"none"}]
  BY <1>0 DEF TaskRows
<1>4. ~tasks[t].reconciliation_only /\ ~tasks[t].resume
  BY <1>0 DEF OwnerInv, OwnerMode
<1> HIDE DEF owner
<1>5. CASE state \in Accepted \cup {"rejected"}
  <2>1. tasks' = [tasks EXCEPT ![t] = NoTask] /\ state \notin Unresolved
    BY <1>1, <1>5 DEF AfterAttempt
  <2>2. OwnerMode(NoTask, state)
    BY DEF OwnerMode, NoTask, Lookup
  <2> QED BY <1>0, <1>1, <2>1, <2>2, AttemptEndTracks
<1>6. CASE state = "ambiguous"
  <2> DEFINE row == AmbiguousOwner(owner)
  <2>1. tasks' = [tasks EXCEPT ![t] = row]
    BY <1>1, <1>6 DEF AfterAttempt, owner
  <2>2. row.pc = "queued" /\ row.cycle = tasks[t].cycle /\ row.reconciliation_only /\ ~row.resume
    BY <1>3, <1>4 DEF AmbiguousOwner
  <2> HIDE DEF row
  <2>3. OwnerMode(row, state)
    BY <1>6, <2>2 DEF OwnerMode, Lookup
  <2> QED BY <1>0, <1>1, <2>1, <2>2, <2>3, AttemptEndTracks
<1>7. CASE state = "retry_wait" /\ class # "indeterminate"
  <2>1. tasks' = [tasks EXCEPT ![t] = owner]
    BY <1>1, <1>7 DEF AfterAttempt, owner
  <2>2. OwnerMode(owner, state)
    BY <1>3, <1>4, <1>7 DEF OwnerMode, Lookup
  <2> QED BY <1>0, <1>1, <1>3, <2>1, <2>2, AttemptEndTracks
<1>8. CASE state = "retry_wait" /\ class = "indeterminate"
  <2> DEFINE q == <<c, n>>
             ahead == [owner EXCEPT !.cycle = CycleAfterQuick(owner.cycle)]
             quick == [NoTask EXCEPT !.pc = "queued", !.cycle = owner.cycle, !.reconciliation_only = TRUE]
  <2>1. q \in TaskIds /\ Quick(q) /\ q[1] = c /\ q[2] = n /\ q # t
    <3>1. n \in 0..(MaxAttempts - 1) /\ n # 0
      <4> HIDE DEF n
      <4> QED BY SMTT(30), <1>2, <1>8, MaxAttemptsAssumption DEF AttemptNumbers
    <3>2. q \in TaskIds /\ Quick(q) /\ q[1] = c /\ q[2] = n
      BY <1>0, <3>1 DEF TaskIds, Quick
    <3> QED BY <1>0, <3>2, OwnerIsTask
  <2>2. tasks' = [tasks EXCEPT ![t] = ahead, ![q] = quick]
    BY <1>1, <1>8 DEF AfterAttempt, owner
  <2>3. tasks'[t] = ahead /\ tasks'[q] = quick /\ \A u \in TaskIds : u # t /\ u # q => tasks'[u] = tasks[u]
    <3> HIDE DEF ahead, quick, q
    <3> QED BY <1>0, <2>1, <2>2 DEF TasksTypeOK
  <2>4. /\ ahead.pc = "queued" /\ ahead.cycle = Upcoming(t) /\ ~ahead.reconciliation_only /\ ~ahead.resume
        /\ quick.pc = "queued" /\ quick.cycle = tasks[t].cycle
    BY <1>3, <1>4 DEF NoTask, CycleAfterQuick, Upcoming
  <2>5. tasks[q].pc = "none"
    <3>1. QuickFollows(q)
      BY <2>1 DEF TrackInv, Tracked
    <3> QED BY <1>2, <1>8, <2>1, <3>1 DEF QuickFollows
  <2> HIDE DEF ahead, quick
  <2>6. QuickFollows(q)'
    <3>1. n <= n
      BY SMTT(30), <1>2 DEF AttemptNumbers
    <3> QED BY <1>2, <1>8, <2>1, <3>1 DEF QuickFollows, Quick
  <2>7. OwnerInv(c)'
    <3>1. OwnerMode(ahead, state)
      BY <1>8, <2>4 DEF OwnerMode, Lookup
    <3> QED BY <1>0, <1>2, <1>8, <2>3, <2>4, <3>1 DEF OwnerInv, Owner
  <2>8. AttemptsGoOn(c)
    BY <1>0, <1>2, <1>8, SameAttempts
  <2>9. tasks[t].pc \notin Asking \cup {"none"} /\ tasks[t].pc \in BeforeHash
    BY <1>0 DEF Asking, BeforeHash
  <2> QED BY <1>0, <1>1, <1>2, <2>1, <2>3, <2>4, <2>5, <2>6, <2>7, <2>8, <2>9, AdvanceTracks
<1> QED BY <1>2, <1>5, <1>6, <1>7, <1>8

-----------------------------------------------------------------------------
(* Lookups, and what the daemon does. *)
LEMMA LookupDispatchTracks ==
    ASSUME TrackInv, StoreTypeOK', NEW t \in TaskIds, LookupDispatch(t)
    PROVE  Tracked'
<1> DEFINE c == t[1]
           pc == IF tasks[t].pc = "height" THEN "height_rpc" ELSE "expected_hash_rpc"
<1>0. /\ c \in Candidates /\ StoreTypeOK /\ TasksTypeOK /\ tasks[t] \in TaskRows /\ CyclesInv
      /\ OneLookup /\ OwnerInv(c) /\ Owner(c) \in TaskIds /\ candidates[c].state # "absent"
      /\ tasks[t].pc \in {"expected_hash", "height"}
  BY TaskFacts DEF LookupDispatch, AtBarrier
<1>1. /\ tasks'[t].pc = pc
      /\ tasks'[t].reconciliation_only = tasks[t].reconciliation_only
      /\ tasks'[t].resume = tasks[t].resume
      /\ \A u \in TaskIds \ {t} : tasks'[u] = tasks[u]
  BY <1>0 DEF LookupDispatch, TasksTypeOK, TaskRows
<1>2. /\ candidates'[c].state = candidates[c].state
      /\ candidates'[c].attempt_count = candidates[c].attempt_count
      /\ candidates'[c].exhausted = candidates[c].exhausted
      /\ \A d \in Candidates \ {c} : candidates'[d] = candidates[d]
  BY SMTT(30), <1>0 DEF LookupDispatch, StartCandidateReconciliation, StoreTypeOK, CandidateRows
<1>3. database_operational' = database_operational
  BY DEF LookupDispatch
<1>4. CyclesInv'
  BY <1>0, LookupStarts
<1>5. \A u \in TaskIds : tasks'[u].pc \in Lookup => tasks[u].pc \in Lookup
  BY <1>0, <1>1 DEF Lookup
<1>6. ASSUME NEW u \in TaskIds PROVE QuickFollows(u)'
  <2>1. u[1] \in Candidates
    BY TaskIdParts
  <2>2. AttemptsGoOn(u[1])
    BY <1>0, <1>2, <2>1, SameAttempts
  <2>3. tasks'[u].pc # "none" => tasks[u].pc # "none"
    BY <1>0, <1>1
  <2> QED BY <1>0, <2>2, <2>3, QuickKeepsFollowing DEF TrackInv, Tracked
<1>7. ASSUME NEW d \in Candidates PROVE OwnerInv(d)'
  <2>1. CASE d # c
    <3>1. \A u \in TaskIds : u[1] = d => tasks'[u] = tasks[u]
      BY <1>1, <2>1
    <3> QED BY <1>2, <1>3, <2>1, <3>1, OthersAreOwned DEF TrackInv, Tracked
  <2>2. CASE d = c
    <3>1. OwnerMode(tasks'[Owner(c)], candidates[c].state)
      <4>1. OwnerMode(tasks[Owner(c)], candidates[c].state)
        BY <1>0 DEF OwnerInv
      <4>2. CASE t = Owner(c)
        <5>1. pc \in {"height_rpc", "expected_hash_rpc"}
          OBVIOUS
        <5> HIDE DEF c, pc
        <5> QED BY <1>0, <1>1, <4>1, <4>2, <5>1 DEF OwnerMode, Lookup
      <4>3. CASE t # Owner(c)
        BY <1>0, <1>1, <4>1, <4>3
      <4> QED BY <4>2, <4>3
    <3>2. tasks[Owner(c)].pc # "none" => tasks'[Owner(c)].pc # "none"
      BY <1>0, <1>1
    <3> QED BY <1>0, <1>2, <1>3, <2>2, <3>1, <3>2 DEF OwnerInv, Owner
  <2> QED BY <2>1, <2>2
<1> QED BY <1>0, <1>4, <1>5, <1>6, <1>7, LookupsStayOne DEF Tracked

LEMMA LookupFinishTracks ==
    ASSUME TrackInv, StoreTypeOK', NEW t \in TaskIds, NEW class \in LookupClasses,
           LookupFinish(t, class)
    PROVE  Tracked'
<1> DEFINE c == t[1]
           l == LookupRow(t)
           pc == IF tasks[t].pc = "height_rpc" THEN "ended" ELSE "height"
<1>0. /\ c \in Candidates /\ StoreTypeOK /\ TasksTypeOK /\ tasks[t] \in TaskRows
      /\ OwnerInv(c) /\ Owner(c) \in TaskIds /\ candidates[c].state # "absent"
      /\ tasks[t].pc \in {"expected_hash_rpc", "height_rpc"} /\ l \in Lookups
  BY TaskFacts, LookupRowType DEF LookupFinish
<1>1. /\ reconciliations[c][l] = "querying" /\ database_operational' = database_operational
      /\ reconciliations' = [reconciliations EXCEPT ![c][l] = class]
      /\ \/ candidates' = candidates
         \/ candidates' = [candidates EXCEPT ![c].state = "accepted_by_reconciliation"]
  BY DEF LookupFinish, FinishCandidateReconciliation, FinishReconciliationPositive,
     FinishReconciliationOther, AcceptInTransaction
<1>2. /\ reconciliations'[c][l] = class /\ class \notin {"none", "querying"}
      /\ \A d \in Candidates : \A m \in Lookups :
            d # c \/ m # l => reconciliations'[d][m] = reconciliations[d][m]
  <2> HIDE DEF l, c
  <2> QED BY SMTT(30), <1>0, <1>1 DEF StoreTypeOK, LookupClasses
<1>3. /\ candidates' = candidates \/ candidates'[c].state \in Accepted
      /\ candidates'[c].attempt_count = candidates[c].attempt_count
      /\ candidates'[c].cycle_count = candidates[c].cycle_count
      /\ \A d \in Candidates \ {c} : candidates'[d] = candidates[d]
  <2>1. CASE candidates' = candidates
    BY <2>1
  <2>2. CASE candidates' = [candidates EXCEPT ![c].state = "accepted_by_reconciliation"]
    BY <1>0, <2>2 DEF StoreTypeOK, CandidateRows
  <2> QED BY <1>1, <2>1, <2>2
<1>4. /\ \/ tasks'[t] = NoTask /\ candidates'[c].state \in Accepted
         \/ /\ candidates' = candidates
            /\ tasks'[t].pc = pc /\ tasks'[t].cycle = tasks[t].cycle
            /\ tasks'[t].reconciliation_only = tasks[t].reconciliation_only
            /\ tasks'[t].resume = tasks[t].resume
      /\ \A u \in TaskIds \ {t} : tasks'[u] = tasks[u]
  <2>1. CASE candidates'[c].state \in Accepted
    BY <1>0, <2>1 DEF LookupFinish, Drop, TasksTypeOK
  <2>2. CASE candidates'[c].state \notin Accepted
    <3>1. tasks' = [tasks EXCEPT ![t].pc = pc]
      BY <2>2 DEF LookupFinish
    <3> HIDE DEF pc
    <3> QED BY <1>0, <1>3, <2>2, <3>1 DEF TasksTypeOK, TaskRows
  <2> QED BY <2>1, <2>2
<1>5. tasks'[t] = NoTask \/ tasks'[t].pc = pc
  BY <1>4
<1>6. GoesOn(t)
  BY SMTT(30), <1>0, <1>4 DEF GoesOn, BeforeHash, BeforeHeight, NoTask
<1>7. StartsNoLookup
  <2>1. \A d \in Candidates : candidates'[d].cycle_count = candidates[d].cycle_count
    BY <1>3
  <2>2. \A d \in Candidates : \A m \in Lookups :
           /\ reconciliations[d][m] = "none" => reconciliations'[d][m] = "none"
           /\ reconciliations'[d][m] = "querying" => reconciliations[d][m] = "querying"
    BY <1>1, <1>2
  <2>3. ASSUME NEW u \in TaskIds
        PROVE  \/ tasks'[u].pc = tasks[u].pc /\ tasks'[u].cycle = tasks[u].cycle
               \/ reconciliations'[u[1]][LookupRow(u)] # "querying"
    BY <1>2, <1>4
  <2> QED BY <2>1, <2>2, <2>3 DEF StartsNoLookup
<1>8. AttemptsGoOn(c)
  BY <1>0, <1>3, SameAttempts
<1>9. OwnerInv(c)'
  <2>0. OwnerMode(tasks[Owner(c)], candidates[c].state)
    BY <1>0 DEF OwnerInv
  <2>1. CASE candidates'[c].state \in Accepted
    <3>1. OwnerMode(tasks'[Owner(c)], candidates'[c].state)
      <4>1. CASE tasks'[Owner(c)] = NoTask
        BY SMTT(30), <4>1 DEF OwnerMode, NoTask, Lookup
      <4>2. CASE tasks'[Owner(c)] = tasks[Owner(c)]
        BY <2>0, <2>1, <4>2 DEF OwnerMode
      <4>3. CASE t = Owner(c) /\ tasks'[t] # NoTask
        <5>1. tasks[t].reconciliation_only
          BY <1>0, <2>0, <4>3 DEF OwnerMode, Lookup
        <5>2. tasks'[t].pc \in {"ended", "height"}
          BY <1>4, <4>3
        <5> QED BY <1>4, <2>0, <2>1, <4>3, <5>1, <5>2 DEF OwnerMode
      <4> QED BY <1>0, <1>4, <4>1, <4>2, <4>3
    <3> QED BY <2>1, <3>1 DEF OwnerInv, Owner
  <2>2. CASE candidates'[c].state \notin Accepted
    <3>1. candidates' = candidates
      BY <1>3, <2>2
    <3>2. OwnerMode(tasks'[Owner(c)], candidates[c].state) /\ (tasks[Owner(c)].pc # "none" => tasks'[Owner(c)].pc # "none")
      <4>1. CASE t # Owner(c)
        BY <1>0, <1>4, <2>0, <4>1
      <4>2. CASE t = Owner(c)
        <5>1. tasks'[t].pc \in {"ended", "height"}
          BY <1>4, <2>2
        <5> QED BY <1>0, <1>4, <2>0, <2>2, <4>2, <5>1 DEF OwnerMode, Lookup
      <4> QED BY <4>1, <4>2
    <3> QED BY <1>0, <1>1, <3>1, <3>2 DEF OwnerInv, Owner
  <2> QED BY <2>1, <2>2
<1>10. tasks[t].pc \in Lookup
  BY <1>0 DEF Lookup
<1> QED BY <1>1, <1>3, <1>4, <1>6, <1>7, <1>8, <1>9, <1>10, TaskGoesOn

LEMMA DaemonTracks ==
    ASSUME TrackInv, StoreTypeOK', NEW t \in TaskIds, DaemonHandles(t)
    PROVE  Tracked'
<1> DEFINE c == t[1]
<1>0. /\ c \in Candidates /\ StoreTypeOK /\ TasksTypeOK /\ tasks[t] \in TaskRows
      /\ OwnerInv(c) /\ candidates[c].state # "absent" /\ tasks[t].pc = "submit_rpc" /\ t = Owner(c)
  BY TaskFacts DEF DaemonHandles
<1>1. PICK reply : tasks' = [tasks EXCEPT ![t].reply = reply]
  BY DEF DaemonHandles
<1>2. /\ tasks'[t].pc = tasks[t].pc /\ tasks'[t].cycle = tasks[t].cycle
      /\ tasks'[t].reconciliation_only = tasks[t].reconciliation_only
      /\ tasks'[t].resume = tasks[t].resume
      /\ \A u \in TaskIds \ {t} : tasks'[u] = tasks[u]
  BY <1>0, <1>1 DEF TasksTypeOK, TaskRows
<1>3. UNCHANGED <<candidates, reconciliations, database_operational>>
  BY DEF DaemonHandles, storeVars
<1>4. GoesOn(t) /\ StartsNoLookup
  BY <1>0, <1>2, <1>3 DEF GoesOn, StartsNoLookup
<1>5. AttemptsGoOn(c)
  BY <1>0, <1>3, SameAttempts
<1>6. OwnerInv(c)'
  <2>1. OwnerMode(tasks'[t], candidates[c].state)
    BY <1>0, <1>2 DEF OwnerInv, OwnerMode
  <2> QED BY <1>0, <1>2, <1>3, <2>1 DEF OwnerInv, Owner
<1> QED BY <1>2, <1>3, <1>4, <1>5, <1>6, TaskGoesOn

LEMMA UntouchedTracks ==
    ASSUME TrackInv, StoreTypeOK', UNCHANGED <<candidates, reconciliations, tasks, database_operational>>
    PROVE  Tracked'
<1>0. StoreTypeOK /\ TasksTypeOK /\ CyclesInv /\ OneLookup
  BY PublicationFacts DEF TrackInv, Tracked
<1>1. (\A t \in TaskIds : GoesOn(t)) /\ StartsNoLookup
  BY DEF GoesOn, StartsNoLookup
<1>2. CyclesInv' /\ OneLookup'
  BY <1>0, <1>1, CyclesGoOn, LookupsStayOne
<1>3. ASSUME NEW t \in TaskIds PROVE QuickFollows(t)'
  <2>1. AttemptsGoOn(t[1])
    BY <1>0, TaskIdParts, SameAttempts
  <2> QED BY <1>0, <2>1, QuickKeepsFollowing DEF TrackInv, Tracked
<1>4. ASSUME NEW c \in Candidates PROVE OwnerInv(c)'
  BY OthersAreOwned DEF TrackInv, Tracked
<1> QED BY <1>2, <1>3, <1>4 DEF Tracked

-----------------------------------------------------------------------------
(* The theorem. *)
LEMMA TrackInit == Init => TrackInv
<1> SUFFICES ASSUME Init PROVE TrackInv
  OBVIOUS
<1>1. PublicationInv
  BY PublicationInit
<1>2. StoreTypeOK /\ TasksTypeOK /\ \A t \in TaskIds : tasks[t] = NoTask
  BY <1>1, PublicationFacts DEF Init
<1>3. 1 \in Heights /\ 0 \in 0..MaxCrashes
  BY SMTT(30), RuntimeAssumption
<1>4. TypeOK
  BY <1>2, <1>3 DEF Init, TypeOK, TasksTypeOK
<1>5. /\ \A c \in Candidates : candidates[c] = AbsentRow
      /\ \A c \in Candidates : \A l \in Lookups : reconciliations[c][l] = "none"
  BY DEF Init, StoreInit
<1>6. CyclesInv /\ OneLookup /\ \A t \in TaskIds : QuickFollows(t)
  BY SMTT(30), <1>2, <1>5, OwnerIsTask DEF CyclesInv, OneLookup, QuickFollows, RowsAhead, TasksApart, OwnerAhead,
     RowsAreCounted, QueriesAreAsked, BeforeHash, BeforeHeight, Lookup, NoTask
<1>7. ASSUME NEW c \in Candidates PROVE OwnerInv(c)
  <2>1. OwnerMode(tasks[Owner(c)], "absent")
    BY SMTT(30), <1>2, OwnerIsTask DEF OwnerMode, NoTask, Lookup
  <2> QED BY SMTT(30), <1>2, <1>5, <2>1 DEF OwnerInv, AbsentRow, NoTask
<1> QED BY <1>1, <1>4, <1>6, <1>7 DEF TrackInv, Tracked

LEMMA TaskStepTracks ==
    ASSUME TrackInv, StoreTypeOK', TasksTypeOK', NEW t \in TaskIds, TaskStep(t)
    PROVE  Tracked'
<1> USE DEF TaskPcs, Asking, BeforeHash, BeforeHeight, Lookup
<1>0. /\ t[1] \in Candidates /\ OwnerInv(t[1]) /\ StoreTypeOK
      /\ ~Quick(t) => t = Owner(t[1])
      /\ Quick(t) /\ tasks[t].pc # "none" => tasks[t].reconciliation_only
  BY TaskFacts
<1>1. CASE TakeTerminal(t)
  BY <1>1, DropTracks DEF TakeTerminal, CanTake, storeVars
<1>2. CASE TakeSubmit(t)
  BY <1>2, PcStepTracks DEF TakeSubmit, CanTake
<1>3. CASE TakeLookup(t)
  <2>1. \A u \in TaskIds : u[1] = t[1] => tasks[u].pc \notin Lookup
    BY <1>3 DEF TakeLookup, TasksIn
  <2> QED BY <1>3, <2>1, PcStepTracks DEF TakeLookup, CanTake
<1>4. CASE SubmitRefused(t)
  BY <1>4, PcStepTracks DEF SubmitRefused, Requeue
<1>5. CASE LookupFails(t)
  <2>1. tasks[t].reconciliation_only
    BY <1>0, <1>5 DEF LookupFails, AtBarrier, OwnerInv, OwnerMode
  <2> QED BY <1>5, <2>1, PcStepTracks DEF LookupFails, AtBarrier
<1>6. CASE RecoverLookup(t)
  <2>1. \A u \in TaskIds : tasks[u].pc \notin Lookup
    BY <1>6 DEF RecoverLookup, TasksIn, Active
  <2>2. tasks[t].reconciliation_only
    BY <1>0, <1>6 DEF RecoverLookup, OwnerInv, OwnerMode
  <2> QED BY <1>6, <2>1, <2>2, PcStepTracks DEF RecoverLookup
<1>7. CASE EndQuick(t)
  BY <1>7, DropTracks DEF EndQuick, storeVars
<1>8. CASE EndExhausted(t)
  <2>0. candidates[t[1]] \in CandidateRows
    BY <1>0 DEF StoreTypeOK
  <2>1. /\ candidates'[t[1]].state = candidates[t[1]].state
        /\ candidates'[t[1]].attempt_count = candidates[t[1]].attempt_count
        /\ candidates'[t[1]].cycle_count = candidates[t[1]].cycle_count
        /\ candidates'[t[1]].exhausted = (candidates[t[1]].exhausted \/ candidates[t[1]].state = "ambiguous")
        /\ \A d \in Candidates \ {t[1]} : candidates'[d] = candidates[d]
    BY <1>0, <1>8, <2>0 DEF EndExhausted, ExhaustCandidateReconciliation, StoreTypeOK, CandidateRows
  <2>2. candidates[t[1]].state \in Unresolved => candidates[t[1]].state = "ambiguous"
    <3>1. tasks[t].pc = "ended" /\ ~tasks[t].resume /\ t = Owner(t[1])
      BY <1>0, <1>8 DEF EndExhausted
    <3>2. OwnerMode(tasks[t], candidates[t[1]].state)
      BY <1>0, <3>1 DEF OwnerInv
    <3>3. tasks[t].reconciliation_only
      BY <3>1, <3>2 DEF OwnerMode
    <3> QED BY <3>1, <3>2, <3>3 DEF OwnerMode
  <2> QED BY <1>8, <2>1, <2>2, DropTracks DEF EndExhausted, ExhaustCandidateReconciliation
<1> QED
  BY <1>1, <1>2, <1>3, <1>4, <1>5, <1>6, <1>7, <1>8, RequeueTracks, DispatchTracks, ExceptionTracks,
     FinishTracks, LookupDispatchTracks, LookupFinishTracks
  DEF TaskStep

LEMMA TrackedStep ==
    ASSUME TrackInv, [Next]_vars, StoreTypeOK', TasksTypeOK'
    PROVE  Tracked'
<1>0. StoreTypeOK /\ CyclesInv /\ \A c \in Candidates : OwnerInv(c)
  BY PublicationFacts DEF TrackInv, Tracked
<1>1. CASE \/ UNCHANGED vars \/ FetchTemplate \/ PublishTemplate \/ HoldTemplate \/ IssueJob
           \/ StartWorkers \/ ChainGrows
  <2>1. UNCHANGED <<candidates, reconciliations, tasks, database_operational>>
    BY <1>1 DEF vars, FetchTemplate, PublishTemplate, HoldTemplate, IssueJob, StartWorkers, ChainGrows,
       storeVars, processVars
  <2> QED BY <2>1, UntouchedTracks
<1>2. ASSUME NEW h \in Heights, NEW c \in Candidates \cup {NoCandidate}, ProcessShare(h, c) PROVE Tracked'
  <2>1. UNCHANGED <<candidates, reconciliations, tasks, database_operational>>
    BY <1>2 DEF ProcessShare, InsertShare, processVars
  <2> QED BY <2>1, UntouchedTracks
<1>3. ASSUME NEW c \in Candidates, JournalExisting(c) \/ DaemonHandlesLate(c) PROVE Tracked'
  <2>1. UNCHANGED <<candidates, reconciliations, tasks, database_operational>>
    BY <1>3 DEF JournalExisting, DaemonHandlesLate, storeVars, processVars
  <2> QED BY <2>1, UntouchedTracks
<1>4. CASE Restart
  BY <1>0, <1>4, RestartCycles, RestartOwns DEF Tracked
<1> QED
  BY <1>1, <1>2, <1>3, <1>4, JournalTracks, TaskStepTracks, DaemonTracks DEF Next

\* The variables that only the publication writes keep their types.
LEMMA ReleaseTypes ==
    ASSUME TypeOK, NEW c \in Candidates, NEW state, ReleaseByState(c, state)
    PROVE  /\ fence' \in Heights \cup {0} /\ issuance' \in BOOLEAN
           /\ UNCHANGED <<current_height, fetched, jobs>>
<1>1. CandidateHeight[c] \in Heights
  BY HeightsAssumption
<1>2. Higher(fence, CandidateHeight[c]) \in Heights \cup {0}
  BY <1>1 DEF Higher, TypeOK
<1> QED BY <1>2 DEF ReleaseByState, ReleaseAccepted, ReleaseRejected, TypeOK

LEMMA LatestHeightType ==
    ASSUME PublicationInv
    PROVE  LatestAcceptedHeight \in Heights \cup {0}
<1> DEFINE last == last_round_id
<1>0. StoreTypeOK /\ last \in Nat \ {0} /\ OpenRounds = {last}
  BY PublicationFacts, HeightFacts DEF PublicationInv
<1>1. CASE last = 1
  BY <1>1 DEF LatestAcceptedHeight
<1>2. CASE last # 1
  <2>1. last - 1 \in 1..last /\ last - 1 # last
    BY SMTT(30), <1>0, <1>2
  <2>2. rounds[last - 1].state = "closed"
    BY <1>0, <2>1 DEF OpenRounds, StoreTypeOK, RoundRows
  <2>3. rounds[last - 1].accepted_candidate \in Candidates
    BY <2>1, <2>2 DEF PublicationInv, HeightsInv, RoundsInv, RoundsMatchAcceptances
  <2> QED BY <1>2, <2>3, HeightsAssumption DEF LatestAcceptedHeight
<1> QED BY <1>1, <1>2

LEMMA ChainTypes ==
    ASSUME TypeOK, chain_height < MaxHeight
    PROVE  chain_height + 1 \in Heights
BY SMTT(30), RuntimeAssumption DEF TypeOK

LEMMA TaskStepTypes ==
    ASSUME TypeOK, NEW t \in TaskIds, TaskStep(t)
    PROVE  /\ phase' = phase /\ database_operational' \in BOOLEAN /\ fence' \in Heights \cup {0}
           /\ issuance' \in BOOLEAN /\ wire' \subseteq Candidates
           /\ UNCHANGED <<current_height, fetched, jobs, chain_height, in_chain, crashes>>
<1>0. t[1] \in Candidates
  BY TaskIdParts
<1>1. CASE \/ TakeSubmit(t) \/ TakeLookup(t) \/ SubmitDispatch(t) \/ SubmitRefused(t) \/ LookupDispatch(t)
           \/ LookupFails(t) \/ EndQuick(t) \/ EndRequeue(t) \/ EndExhausted(t) \/ RecoverLookup(t)
  BY <1>1 DEF TakeSubmit, TakeLookup, SubmitDispatch, SubmitRefused, LookupDispatch, LookupFails, EndQuick,
     EndRequeue, EndExhausted, RecoverLookup, publicationVars, daemonVars, TypeOK
<1>2. CASE TakeTerminal(t)
  BY <1>0, <1>2, ReleaseTypes DEF TakeTerminal, daemonVars, TypeOK
<1>3. ASSUME SubmitException(t) \/ \E class \in AttemptClasses : SubmitFinish(t, class)
      PROVE  /\ ReleaseByState(t[1], candidates'[t[1]].state) /\ KeepOnWire(t)
             /\ UNCHANGED <<phase, database_operational, chain_height, in_chain, crashes>>
  BY <1>3 DEF SubmitException, SubmitFinish
<1>4. ASSUME NEW class \in LookupClasses, LookupFinish(t, class)
      PROVE  /\ ReleaseByState(t[1], candidates'[t[1]].state) \/ UNCHANGED publicationVars
             /\ UNCHANGED <<phase, database_operational, chain_height, in_chain, wire, crashes>>
  BY <1>4 DEF LookupFinish, daemonVars
<1>5. CASE SubmitException(t) \/ \E class \in AttemptClasses : SubmitFinish(t, class)
  <2>1. wire' \subseteq Candidates
    BY <1>0, <1>3, <1>5 DEF KeepOnWire, TypeOK
  <2> QED BY <1>0, <1>3, <1>5, <2>1, ReleaseTypes DEF TypeOK
<1>6. CASE \E class \in LookupClasses : LookupFinish(t, class)
  BY <1>0, <1>4, <1>6, ReleaseTypes DEF publicationVars, TypeOK
<1> QED BY <1>1, <1>2, <1>5, <1>6 DEF TaskStep

LEMMA TypesNext ==
    ASSUME TrackInv, [Next]_vars, PublicationInv'
    PROVE  TypeOK'
<1>0. TypeOK
  BY DEF TrackInv
<1>1. StoreTypeOK' /\ boundary' \subseteq Candidates /\ tasks' \in [TaskIds -> TaskRows]
  BY DEF PublicationInv, RuntimeInv, BoundaryIsUnresolved, UnresolvedCandidates, TasksTypeOK
<1>2. CASE UNCHANGED vars
  BY <1>0, <1>1, <1>2 DEF vars, processVars, daemonVars, TypeOK
<1>3. CASE FetchTemplate \/ PublishTemplate \/ HoldTemplate \/ IssueJob \/ StartWorkers
  BY <1>0, <1>1, <1>3
  DEF FetchTemplate, PublishTemplate, HoldTemplate, IssueJob, StartWorkers, publicationVars, daemonVars, TypeOK
<1>4. ASSUME NEW h \in Heights, NEW c \in Candidates \cup {NoCandidate}, ProcessShare(h, c) PROVE TypeOK'
  BY <1>0, <1>1, <1>4 DEF ProcessShare, processVars, daemonVars, TypeOK
<1>5. ASSUME NEW c \in Candidates, JournalExisting(c) \/ \E r \in 1..last_round_id : Journal(c, r)
      PROVE  TypeOK'
  <2>1. /\ UNCHANGED <<phase, database_operational, fence, current_height, fetched, jobs, daemonVars, crashes>>
        /\ RegisterBoundary(c)
    BY <1>5 DEF JournalExisting, Journal
  <2>2. issuance' \in BOOLEAN
    BY <2>1 DEF RegisterBoundary
  <2> QED BY <1>0, <1>1, <2>1, <2>2 DEF daemonVars, TypeOK
<1>6. ASSUME NEW t \in TaskIds, TaskStep(t) PROVE TypeOK'
  BY <1>0, <1>1, <1>6, TaskStepTypes DEF TypeOK
<1>7. ASSUME \/ ChainGrows
             \/ \E t \in TaskIds : DaemonHandles(t)
             \/ \E c \in Candidates : DaemonHandlesLate(c)
      PROVE TypeOK'
  <2>1. UNCHANGED <<phase, database_operational, publicationVars, crashes>> /\ wire' \subseteq wire
    BY <1>7 DEF ChainGrows, DaemonHandles, DaemonHandlesLate, processVars, publicationVars
  <2>2. \/ UNCHANGED <<chain_height, in_chain>>
        \/ /\ chain_height < MaxHeight /\ chain_height' = chain_height + 1
           /\ in_chain' = in_chain \/ \E c \in Candidates : in_chain' = in_chain \cup {c}
    BY <1>7, TaskIdParts DEF ChainGrows, DaemonHandles, DaemonHandlesLate, DaemonAccepts
  <2>3. chain_height' \in Heights /\ in_chain' \subseteq Candidates
    BY <1>0, <2>2, ChainTypes DEF TypeOK
  <2> QED BY <1>0, <1>1, <2>1, <2>3 DEF publicationVars, TypeOK
<1>8. CASE Restart
  <2>1. /\ phase' = "recovering" /\ database_operational' = TRUE /\ fence' = LatestAcceptedHeight
        /\ issuance' = (LatestAcceptedHeight = 0) /\ current_height' = 0 /\ fetched' = 0 /\ jobs' = {}
        /\ UNCHANGED <<chain_height, in_chain>>
    BY <1>8 DEF Restart
  <2>2. wire' \subseteq Candidates
    BY <1>0, <1>8, TaskIdParts DEF Restart, TypeOK
  <2>3. crashes' \in 0..MaxCrashes
    BY SMTT(30), <1>0, <1>8, RuntimeAssumption DEF Restart, TypeOK
  <2>4. fence' \in Heights \cup {0}
    BY <2>1, LatestHeightType DEF TrackInv
  <2> QED BY <1>0, <1>1, <2>1, <2>2, <2>3, <2>4 DEF TypeOK
<1> QED BY <1>2, <1>3, <1>4, <1>5, <1>6, <1>7, <1>8 DEF Next

LEMMA TrackStep == TrackInv /\ [Next]_vars => TrackInv'
<1> SUFFICES ASSUME TrackInv, [Next]_vars PROVE TrackInv'
  OBVIOUS
<1>1. PublicationInv'
  BY PublicationStep DEF TrackInv
<1>2. StoreTypeOK' /\ TasksTypeOK'
  BY <1>1 DEF PublicationInv, RuntimeInv
<1> QED BY <1>1, <1>2, TrackedStep, TypesNext DEF TrackInv

LEMMA TrackedIsEnough == TrackInv => CandidatesAreTracked
<1> SUFFICES ASSUME TrackInv PROVE CandidatesAreTracked
  OBVIOUS
<1>1. TypeOK /\ BoundaryIsUnresolved
  BY DEF TrackInv, PublicationInv, RuntimeInv
<1>2. UnresolvedIsOwned
  <2>1. ASSUME NEW c \in UnresolvedCandidates, database_operational
        PROVE  candidates[c].exhausted \/ tasks[Owner(c)].pc # "none"
    BY <2>1 DEF UnresolvedCandidates, TrackInv, Tracked, OwnerInv
  <2>2. ASSUME NEW t \in TaskIds, tasks[t].pc = "queued", ~tasks[t].reconciliation_only
        PROVE  candidates[t[1]].state # "ambiguous"
    <3>1. t = Owner(t[1]) /\ t[1] \in Candidates /\ OwnerInv(t[1])
      BY <2>2, TaskFacts
    <3>2. OwnerMode(tasks[t], candidates[t[1]].state)
      BY <3>1 DEF OwnerInv
    <3> QED BY <2>2, <3>2 DEF OwnerMode, Unresolved
  <2> QED BY <2>1, <2>2 DEF UnresolvedIsOwned
<1>3. LookupRowsAreFree
  <2> SUFFICES ASSUME NEW t \in TaskIds, AtBarrier(t), t[1] \in UnresolvedCandidates
               PROVE  CanStartReconciliation(t[1], LookupRow(t))
    BY DEF LookupRowsAreFree
  <2> DEFINE l == LookupRow(t)
  <2>1. t[1] \in Candidates /\ l \in Lookups
    BY TaskIdParts, LookupRowType, PublicationFacts DEF TrackInv
  <2>2. l[1] = MaxCycle \/ reconciliations[t[1]][l] = "none"
    BY DEF AtBarrier, TrackInv, Tracked, CyclesInv, RowsAhead, BeforeHash, BeforeHeight, IsFree, Upcoming, LookupRow
  <2>3. ASSUME reconciliations[t[1]][l] = "querying" PROVE FALSE
    <3>1. PICK u \in TaskIds : u[1] = t[1] /\ tasks[u].pc \in Asking
      BY SMTT(30), <2>1, <2>3 DEF TrackInv, Tracked, CyclesInv, QueriesAreAsked
    <3>2. u = t
      BY <3>1 DEF AtBarrier, Lookup, Asking, TrackInv, Tracked, OneLookup
    <3> QED BY <3>1, <3>2 DEF AtBarrier, Asking
  <2>4. candidates[t[1]].state \in Unresolved
    BY DEF UnresolvedCandidates
  <2> QED BY <2>2, <2>3, <2>4 DEF CanStartReconciliation
<1> QED BY <1>1, <1>2, <1>3 DEF CandidatesAreTracked

\* The invariant under which candidate_loop, reconcile_candidate and start() hand a candidate on.
THEOREM TrackingCorrect == Spec => []TrackInv
BY TrackInit, TrackStep, PTL DEF Spec

\* No path of candidate_loop, reconcile_candidate or start() loses the owner of an unresolved
\* candidate, submits an ambiguous one or asks for a lookup row that is taken, for any number of
\* candidates, attempts and crashes; the boundary is what the database has unresolved.
THEOREM CandidatesAreTrackedAlways == Spec => []CandidatesAreTracked
BY TrackingCorrect, TrackedIsEnough, PTL

===============================================================================
