---------------------------- MODULE ServicesProofs ----------------------------
(***************************************************************************)
(* Proofs about the services around the database: the writer queue, the    *)
(* events and their readers, the notification hook, the generator of       *)
(* random numbers, the bans.                                               *)
(***************************************************************************)
EXTENDS ServicesInv, FiniteSetTheorems, TLAPS

\* Leaves that need arithmetic or extensionality name SMT; the others are for Zenon.
USE ZenonT(30), SMTT(30)

-----------------------------------------------------------------------------
\* A caller that joins a queue is its last element and no other.
LEMMA AppendFacts ==
    ASSUME NEW S, NEW q \in Seq(S), NEW x \in S, IsInjective(q), x \notin Range(q)
    PROVE  /\ Append(q, x) \in Seq(S)
           /\ Range(Append(q, x)) = Range(q) \cup {x}
           /\ IsInjective(Append(q, x))
           /\ Len(Append(q, x)) = Len(q) + 1
<1> DEFINE a == Append(q, x)
<1>1. a \in Seq(S) /\ Len(a) = Len(q) + 1 /\ a[Len(q) + 1] = x /\ \A i \in 1..Len(q) : a[i] = q[i]
  BY SMTT(30)
<1>2. DOMAIN a = 1..(Len(q) + 1) /\ DOMAIN q = 1..Len(q) /\ Len(q) \in Nat
  BY SMTT(30), <1>1
<1>3. Range(a) = Range(q) \cup {x}
  <2>1. ASSUME NEW y \in Range(a) PROVE y \in Range(q) \cup {x}
    <3>1. PICK i \in 1..(Len(q) + 1) : y = a[i]
      BY <1>2, <2>1 DEF Range
    <3>2. CASE i = Len(q) + 1
      BY <3>1, <3>2, <1>1
    <3>3. CASE i \in 1..Len(q)
      BY <3>1, <3>3, <1>1, <1>2 DEF Range
    <3> QED BY SMTT(30), <3>2, <3>3, <1>2
  <2>2. ASSUME NEW y \in Range(q) PROVE y \in Range(a)
    <3>1. PICK i \in 1..Len(q) : y = q[i]
      BY <1>2, <2>2 DEF Range
    <3>2. i \in DOMAIN a /\ a[i] = y
      BY SMTT(30), <3>1, <1>1, <1>2
    <3> QED BY <3>2 DEF Range
  <2>3. x \in Range(a)
    <3>1. Len(q) + 1 \in DOMAIN a /\ a[Len(q) + 1] = x
      BY SMTT(30), <1>1, <1>2
    <3> QED BY <3>1 DEF Range
  <2> QED BY <2>1, <2>2, <2>3
<1>4. IsInjective(a)
  <2> SUFFICES ASSUME NEW i \in DOMAIN a, NEW j \in DOMAIN a, a[i] = a[j] PROVE i = j
    BY DEF IsInjective
  <2>1. \A k \in 1..Len(q) : q[k] \in Range(q)
    BY <1>2 DEF Range
  <2>2. CASE i \in 1..Len(q) /\ j \in 1..Len(q)
    BY <2>2, <1>1, <1>2 DEF IsInjective
  <2>3. CASE i = Len(q) + 1 \/ j = Len(q) + 1
    BY SMTT(30), <2>1, <2>3, <1>1, <1>2
  <2> QED BY SMTT(30), <2>2, <2>3, <1>2
<1> QED BY <1>1, <1>3, <1>4

\* The caller at the head leaves and the others stay.
LEMMA TailFacts ==
    ASSUME NEW S, NEW q \in Seq(S), q # <<>>, IsInjective(q)
    PROVE  /\ Tail(q) \in Seq(S)
           /\ Range(Tail(q)) = Range(q) \ {Head(q)}
           /\ IsInjective(Tail(q))
           /\ Len(Tail(q)) = Len(q) - 1
<1> DEFINE t == Tail(q)
<1>1. t \in Seq(S) /\ Len(t) = Len(q) - 1 /\ Head(q) = q[1] /\ \A i \in 1..Len(t) : t[i] = q[i + 1]
  BY SMTT(30)
<1>2. DOMAIN t = 1..Len(t) /\ DOMAIN q = 1..Len(q) /\ Len(q) \in Nat /\ Len(q) >= 1
  BY SMTT(30), <1>1
<1>3. Range(t) = Range(q) \ {Head(q)}
  <2>1. ASSUME NEW y \in Range(t) PROVE y \in Range(q) /\ y # Head(q)
    <3>1. PICK i \in 1..Len(t) : y = t[i]
      BY <1>2, <2>1 DEF Range
    <3>2. i + 1 \in DOMAIN q /\ 1 \in DOMAIN q /\ i + 1 # 1 /\ y = q[i + 1]
      BY SMTT(30), <3>1, <1>1, <1>2
    <3> QED BY <3>2, <1>1 DEF Range, IsInjective
  <2>2. ASSUME NEW y \in Range(q), y # Head(q) PROVE y \in Range(t)
    <3>1. PICK i \in 1..Len(q) : y = q[i]
      BY <1>2, <2>2 DEF Range
    <3>2. i - 1 \in DOMAIN t /\ t[i - 1] = y
      BY SMTT(30), <3>1, <2>2, <1>1, <1>2
    <3> QED BY <3>2 DEF Range
  <2> QED BY <2>1, <2>2
<1>4. IsInjective(t)
  <2> SUFFICES ASSUME NEW i \in DOMAIN t, NEW j \in DOMAIN t, t[i] = t[j] PROVE i = j
    BY DEF IsInjective
  <2>1. i + 1 \in DOMAIN q /\ j + 1 \in DOMAIN q /\ q[i + 1] = q[j + 1]
    BY SMTT(30), <1>1, <1>2
  <2>2. i + 1 = j + 1
    BY <2>1 DEF IsInjective
  <2> QED BY SMTT(30), <2>2, <1>1, <1>2
<1> QED BY <1>1, <1>3, <1>4

\* A notification changes where sleepers stand and nothing else.
LEMMA AwokenFacts ==
    ASSUME SchedulerTypeOK, NEW p \in Callers
    PROVE  /\ Awoken(callers)[p] \in CallerStates \ {"asleep", "crowded"}
           /\ Awoken(callers)[p] = "running" <=> callers[p] = "running"
           /\ Awoken(callers)[p] \in {"queued", "asleep"} <=> callers[p] \in {"queued", "asleep"}
<1>1. callers[p] \in CallerStates
  BY DEF SchedulerTypeOK
<1>2. Awoken(callers)[p] = CASE callers[p] = "crowded" -> "arriving"
                             [] callers[p] = "asleep" -> "queued"
                             [] OTHER -> callers[p]
  BY DEF Awoken
<1> QED BY <1>1, <1>2 DEF CallerStates

\* Smaller products of naturals.
LEMMA ProductMonotone ==
    ASSUME NEW a \in Nat, NEW b \in Nat, NEW e \in Nat, a <= b
    PROVE  a * e <= b * e
<1>1. b * e = a * e + (b - a) * e
  BY SMTT(30)
<1>2. (b - a) * e >= 0
  BY SMTT(30)
<1> QED BY SMTT(30), <1>1, <1>2

-----------------------------------------------------------------------------
LEMMA SchedulerInitially == SchedulerInit => SchedulerInv
<1> SUFFICES ASSUME SchedulerInit PROVE SchedulerInv
  OBVIOUS
<1>1. SchedulerTypeOK
  <2>1. callers \in [Callers -> CallerStates]
    BY DEF SchedulerInit, CallerStates
  <2>2. priority_ \in Seq(Priority) /\ ordinary_ \in Seq(Callers \ Priority)
    BY SMTT(30) DEF SchedulerInit
  <2> QED BY <2>1, <2>2 DEF SchedulerInit, SchedulerTypeOK
<1>2. Range(<<>>) = {} /\ IsInjective(<<>>)
  BY SMTT(30) DEF Range, IsInjective
<1>3. OneWriterAtATime
  BY <1>2 DEF SchedulerInit, OneWriterAtATime
<1>4. OrdinaryFits
  BY SMTT(30), SchedulerAssumption DEF SchedulerInit, OrdinaryFits
<1>5. NoTurnIsLost
  BY DEF SchedulerInit, NoTurnIsLost
<1> QED BY <1>1, <1>3, <1>4, <1>5 DEF SchedulerInv

\* A step that moves one caller between states outside the queues, and wakes nobody.
LEMMA OutsideStep ==
    ASSUME SchedulerInv, NEW p \in Callers, NEW s \in {"arriving", "crowded"},
           callers[p] \in {"idle", "arriving"},
           callers' = [callers EXCEPT ![p] = s], UNCHANGED <<priority_, ordinary_, running_>>
    PROVE  SchedulerTypeOK' /\ OneWriterAtATime' /\ OrdinaryFits'
<1> USE DEF SchedulerInv, SchedulerTypeOK
<1>1. \A q \in Callers : callers'[q] = IF q = p THEN s ELSE callers[q]
  OBVIOUS
<1>2. SchedulerTypeOK'
  BY DEF CallerStates
<1>3. OneWriterAtATime'
  BY <1>1 DEF OneWriterAtATime
<1>4. OrdinaryFits'
  BY DEF OrdinaryFits
<1> QED BY <1>2, <1>3, <1>4

LEMMA AdmitStep ==
    ASSUME SchedulerInv, NEW p \in Callers, Admit(p)
    PROVE  SchedulerTypeOK' /\ OneWriterAtATime' /\ OrdinaryFits'
<1> USE DEF SchedulerInv
<1>1. \A q \in Callers : callers'[q] = IF q = p THEN "queued" ELSE Awoken(callers)[q]
  BY DEF Admit, Awoken
<1>2. callers' \in [Callers -> CallerStates]
  BY AwokenFacts DEF Admit, Awoken, CallerStates, SchedulerTypeOK
<1>3. \A q \in Callers : /\ callers'[q] = "running" <=> callers[q] = "running"
                         /\ callers'[q] \in {"queued", "asleep"} <=>
                                q = p \/ callers[q] \in {"queued", "asleep"}
  BY SMTT(30), <1>1, AwokenFacts DEF Admit
<1>4. p \notin Range(priority_) /\ p \notin Range(ordinary_)
  BY DEF Admit, OneWriterAtATime
<1>5. running_' = running_
  BY DEF Admit
<1>6. CASE p \in Priority
  <2>1. priority_' = Append(priority_, p) /\ ordinary_' = ordinary_
    BY <1>6 DEF Admit
  <2>2. /\ priority_' \in Seq(Priority)
        /\ Range(priority_') = Range(priority_) \cup {p}
        /\ IsInjective(priority_')
    BY SMTT(30), <1>4, <1>6, <2>1, AppendFacts DEF SchedulerTypeOK, OneWriterAtATime
  <2>3. SchedulerTypeOK'
    BY <1>2, <1>5, <2>1, <2>2 DEF SchedulerTypeOK
  <2>4. OneWriterAtATime'
    BY <1>3, <1>5, <1>6, <2>1, <2>2 DEF OneWriterAtATime
  <2>5. OrdinaryFits'
    BY <2>1 DEF OrdinaryFits
  <2> QED BY <2>3, <2>4, <2>5
<1>7. CASE p \notin Priority
  <2>1. ordinary_' = Append(ordinary_, p) /\ priority_' = priority_
    BY <1>7 DEF Admit
  <2>2. /\ ordinary_' \in Seq(Callers \ Priority)
        /\ Range(ordinary_') = Range(ordinary_) \cup {p}
        /\ IsInjective(ordinary_')
        /\ Len(ordinary_') = Len(ordinary_) + 1
    BY SMTT(30), <1>4, <1>7, <2>1, AppendFacts DEF SchedulerTypeOK, OneWriterAtATime
  <2>3. SchedulerTypeOK'
    BY <1>2, <1>5, <2>1, <2>2 DEF SchedulerTypeOK
  <2>4. OneWriterAtATime'
    BY <1>3, <1>5, <1>7, <2>1, <2>2 DEF OneWriterAtATime
  <2>5. OrdinaryFits'
    <3>1. HasCapacity(p)
      BY DEF Admit
    <3>2. Len(ordinary_) \in Nat
      BY SMTT(30) DEF SchedulerTypeOK
    <3>3. (Len(ordinary_) + 1) * EnvelopeBytes = Len(ordinary_) * EnvelopeBytes + EnvelopeBytes
      BY SMTT(30), <3>2, SchedulerAssumption
    <3> QED BY SMTT(30), <1>7, <2>2, <3>1, <3>2, <3>3, SchedulerAssumption DEF HasCapacity, OrdinaryFits
  <2> QED BY <2>3, <2>4, <2>5
<1> QED BY <1>6, <1>7

LEMMA TakeTurnStep ==
    ASSUME SchedulerInv, NEW p \in Callers, TakeTurn(p)
    PROVE  SchedulerTypeOK' /\ OneWriterAtATime' /\ OrdinaryFits'
<1> USE DEF SchedulerInv
<1>1. \A q \in Callers : callers'[q] = IF q = p THEN "running" ELSE Awoken(callers)[q]
  BY DEF TakeTurn, WokenByGrant, Awoken
<1>2. callers' \in [Callers -> CallerStates]
  BY AwokenFacts DEF TakeTurn, WokenByGrant, Awoken, CallerStates, SchedulerTypeOK
<1>3. \A q \in Callers : callers[q] # "running"
  BY DEF TakeTurn, MyTurn, OneWriterAtATime
<1>4. \A q \in Callers : /\ callers'[q] = "running" <=> q = p
                         /\ callers'[q] \in {"queued", "asleep"} <=>
                                q # p /\ callers[q] \in {"queued", "asleep"}
  BY <1>1, <1>3, AwokenFacts
<1>5. running_' = TRUE
  BY DEF TakeTurn
<1>6. Range(priority_) \subseteq Priority /\ Range(ordinary_) \subseteq Callers \ Priority
  BY SMTT(30) DEF SchedulerTypeOK, Range
<1>7. CASE p \in Priority
  <2>1. priority_ # <<>> /\ Head(priority_) = p /\ priority_' = Tail(priority_) /\ ordinary_' = ordinary_
    BY <1>7 DEF TakeTurn, MyTurn
  <2>2. /\ priority_' \in Seq(Priority)
        /\ Range(priority_') = Range(priority_) \ {p}
        /\ IsInjective(priority_')
    BY <2>1, TailFacts DEF SchedulerTypeOK, OneWriterAtATime
  <2>3. SchedulerTypeOK'
    BY <1>2, <1>5, <2>1, <2>2 DEF SchedulerTypeOK
  <2>4. OneWriterAtATime'
    BY <1>4, <1>5, <1>7, <1>6, <2>1, <2>2 DEF OneWriterAtATime
  <2>5. OrdinaryFits'
    BY <2>1 DEF OrdinaryFits
  <2> QED BY <2>3, <2>4, <2>5
<1>8. CASE p \notin Priority
  <2>1. ordinary_ # <<>> /\ Head(ordinary_) = p /\ ordinary_' = Tail(ordinary_) /\ priority_' = priority_
    BY <1>8 DEF TakeTurn, MyTurn
  <2>2. /\ ordinary_' \in Seq(Callers \ Priority)
        /\ Range(ordinary_') = Range(ordinary_) \ {p}
        /\ IsInjective(ordinary_')
        /\ Len(ordinary_') = Len(ordinary_) - 1
    BY <2>1, TailFacts DEF SchedulerTypeOK, OneWriterAtATime
  <2>3. SchedulerTypeOK'
    BY <1>2, <1>5, <2>1, <2>2 DEF SchedulerTypeOK
  <2>4. OneWriterAtATime'
    BY <1>4, <1>5, <1>8, <1>6, <2>1, <2>2 DEF OneWriterAtATime
  <2>5. OrdinaryFits'
    <3>1. Len(ordinary_) \in Nat /\ Len(ordinary_') \in Nat
      BY SMTT(30), <2>2 DEF SchedulerTypeOK
    <3>2. Len(ordinary_') * EnvelopeBytes <= Len(ordinary_) * EnvelopeBytes
      BY SMTT(30), <2>2, <3>1, SchedulerAssumption, ProductMonotone
    <3>3. Len(ordinary_') * EnvelopeBytes \in Nat /\ Len(ordinary_) * EnvelopeBytes \in Nat
      BY SMTT(30), <3>1, SchedulerAssumption
    <3>4. ReservedItems * EnvelopeBytes \in Nat
      BY SMTT(30), SchedulerAssumption
    <3> QED BY SMTT(30), <2>2, <3>1, <3>2, <3>3, <3>4, SchedulerAssumption DEF OrdinaryFits
  <2> QED BY <2>3, <2>4, <2>5
<1> QED BY <1>7, <1>8

\* A step that wakes nobody keeps NoTurnIsLost if the queues and the turn stay as they
\* are, or a notification falls due; one that wakes all keeps it anyway.
LEMMA NobodySleeps ==
    ASSUME \A q \in Callers : callers'[q] \notin {"asleep", "crowded"}
    PROVE  NoTurnIsLost'
BY DEF NoTurnIsLost

LEMMA QueueStep ==
    ASSUME SchedulerInv, NEW p \in Callers,
           Arrive(p) \/ Schedule(p) \/ Unlock(p)
    PROVE  SchedulerInv'
<1>1. CASE Arrive(p)
  <2>1. SchedulerTypeOK' /\ OneWriterAtATime' /\ OrdinaryFits'
    BY <1>1, OutsideStep DEF Arrive
  <2>2. \A q \in Callers : callers'[q] = IF q = p THEN "arriving" ELSE callers[q]
    BY <1>1 DEF Arrive, SchedulerInv, SchedulerTypeOK
  <2>3. NoTurnIsLost'
    BY SMTT(30), <1>1, <2>2 DEF Arrive, SchedulerInv, NoTurnIsLost, MyTurn, HasCapacity, QueuedItems
  <2> QED BY <2>1, <2>3 DEF SchedulerInv
<1>2. CASE Admit(p)
  <2>1. NoTurnIsLost'
    <3>1. \A q \in Callers : callers'[q] = IF q = p THEN "queued" ELSE Awoken(callers)[q]
      BY <1>2 DEF Admit, Awoken
    <3> QED BY <3>1, AwokenFacts, NobodySleeps DEF SchedulerInv
  <2> QED BY <1>2, <2>1, AdmitStep DEF SchedulerInv
<1>3. CASE AwaitRoom(p)
  <2>1. SchedulerTypeOK' /\ OneWriterAtATime' /\ OrdinaryFits'
    BY <1>3, OutsideStep DEF AwaitRoom
  <2>2. \A q \in Callers : callers'[q] = IF q = p THEN "crowded" ELSE callers[q]
    BY <1>3 DEF AwaitRoom, SchedulerInv, SchedulerTypeOK
  <2>3. \A q \in Callers : (HasCapacity(q)' <=> HasCapacity(q)) /\ (MyTurn(q)' <=> MyTurn(q))
    BY <1>3 DEF AwaitRoom, HasCapacity, MyTurn, QueuedItems
  <2>4. callers[p] = "arriving" /\ ~HasCapacity(p)
    BY <1>3 DEF AwaitRoom
  <2>5. NoTurnIsLost'
    BY <2>2, <2>3, <2>4 DEF SchedulerInv, NoTurnIsLost
  <2> QED BY <2>1, <2>5 DEF SchedulerInv
<1>4. CASE TakeTurn(p)
  <2>1. NoTurnIsLost'
    <3>1. \A q \in Callers : callers'[q] = IF q = p THEN "running" ELSE Awoken(callers)[q]
      BY <1>4 DEF TakeTurn, WokenByGrant, Awoken
    <3> QED BY <3>1, AwokenFacts, NobodySleeps DEF SchedulerInv
  <2> QED BY <1>4, <2>1, TakeTurnStep DEF SchedulerInv
<1>5. CASE AwaitTurn(p)
  <2>1. \A q \in Callers : callers'[q] = IF q = p THEN "asleep" ELSE callers[q]
    BY <1>5 DEF AwaitTurn, SchedulerInv, SchedulerTypeOK
  <2>2. callers[p] = "queued" /\ ~MyTurn(p) /\ UNCHANGED <<priority_, ordinary_, running_>>
    BY <1>5 DEF AwaitTurn
  <2>3. SchedulerTypeOK'
    BY <1>5, <2>2 DEF AwaitTurn, SchedulerInv, SchedulerTypeOK, CallerStates
  <2>4. OneWriterAtATime'
    BY <2>1, <2>2 DEF SchedulerInv, OneWriterAtATime
  <2>5. OrdinaryFits'
    BY <2>2 DEF SchedulerInv, OrdinaryFits
  <2>6. \A q \in Callers : (HasCapacity(q)' <=> HasCapacity(q)) /\ (MyTurn(q)' <=> MyTurn(q))
    BY <2>2 DEF HasCapacity, MyTurn, QueuedItems
  <2>7. NoTurnIsLost'
    BY <2>1, <2>2, <2>6 DEF SchedulerInv, NoTurnIsLost
  <2> QED BY <2>3, <2>4, <2>5, <2>7 DEF SchedulerInv
<1>6. CASE NotifyUnlocked(p)
  <2>1. \A q \in Callers : callers'[q] = IF q = p THEN "idle" ELSE Awoken(callers)[q]
    BY <1>6 DEF NotifyUnlocked, Awoken
  <2>2. callers[p] = "released" /\ UNCHANGED <<priority_, ordinary_, running_>>
    BY <1>6 DEF NotifyUnlocked
  <2>3. SchedulerTypeOK'
    BY <1>6, <2>2, AwokenFacts
       DEF NotifyUnlocked, Awoken, SchedulerInv, SchedulerTypeOK, CallerStates
  <2>4. \A q \in Callers : /\ callers'[q] = "running" <=> callers[q] = "running"
                           /\ callers'[q] \in {"queued", "asleep"} <=> callers[q] \in {"queued", "asleep"}
    BY <2>1, <2>2, AwokenFacts DEF SchedulerInv
  <2>5. OneWriterAtATime'
    BY <2>2, <2>4 DEF SchedulerInv, OneWriterAtATime
  <2>6. OrdinaryFits'
    BY <2>2 DEF SchedulerInv, OrdinaryFits
  <2>7. NoTurnIsLost'
    BY <2>1, AwokenFacts, NobodySleeps DEF SchedulerInv
  <2> QED BY <2>3, <2>5, <2>6, <2>7 DEF SchedulerInv
<1>7. CASE Unlock(p)
  <2>1. \A q \in Callers : callers'[q] = IF q = p THEN "released" ELSE callers[q]
    BY <1>7 DEF Unlock, SchedulerInv, SchedulerTypeOK
  <2>2. callers[p] = "running" /\ running_' = FALSE /\ UNCHANGED <<priority_, ordinary_>>
    BY <1>7 DEF Unlock
  <2>3. SchedulerTypeOK'
    BY <1>7, <2>2 DEF Unlock, SchedulerInv, SchedulerTypeOK, CallerStates
  <2>4. OneWriterAtATime'
    BY <2>1, <2>2 DEF SchedulerInv, OneWriterAtATime
  <2>5. OrdinaryFits'
    BY <2>2 DEF SchedulerInv, OrdinaryFits
  <2>6. NoTurnIsLost'
    BY <2>1 DEF NoTurnIsLost
  <2> QED BY <2>3, <2>4, <2>5, <2>6 DEF SchedulerInv
<1> QED BY <1>1, <1>2, <1>3, <1>4, <1>5, <1>6, <1>7 DEF Schedule

LEMMA SchedulerStutter == ASSUME SchedulerInv, UNCHANGED schedulerVars PROVE SchedulerInv'
BY DEF SchedulerInv, SchedulerTypeOK, OneWriterAtATime, OrdinaryFits, NoTurnIsLost, MyTurn, HasCapacity,
       QueuedItems, schedulerVars

\* What the ordinary queue may hold leaves the reserve free.
LEMMA ReserveFollows == SchedulerInv => ReserveIsKept
<1> SUFFICES ASSUME SchedulerInv, NEW p \in Priority, ~HasCapacity(p), Len(priority_) < ReservedItems
             PROVE  FALSE
  BY SMTT(30), SchedulerAssumption DEF ReserveIsKept, SchedulerInv, SchedulerTypeOK
<1> DEFINE o == Len(ordinary_)
           r == Len(priority_)
<1>1. o \in Nat /\ r \in Nat /\ r <= ReservedItems - 1
  BY SMTT(30), SchedulerAssumption DEF SchedulerInv, SchedulerTypeOK
<1>2. o <= MaxItems - ReservedItems /\ o * EnvelopeBytes <= MaxBytes - ReservedItems * EnvelopeBytes
  BY DEF SchedulerInv, OrdinaryFits
<1>3. QueuedItems = r + o /\ QueuedItems < MaxItems
  BY SMTT(30), <1>1, <1>2, SchedulerAssumption DEF QueuedItems
<1>4. QueuedItems * EnvelopeBytes > MaxBytes - EnvelopeBytes
  BY SMTT(30), <1>1, <1>3, SchedulerAssumption DEF HasCapacity
<1>5. r * EnvelopeBytes <= (ReservedItems - 1) * EnvelopeBytes
  BY SMTT(30), <1>1, SchedulerAssumption, ProductMonotone
<1>6. /\ (r + o) * EnvelopeBytes = r * EnvelopeBytes + o * EnvelopeBytes
      /\ (ReservedItems - 1) * EnvelopeBytes = ReservedItems * EnvelopeBytes - EnvelopeBytes
  BY SMTT(30), <1>1, SchedulerAssumption
<1> QED BY SMTT(30), <1>1, <1>2, <1>3, <1>4, <1>5, <1>6, SchedulerAssumption

\* For every number of callers of either kind and all limits the constructor takes: one
\* writer at a time, no wake-up of the shared condition variable is lost, and ordinary
\* callers never use the places kept for the candidate journal.
THEOREM WriterQueueCorrect == SchedulerSpec => []WriterQueueIsSound
<1>1. SchedulerInv /\ [SchedulerNext]_schedulerVars => SchedulerInv'
  BY QueueStep, SchedulerStutter DEF SchedulerNext
<1>2. SchedulerInv => WriterQueueIsSound
  BY ReserveFollows DEF SchedulerInv, WriterQueueIsSound
<1> QED BY SchedulerInitially, <1>1, <1>2, PTL DEF SchedulerSpec

-----------------------------------------------------------------------------
(***************************************************************************)
(* The event feed: neither the stream nor the pages miss an event.         *)
(*                                                                         *)
(* At most one transaction holds an id that is not committed, so the table *)
(* has all ids up to Top.  What is loaded, published, queued for a client  *)
(* and paged by it are then runs of consecutive ids, each going on where   *)
(* the one before ends.                                                    *)
(***************************************************************************)

\* The k-th of the numbers after a up to t.
LEMMA KthRow ==
    ASSUME NEW a \in Nat, NEW t \in Nat, a <= t
    PROVE  /\ Cardinality((a + 1)..t) = t - a
           /\ \A k \in 1..(t - a) : NthRow((a + 1)..t, k) = a + k
<1>. DEFINE found == (a + 1)..t
<1>1. Cardinality(found) = t - a
  <2>1. Cardinality(found) = IF a + 1 > t THEN 0 ELSE t - (a + 1) + 1  BY SMTT(30), FS_Interval
  <2>. QED  BY SMTT(30), <2>1
<1>2. ASSUME NEW i \in found PROVE Cardinality({j \in found : j <= i}) = i - a
  <2>1. {j \in found : j <= i} = (a + 1)..i  BY SMTT(30)
  <2>2. i \in Int /\ a + 1 <= i  BY SMTT(30)
  <2>3. Cardinality((a + 1)..i) = IF a + 1 > i THEN 0 ELSE i - (a + 1) + 1  BY SMTT(30), <2>2, FS_Interval
  <2>4. Cardinality((a + 1)..i) = i - a  BY SMTT(30), <2>2, <2>3
  <2>. HIDE DEF found
  <2>. QED  BY <2>1, <2>4
<1>3. ASSUME NEW k \in 1..(t - a) PROVE NthRow(found, k) = a + k
  <2>1. a + k \in found /\ (a + k) - a = k  BY SMTT(30)
  <2>2. \A i \in found : i - a = k => i = a + k  BY SMTT(30)
  <2>. HIDE DEF found
  <2>3. Cardinality({j \in found : j <= a + k}) = k  BY <1>2, <2>1
  <2>4. NthRow(found, k) \in found /\ Cardinality({j \in found : j <= NthRow(found, k)}) = k
    BY <2>1, <2>3 DEF NthRow
  <2>5. NthRow(found, k) - a = k  BY <1>2, <2>4
  <2>. QED  BY <2>2, <2>4, <2>5
<1>. QED  BY <1>1, <1>3

LEMMA RowsFacts ==
    ASSUME NEW n \in Nat, NEW a \in Nat, NEW t \in Nat, a <= t, events.committed = 1..t
    PROVE  /\ FirstRows(n, a) \in Seq(Nat)
           /\ Len(FirstRows(n, a)) = IF t - a < n THEN t - a ELSE n
           /\ \A k \in 1..Len(FirstRows(n, a)) : FirstRows(n, a)[k] = a + k
<1>. DEFINE found == (a + 1)..t
<1>1. {i \in events.committed : i > a} = found  BY SMTT(30)
<1>. DEFINE m == IF t - a < n THEN t - a ELSE n
<1>2. m \in Nat /\ m <= t - a  BY SMTT(30)
<1>3. Cardinality(found) = t - a /\ \A k \in 1..(t - a) : NthRow(found, k) = a + k  BY KthRow
<1>4. \A k \in 1..m : k \in 1..(t - a)  BY SMTT(30), <1>2
<1>. HIDE DEF found
<1>5. FirstRows(n, a) = [k \in 1..m |-> NthRow(found, k)]
  <2>1. FirstRows(n, a) = LowestRows(found, n)  BY <1>1 DEF FirstRows
  <2>. QED  BY <1>3, <2>1 DEF LowestRows
<1>. HIDE DEF m
<1>6. FirstRows(n, a) = [k \in 1..m |-> a + k]  BY <1>3, <1>4, <1>5
<1>7. FirstRows(n, a) \in Seq(Nat) /\ Len(FirstRows(n, a)) = m
  <2>1. \A k \in 1..m : a + k \in Nat  BY SMTT(30)
  <2>. QED  BY SMTT(30), <1>2, <1>6, <2>1
<1>8. \A k \in 1..m : FirstRows(n, a)[k] = a + k  BY <1>6
<1>9. \A k \in 1..Len(FirstRows(n, a)) : FirstRows(n, a)[k] = a + k  BY <1>7, <1>8
<1>10. Len(FirstRows(n, a)) = IF t - a < n THEN t - a ELSE n
  <2>1. Len(FirstRows(n, a)) = m  BY <1>7
  <2>. QED  BY <2>1 DEF m
<1>. QED  BY <1>7, <1>9, <1>10

-----------------------------------------------------------------------------
\* The writers.
LEMMA TopFacts ==
    ASSUME FeedInv
    PROVE  /\ Top \in Nat
           /\ \A v, w \in Writers : writes[v].state = "inserted" /\ writes[w].state = "inserted" => v = w
<1>1. Top \in Nat
  <2>1. CASE Inserting  BY SMTT(30), <2>1 DEF FeedInv, TableAgrees, Top, Inserting
  <2>2. CASE ~Inserting  BY <2>2 DEF FeedInv, TableAgrees, Top
  <2>. QED  BY <2>1, <2>2
<1>2. \A v, w \in Writers : writes[v].state = "inserted" /\ writes[w].state = "inserted" => v = w
  BY SMTT(30) DEF FeedInv, TableAgrees, SchedulerInv, OneWriterAtATime, Writers
<1>. QED  BY <1>1, <1>2

\* Who has the turn keeps it until the caller unlocks.
LEMMA TurnIsKept ==
    ASSUME SchedulerInv, NEW p \in Callers, Arrive(p) \/ Schedule(p), NEW w \in Callers, callers[w] = "running"
    PROVE  callers'[w] = "running"
<1>1. Awoken(callers)[w] = "running"  BY AwokenFacts DEF SchedulerInv
<1>2. callers \in [Callers -> CallerStates]  BY DEF SchedulerInv, SchedulerTypeOK
<1>3. CASE Arrive(p)  BY <1>2, <1>3 DEF Arrive
<1>4. CASE Admit(p)  BY <1>1, <1>2, <1>4 DEF Admit, Awoken
<1>5. CASE AwaitRoom(p)  BY <1>2, <1>5 DEF AwaitRoom
<1>6. CASE TakeTurn(p)  BY <1>1, <1>2, <1>6 DEF TakeTurn, WokenByGrant, Awoken
<1>7. CASE AwaitTurn(p)  BY <1>2, <1>7 DEF AwaitTurn
<1>8. CASE NotifyUnlocked(p)  BY <1>1, <1>2, <1>8 DEF NotifyUnlocked, Awoken
<1>. QED  BY <1>3, <1>4, <1>5, <1>6, <1>7, <1>8 DEF Schedule

\* A step that leaves the table and the writers alone, and the turn of every writer.
LEMMA TableStutter ==
    ASSUME FeedInv, UNCHANGED <<events, writes>>,
           \A w \in Writers : callers[w] = "running" => callers'[w] = "running"
    PROVE  TableAgrees' /\ Top' = Top
<1>1. Top' = Top  BY DEF Top, Inserting
<1>2. TableAgrees'
  <2>1. events' = events /\ writes' = writes  OBVIOUS
  <2>2. TableAgrees  BY DEF FeedInv
  <2>. QED  BY <1>1, <2>1, <2>2 DEF TableAgrees
<1>. QED  BY <1>1, <1>2

LEMMA InsertKeepsTable ==
    ASSUME FeedInv, NEW w \in Writers, Insert(w)
    PROVE  TableAgrees' /\ Top' = Top
<1>1. TableAgrees /\ callers' = callers  BY DEF FeedInv, Insert, schedulerVars
<1>2. ASSUME NEW v \in Writers PROVE writes[v].state # "inserted"
  <2>1. w \in Callers /\ v \in Callers  BY DEF Writers
  <2>2. SUFFICES ASSUME writes[v].state = "inserted" PROVE FALSE  OBVIOUS
  <2>3. callers[v] = "running" /\ callers[w] = "running"  BY <1>1, <2>2 DEF TableAgrees, Insert
  <2>4. v = w  BY <2>1, <2>3 DEF FeedInv, SchedulerInv, OneWriterAtATime
  <2>. QED  BY <2>2, <2>4 DEF Insert
<1>3. Top = events.sequence  BY <1>2 DEF Top, Inserting
<1>. DEFINE new == [state |-> "inserted", id |-> events.sequence + 1]
<1>4. new.state = "inserted" /\ new.id = events.sequence + 1  OBVIOUS
<1>5. writes' = [writes EXCEPT ![w] = new]  BY DEF Insert
<1>6. new \in [state : {"new", "inserted", "ended"}, id : Nat]  BY SMTT(30), <1>1 DEF TableAgrees
<1>. HIDE DEF new
<1>7. writes' \in [Writers -> [state : {"new", "inserted", "ended"}, id : Nat]]
  BY <1>1, <1>5, <1>6 DEF TableAgrees
<1>8. writes'[w] = new /\ \A v \in Writers : v # w => writes'[v] = writes[v]
  BY <1>1, <1>5 DEF TableAgrees
<1>9. events'.sequence = events.sequence + 1 /\ events'.committed = events.committed
  <2>1. events' = [events EXCEPT !.sequence = events.sequence + 1]  BY DEF Insert
  <2>. QED  BY <1>1, <2>1 DEF TableAgrees
<1>10. Inserting'  BY <1>4, <1>8 DEF Inserting
<1>11. Top' = Top  BY SMTT(30), <1>1, <1>3, <1>9, <1>10 DEF Top, TableAgrees
<1>12. ASSUME NEW v \in Writers, writes'[v].state = "inserted"
       PROVE  callers'[v] = "running" /\ writes'[v].id = events'.sequence /\ events'.sequence >= 1
  <2>1. v = w  BY <1>2, <1>8, <1>12
  <2>. QED  BY SMTT(30), <1>1, <1>4, <1>8, <1>9, <2>1 DEF Insert, TableAgrees
<1>13. events' \in [committed : SUBSET Nat, sequence : Nat]  BY SMTT(30), <1>1 DEF TableAgrees, Insert
<1>. QED  BY <1>1, <1>7, <1>9, <1>11, <1>12, <1>13 DEF TableAgrees

\* Commit and Rollback: the one transaction that had an id ends.
LEMMA TransactionEnds ==
    ASSUME FeedInv, NEW w \in Writers, writes[w].state = "inserted",
           writes' = [writes EXCEPT ![w].state = "ended"]
    PROVE  /\ ~Inserting'
           /\ writes' \in [Writers -> [state : {"new", "inserted", "ended"}, id : Nat]]
           /\ \A v \in Writers : writes'[v].state # "inserted"
           /\ Top = events.sequence - 1 /\ writes[w].id = events.sequence /\ events.sequence >= 1
<1>1. TableAgrees  BY DEF FeedInv
<1>2. writes' \in [Writers -> [state : {"new", "inserted", "ended"}, id : Nat]]  BY <1>1 DEF TableAgrees
<1>3. writes'[w].state = "ended" /\ \A v \in Writers : v # w => writes'[v] = writes[v]  BY <1>1 DEF TableAgrees
<1>4. \A v \in Writers : writes'[v].state # "inserted"  BY <1>3, TopFacts
<1>5. Inserting  BY DEF Inserting
<1>6. Top = events.sequence - 1 /\ writes[w].id = events.sequence /\ events.sequence >= 1
  BY <1>1, <1>5 DEF Top, TableAgrees
<1>. QED  BY <1>2, <1>4, <1>6 DEF Inserting

LEMMA CommitKeepsTable ==
    ASSUME FeedInv, NEW w \in Writers, Commit(w)
    PROVE  TableAgrees' /\ Top' = Top + 1
<1>1. /\ ~Inserting'
      /\ writes' \in [Writers -> [state : {"new", "inserted", "ended"}, id : Nat]]
      /\ \A v \in Writers : writes'[v].state # "inserted"
      /\ Top = events.sequence - 1 /\ writes[w].id = events.sequence /\ events.sequence >= 1
  BY TransactionEnds DEF Commit
<1>2. events \in [committed : SUBSET Nat, sequence : Nat] /\ events.committed = 1..Top
  BY DEF FeedInv, TableAgrees
<1>3. events' = [events EXCEPT !.committed = events.committed \cup {events.sequence}]
  BY <1>1 DEF Commit
<1>4. events' \in [committed : SUBSET Nat, sequence : Nat] /\ events'.sequence = events.sequence
      /\ events'.committed = events.committed \cup {events.sequence}
  BY <1>2, <1>3
<1>5. Top' = Top + 1  BY SMTT(30), <1>1, <1>2, <1>4 DEF Top
<1>6. (1..Top) \cup {Top + 1} = 1..(Top + 1)  BY SMTT(30), TopFacts
<1>7. events.sequence = Top + 1  BY SMTT(30), <1>1, <1>2
<1>8. events'.committed = 1..Top'  BY <1>2, <1>4, <1>5, <1>6, <1>7
<1>. QED  BY <1>1, <1>4, <1>5, <1>8 DEF TableAgrees

LEMMA RollbackKeepsTable ==
    ASSUME FeedInv, NEW w \in Writers, Rollback(w)
    PROVE  TableAgrees' /\ Top' = Top
<1>1. /\ ~Inserting'
      /\ writes' \in [Writers -> [state : {"new", "inserted", "ended"}, id : Nat]]
      /\ \A v \in Writers : writes'[v].state # "inserted"
      /\ Top = events.sequence - 1 /\ writes[w].id = events.sequence /\ events.sequence >= 1
  BY TransactionEnds DEF Rollback
<1>2. events \in [committed : SUBSET Nat, sequence : Nat] /\ events.committed = 1..Top
  BY DEF FeedInv, TableAgrees
<1>3. events' = [events EXCEPT !.sequence = events.sequence - 1]
  BY <1>1 DEF Rollback, SequenceAfterRollback
<1>4. events' \in [committed : SUBSET Nat, sequence : Nat] /\ events'.sequence = events.sequence - 1
      /\ events'.committed = events.committed
  BY SMTT(30), <1>1, <1>2, <1>3
<1>5. Top' = Top  BY <1>1, <1>4 DEF Top
<1>. QED  BY <1>1, <1>2, <1>4, <1>5 DEF TableAgrees

\* The scheduler and the table, for every step.
LEMMA TableStep ==
    ASSUME FeedInv, FeedNext
    PROVE  SchedulerInv' /\ TableAgrees' /\ Top' \in Nat /\ Top <= Top'
<1>1. SchedulerInv /\ Top \in Nat /\ Forwarder \in Callers  BY TopFacts, FeedAssumption DEF FeedInv
<1>2. \A w \in Writers : w \in Callers /\ w # Forwarder  BY DEF Writers
<1>3. callers \in [Callers -> CallerStates]  BY <1>1 DEF SchedulerInv, SchedulerTypeOK
<1>4. ASSUME NEW p \in Callers, Arrive(p) \/ Schedule(p), UNCHANGED <<events, writes>>
      PROVE  SchedulerInv' /\ TableAgrees' /\ Top' = Top
  BY <1>1, <1>2, <1>4, QueueStep, TurnIsKept, TableStutter
<1>5. ASSUME UNCHANGED schedulerVars, UNCHANGED <<events, writes>>
      PROVE  SchedulerInv' /\ TableAgrees' /\ Top' = Top
  BY <1>1, <1>5, SchedulerStutter, TableStutter DEF schedulerVars
<1>6. ASSUME NEW w \in Writers, Call(w) PROVE SchedulerInv' /\ TableAgrees' /\ Top' = Top
  BY <1>2, <1>4, <1>6 DEF Call, feedVars
<1>7. ASSUME NEW w \in Writers, Insert(w) PROVE SchedulerInv' /\ TableAgrees' /\ Top' = Top
  BY <1>1, <1>7, InsertKeepsTable, SchedulerStutter DEF Insert
<1>8. ASSUME NEW w \in Writers, Commit(w) PROVE SchedulerInv' /\ TableAgrees' /\ Top' = Top + 1
  BY <1>1, <1>2, <1>8, CommitKeepsTable, QueueStep DEF Commit
<1>9. ASSUME NEW w \in Writers, Rollback(w) PROVE SchedulerInv' /\ TableAgrees' /\ Top' = Top
  BY <1>1, <1>2, <1>9, RollbackKeepsTable, QueueStep DEF Rollback
<1>10. ASSUME NEW p \in Callers, Scheduling(p) PROVE SchedulerInv' /\ TableAgrees' /\ Top' = Top
  BY <1>4, <1>10 DEF Scheduling, feedVars
<1>11. CASE BeginLoad
  BY SMTT(30), <1>1, <1>4, <1>11 DEF BeginLoad
<1>12. CASE Load
  <2>1. SchedulerInv'  BY <1>1, <1>12, QueueStep DEF Load
  <2>2. \A w \in Writers : callers'[w] = callers[w]  BY <1>2, <1>3, <1>12 DEF Load, Unlock
  <2>. QED  BY SMTT(30), <1>1, <1>12, <2>1, <2>2, TableStutter DEF Load
<1>13. CASE Publish \/ FoundNothing \/ FrameFails \/ RequestStop \/ StopStream
  <2>1. UNCHANGED schedulerVars /\ UNCHANGED <<events, writes>>
    BY <1>13 DEF Publish, FoundNothing, FrameFails, RequestStop, StopStream
  <2>. QED  BY SMTT(30), <1>1, <1>5, <2>1
<1>14. ASSUME NEW c \in Clients, AcceptClient(c) \/ Send(c) \/ HangUp(c) \/ ReadPage(c)
       PROVE  SchedulerInv' /\ TableAgrees' /\ Top' = Top
  <2>1. UNCHANGED schedulerVars /\ UNCHANGED <<events, writes>>
    BY <1>14 DEF AcceptClient, Send, HangUp, ReadPage
  <2>. QED  BY <1>5, <2>1
<1>. QED  BY SMTT(30), <1>1, <1>6, <1>7, <1>8, <1>9, <1>10, <1>11, <1>12, <1>13, <1>14 DEF FeedNext, Write, ForwardStep

-----------------------------------------------------------------------------
\* The forwarding thread.
LEMMA ForwardStutter ==
    ASSUME FeedInv, UNCHANGED <<forward, watermark>>, Top' \in Nat, Top <= Top'
    PROVE  ForwardAgrees'
<1>1. Top \in Nat /\ ForwardAgrees  BY TopFacts DEF FeedInv
<1>2. Len(forward.rows) \in Nat /\ forward.last \in Nat  BY SMTT(30), <1>1 DEF ForwardAgrees
<1>3. forward.last + Len(forward.rows) <= Top'  BY SMTT(30), <1>1, <1>2 DEF ForwardAgrees
<1>. QED  BY <1>1, <1>3 DEF ForwardAgrees

\* Its state changes only in pc, or the rows are dropped.
LEMMA ForwardMoves ==
    ASSUME FeedInv, Top' = Top, watermark' = watermark,
           NEW pc \in {"load", "loading", "empty", "gone"}, NEW found \in {forward.rows, <<>>},
           forward' = [pc |-> pc, last |-> forward.last, rows |-> found]
    PROVE  ForwardAgrees'
<1>1. Top \in Nat /\ ForwardAgrees  BY TopFacts DEF FeedInv
<1>2. forward.last \in Nat /\ forward.rows \in Seq(Nat) /\ Len(forward.rows) \in Nat  BY SMTT(30), <1>1 DEF ForwardAgrees
<1>3. found \in Seq(Nat) /\ Len(found) \in {0, Len(forward.rows)}
  <2>1. CASE found = forward.rows  BY <1>2, <2>1
  <2>2. CASE found = <<>>  BY SMTT(30), <2>2
  <2>. QED  BY <2>1, <2>2
<1>4. forward'.pc = pc /\ forward'.last = forward.last /\ forward'.rows = found  OBVIOUS
<1>5. forward.last + Len(found) <= Top
  <2>1. forward.last + Len(forward.rows) <= Top  BY <1>1 DEF ForwardAgrees
  <2>. QED  BY SMTT(30), <1>1, <1>2, <1>3, <2>1
<1>6. \A k \in 1..Len(found) : found[k] = forward.last + k
  <2>1. CASE found = forward.rows  BY <1>1, <2>1 DEF ForwardAgrees
  <2>2. CASE found = <<>>  BY SMTT(30), <2>2
  <2>. QED  BY <2>1, <2>2
<1>7. forward' \in [pc : {"load", "loading", "empty", "publish", "gone"}, last : Nat, rows : Seq(Nat)]
  BY <1>2, <1>3
<1>8. watermark' = forward'.last  BY <1>1, <1>4 DEF ForwardAgrees
<1>. QED  BY <1>4, <1>5, <1>6, <1>7, <1>8 DEF ForwardAgrees

LEMMA LoadForward ==
    ASSUME FeedInv, Load, Top' = Top
    PROVE  ForwardAgrees'
<1>1. Top \in Nat /\ ForwardAgrees /\ events.committed = 1..Top  BY TopFacts DEF FeedInv, TableAgrees
<1>2. forward.last \in Nat /\ Len(forward.rows) \in Nat /\ forward.last + Len(forward.rows) <= Top
  BY SMTT(30), <1>1 DEF ForwardAgrees
<1>3. forward.last <= Top /\ Batch \in Nat  BY SMTT(30), <1>1, <1>2, FeedAssumption
<1>4. /\ FirstRows(Batch, forward.last) \in Seq(Nat)
      /\ Len(FirstRows(Batch, forward.last)) =
            IF Top - forward.last < Batch THEN Top - forward.last ELSE Batch
      /\ \A k \in 1..Len(FirstRows(Batch, forward.last)) : FirstRows(Batch, forward.last)[k] = forward.last + k
  BY <1>1, <1>2, <1>3, RowsFacts
<1>. DEFINE found == FirstRows(Batch, forward.last)
            pc == IF found = <<>> THEN "empty" ELSE "publish"
<1>5. forward' = [forward EXCEPT !.rows = found, !.pc = pc] /\ watermark' = watermark  BY DEF Load
<1>6. pc \in {"empty", "publish"} /\ (pc = "publish" => found # <<>>)  OBVIOUS
<1>7. found \in Seq(Nat) /\ \A k \in 1..Len(found) : found[k] = forward.last + k  BY <1>4
<1>8. forward.last + Len(found) <= Top
  <2>1. Len(found) \in Nat /\ Len(found) <= Top - forward.last  BY SMTT(30), <1>1, <1>2, <1>3, <1>4
  <2>. HIDE DEF found
  <2>. QED  BY SMTT(30), <1>1, <1>2, <2>1
<1>. HIDE DEF pc, found
<1>9. forward' = [pc |-> pc, last |-> forward.last, rows |-> found]  BY <1>1, <1>5 DEF ForwardAgrees
<1>10. forward' \in [pc : {"load", "loading", "empty", "publish", "gone"}, last : Nat, rows : Seq(Nat)]
  BY <1>2, <1>6, <1>7, <1>9
<1>11. forward'.pc = pc /\ forward'.last = forward.last /\ forward'.rows = found  BY <1>9
<1>. QED  BY <1>1, <1>5, <1>6, <1>7, <1>8, <1>10, <1>11 DEF ForwardAgrees

\* The next row is the one after the last, and new to the stream.
LEMMA PublishForward ==
    ASSUME FeedInv, Publish, Top' = Top
    PROVE  /\ ForwardAgrees'
           /\ watermark' = watermark + 1
           /\ clients' = [c \in Clients |-> PublishedTo(clients[c], watermark + 1)]
<1>1. Top \in Nat /\ ForwardAgrees  BY TopFacts DEF FeedInv
<1>2. /\ forward.last \in Nat /\ watermark = forward.last /\ forward.rows \in Seq(Nat) /\ forward.rows # <<>>
      /\ \A k \in 1..Len(forward.rows) : forward.rows[k] = forward.last + k
      /\ forward.last + Len(forward.rows) <= Top
  BY <1>1 DEF ForwardAgrees, Publish
<1>. DEFINE id == Head(forward.rows)
            rest == Tail(forward.rows)
            pc == IF rest = <<>> THEN "load" ELSE "publish"
<1>3. id = forward.last + 1 /\ rest \in Seq(Nat) /\ Len(rest) = Len(forward.rows) - 1 /\ Len(forward.rows) \in Nat
      /\ \A k \in 1..Len(rest) : rest[k] = forward.rows[k + 1] /\ k + 1 \in 1..Len(forward.rows)
  BY SMTT(30), <1>2
<1>4. id > watermark  BY SMTT(30), <1>2, <1>3
<1>5. watermark' = id /\ clients' = [c \in Clients |-> PublishedTo(clients[c], id)]  BY <1>4 DEF Publish
<1>6. forward' = [pc |-> pc, last |-> id, rows |-> rest]  BY DEF Publish
<1>7. pc \in {"load", "publish"} /\ (pc = "publish" => rest # <<>>)  OBVIOUS
<1>. HIDE DEF id, rest, pc
<1>8. forward'.pc = pc /\ forward'.last = id /\ forward'.rows = rest  BY <1>6
<1>9. id \in Nat  BY SMTT(30), <1>2, <1>3
<1>10. \A k \in 1..Len(rest) : rest[k] = id + k
  <2>1. SUFFICES ASSUME NEW k \in 1..Len(rest) PROVE rest[k] = id + k  OBVIOUS
  <2>2. rest[k] = forward.last + (k + 1)  BY <1>2, <1>3
  <2>3. \A a, j \in Nat : a + (j + 1) = (a + 1) + j  BY SMTT(30)
  <2>4. k \in Nat  BY SMTT(30)
  <2>5. forward.last + (k + 1) = (forward.last + 1) + k  BY <1>2, <2>3, <2>4
  <2>. QED  BY <1>3, <2>2, <2>5
<1>11. id + Len(rest) <= Top
  <2>1. \A a, l \in Nat : (a + 1) + (l - 1) = a + l  BY SMTT(30)
  <2>2. id + Len(rest) = forward.last + Len(forward.rows)  BY <1>2, <1>3, <2>1
  <2>. QED  BY <1>2, <2>2
<1>12. forward' \in [pc : {"load", "loading", "empty", "publish", "gone"}, last : Nat, rows : Seq(Nat)]
  BY <1>3, <1>6, <1>7, <1>9
<1>13. ForwardAgrees'  BY <1>5, <1>7, <1>8, <1>10, <1>11, <1>12 DEF ForwardAgrees
<1>. QED  BY <1>2, <1>3, <1>5, <1>13

-----------------------------------------------------------------------------
\* The clients: what each step makes of one that follows the stream.
LEMMA FollowsOn ==
    ASSUME NEW x \in ClientStates, NEW w \in Nat, NEW t \in Nat, NEW u \in Nat, t <= u, Follows(x, w, t)
    PROVE  Follows(x, w, u)
<1>1. Len(x.history) \in Nat  BY SMTT(30) DEF ClientStates
<1>2. Len(x.history) <= u  BY SMTT(30), <1>1 DEF Follows
<1>. QED  BY <1>2 DEF Follows

LEMMA ClosedFollows ==
    ASSUME NEW x \in ClientStates, NEW w \in Nat, NEW v \in Nat, NEW t \in Nat, w <= v,
           Follows(x, w, t), x.state = "open"
    PROVE  /\ [x EXCEPT !.state = "closed", !.output = <<>>] \in ClientStates
           /\ Follows([x EXCEPT !.state = "closed", !.output = <<>>], v, t)
<1>. DEFINE y == [x EXCEPT !.state = "closed", !.output = <<>>]
<1>0. <<>> \in Seq(Nat)  BY SMTT(30)
<1>1. y \in ClientStates  BY <1>0 DEF ClientStates
<1>2. /\ y.state = "closed" /\ y.output = <<>> /\ y.mark = x.mark /\ y.got = x.got
      /\ y.cursor = x.cursor /\ y.history = x.history /\ y.more = x.more
  BY DEF ClientStates
<1>. HIDE DEF y
<1>3. Len(x.got) \in Nat /\ Len(x.output) \in Nat /\ x.mark \in Nat  BY SMTT(30) DEF ClientStates
<1>4. x.mark <= v  BY SMTT(30), <1>3 DEF Follows
<1>5. Len(x.got) <= 1 + (v - x.mark)
  <2>1. \A g, o, m \in Nat : g + o = 1 + (w - m) => g <= 1 + (v - m)  BY SMTT(30)
  <2>2. Len(x.got) + Len(x.output) = 1 + (w - x.mark)  BY DEF Follows
  <2>. QED  BY <1>3, <2>1, <2>2
<1>6. Follows(y, v, t)  BY <1>2, <1>4, <1>5 DEF Follows
<1>. QED  BY <1>1, <1>6 DEF y

LEMMA AppendedFollows ==
    ASSUME NEW x \in ClientStates, NEW w \in Nat, NEW t \in Nat, Follows(x, w, t), x.state = "open"
    PROVE  /\ [x EXCEPT !.output = Append(x.output, w + 1)] \in ClientStates
           /\ Follows([x EXCEPT !.output = Append(x.output, w + 1)], w + 1, t)
<1>. DEFINE o == Append(x.output, w + 1)
            y == [x EXCEPT !.output = o]
<1>0. x.output \in Seq(Nat) /\ x.got \in Seq(Nat) /\ x.mark \in Nat  BY DEF ClientStates
<1>1. Len(x.got) \in Nat /\ Len(x.output) \in Nat  BY SMTT(30), <1>0
<1>2. /\ o \in Seq(Nat) /\ Len(o) = Len(x.output) + 1 /\ o[Len(x.output) + 1] = w + 1
      /\ \A k \in 1..Len(x.output) : o[k] = x.output[k]
  BY SMTT(30), <1>0
<1>. HIDE DEF o
<1>3. y \in ClientStates  BY <1>2 DEF ClientStates
<1>4. /\ y.state = x.state /\ y.output = o /\ y.mark = x.mark /\ y.got = x.got
      /\ y.cursor = x.cursor /\ y.history = x.history /\ y.more = x.more
  BY DEF ClientStates
<1>. HIDE DEF y
<1>5. x.mark <= w /\ Len(x.got) + Len(x.output) = 1 + (w - x.mark)  BY DEF Follows
<1>6. x.mark <= w + 1 /\ Len(x.got) + Len(o) = 1 + ((w + 1) - x.mark)
  <2>. DEFINE g == Len(x.got)
              l == Len(x.output)
              m == x.mark
  <2>1. g \in Nat /\ l \in Nat /\ m \in Nat /\ m <= w /\ g + l = 1 + (w - m)  BY <1>0, <1>1, <1>5
  <2>. HIDE DEF g, l, m
  <2>2. m <= w + 1 /\ g + (l + 1) = 1 + ((w + 1) - m)  BY SMTT(30), <2>1
  <2>. QED  BY <1>2, <2>2 DEF g, l, m
<1>7. ASSUME NEW k \in 1..Len(o) PROVE o[k] = FrameAt(x.mark, Len(x.got) + k)
  <2>1. CASE k \in 1..Len(x.output)  BY <1>2, <2>1 DEF Follows
  <2>2. CASE k \notin 1..Len(x.output)
    <3>1. k = Len(x.output) + 1  BY SMTT(30), <1>1, <1>2, <2>2
    <3>2. \A g, l, m \in Nat : g + l = 1 + (w - m) /\ m <= w
             => g + (l + 1) # 1 /\ m + ((g + (l + 1)) - 1) = w + 1
      BY SMTT(30)
    <3>3. FrameAt(x.mark, Len(x.got) + (Len(x.output) + 1)) = w + 1
      BY <1>0, <1>1, <1>5, <3>2 DEF FrameAt
    <3>. QED  BY <1>2, <3>1, <3>3
  <2>. QED  BY <2>1, <2>2
<1>8. Follows(y, w + 1, t)  BY <1>4, <1>6, <1>7 DEF Follows
<1>. QED  BY <1>3, <1>8 DEF y, o

LEMMA PublishedFollows ==
    ASSUME NEW x \in ClientStates, NEW w \in Nat, NEW t \in Nat, Follows(x, w, t)
    PROVE  PublishedTo(x, w + 1) \in ClientStates /\ Follows(PublishedTo(x, w + 1), w + 1, t)
<1>1. CASE x.state # "open"
  <2>1. PublishedTo(x, w + 1) = x  BY <1>1 DEF PublishedTo
  <2>2. x.mark \in Nat /\ Len(x.got) \in Nat  BY SMTT(30) DEF ClientStates
  <2>3. x.mark <= w + 1 /\ Len(x.got) <= 1 + ((w + 1) - x.mark)
    <3>1. \A m, g \in Nat : m <= w /\ g <= 1 + (w - m) => m <= w + 1 /\ g <= 1 + ((w + 1) - m)  BY SMTT(30)
    <3>2. x.mark <= w /\ Len(x.got) <= 1 + (w - x.mark)  BY <1>1 DEF Follows
    <3>. QED  BY <2>2, <3>1, <3>2
  <2>4. Follows(x, w + 1, t)  BY <1>1, <2>3 DEF Follows
  <2>. QED  BY <2>1, <2>4
<1>2. CASE x.state = "open" /\ Len(x.output) >= MaxFrames
  <2>1. PublishedTo(x, w + 1) = [x EXCEPT !.state = "closed", !.output = <<>>]  BY <1>2 DEF PublishedTo
  <2>2. w <= w + 1 /\ w + 1 \in Nat  BY SMTT(30)
  <2>3. /\ [x EXCEPT !.state = "closed", !.output = <<>>] \in ClientStates
        /\ Follows([x EXCEPT !.state = "closed", !.output = <<>>], w + 1, t)
    BY <1>2, <2>2, ClosedFollows
  <2>. QED  BY <2>1, <2>3
<1>3. CASE x.state = "open" /\ ~(Len(x.output) >= MaxFrames)
  <2>1. PublishedTo(x, w + 1) = [x EXCEPT !.output = Append(x.output, w + 1)]  BY <1>3 DEF PublishedTo
  <2>. QED  BY <1>3, <2>1, AppendedFollows
<1>. QED  BY <1>1, <1>2, <1>3

LEMMA SentFollows ==
    ASSUME NEW x \in ClientStates, NEW w \in Nat, NEW t \in Nat, Follows(x, w, t),
           x.state = "open", x.output # <<>>,
           NEW y, y = [x EXCEPT !.output = Tail(x.output), !.got = Append(x.got, Head(x.output))]
    PROVE  y \in ClientStates /\ Follows(y, w, t)
<1>. DEFINE o == Tail(x.output)
            g == Append(x.got, Head(x.output))
<1>0. x.output \in Seq(Nat) /\ x.got \in Seq(Nat) /\ x.mark \in Nat  BY DEF ClientStates
<1>1. Len(x.got) \in Nat /\ Len(x.output) \in Nat \ {0} /\ Head(x.output) = x.output[1] /\ Head(x.output) \in Nat
  BY SMTT(30), <1>0
<1>2. /\ o \in Seq(Nat) /\ Len(o) = Len(x.output) - 1
      /\ \A k \in 1..Len(o) : o[k] = x.output[k + 1] /\ k + 1 \in 1..Len(x.output)
  BY SMTT(30), <1>0
<1>3. /\ g \in Seq(Nat) /\ Len(g) = Len(x.got) + 1 /\ g[Len(x.got) + 1] = x.output[1]
      /\ \A k \in 1..Len(x.got) : g[k] = x.got[k]
  BY SMTT(30), <1>0, <1>1
<1>4. y = [x EXCEPT !.output = o, !.got = g]  OBVIOUS
<1>. HIDE DEF o, g
<1>5. y \in ClientStates  BY <1>2, <1>3, <1>4 DEF ClientStates
<1>6. /\ y.state = x.state /\ y.output = o /\ y.mark = x.mark /\ y.got = g
      /\ y.cursor = x.cursor /\ y.history = x.history /\ y.more = x.more
  BY <1>4 DEF ClientStates
<1>7. Len(g) + Len(o) = 1 + (w - x.mark)
  <2>1. Len(x.got) + Len(x.output) = 1 + (w - x.mark)  BY DEF Follows
  <2>. DEFINE a == Len(x.got)
              b == Len(x.output)
  <2>2. a \in Nat /\ b \in Nat  BY <1>1
  <2>. HIDE DEF a, b
  <2>3. (a + 1) + (b - 1) = a + b  BY SMTT(30), <2>2
  <2>. QED  BY <1>2, <1>3, <2>1, <2>3 DEF a, b
<1>8. ASSUME NEW k \in 1..Len(g) PROVE g[k] = FrameAt(x.mark, k)
  <2>1. CASE k \in 1..Len(x.got)  BY <1>3, <2>1 DEF Follows
  <2>2. CASE k \notin 1..Len(x.got)
    <3>1. k = Len(x.got) + 1  BY SMTT(30), <1>1, <1>3, <2>2
    <3>2. 1 \in 1..Len(x.output)  BY SMTT(30), <1>1
    <3>3. x.output[1] = FrameAt(x.mark, Len(x.got) + 1)  BY <3>2 DEF Follows
    <3>. QED  BY <1>3, <3>1, <3>3
  <2>. QED  BY <2>1, <2>2
<1>9. ASSUME NEW k \in 1..Len(o) PROVE o[k] = FrameAt(x.mark, Len(g) + k)
  <2>1. o[k] = FrameAt(x.mark, Len(x.got) + (k + 1))  BY <1>2 DEF Follows
  <2>2. \A a, j \in Nat : a + (j + 1) = (a + 1) + j  BY SMTT(30)
  <2>3. k \in Nat  BY SMTT(30)
  <2>4. Len(x.got) + (k + 1) = (Len(x.got) + 1) + k  BY <1>1, <2>2, <2>3
  <2>. QED  BY <1>3, <2>1, <2>4
<1>10. Follows(y, w, t)  BY <1>6, <1>7, <1>8, <1>9 DEF Follows
<1>. QED  BY <1>5, <1>10

LEMMA AcceptedFollows ==
    ASSUME NEW w \in Nat, NEW t \in Nat,
           NEW y \in {[NoClient EXCEPT !.state = "closed"],
                      [NoClient EXCEPT !.state = "open", !.mark = w, !.output = << 0 >>]}
    PROVE  y \in ClientStates /\ Follows(y, w, t)
<1>1. <<>> \in Seq(Nat) /\ << 0 >> \in Seq(Nat) /\ Len(<<>>) = 0 /\ Len(<< 0 >>) = 1 /\ << 0 >>[1] = 0  BY SMTT(30)
<1>2. CASE y = [NoClient EXCEPT !.state = "closed"]
  <2>1. y = [state |-> "closed", mark |-> 0, output |-> <<>>, got |-> <<>>,
             cursor |-> 0, history |-> <<>>, more |-> TRUE]  BY <1>2 DEF NoClient
  <2>2. y \in ClientStates  BY <1>1, <2>1 DEF ClientStates
  <2>3. /\ y.state = "closed" /\ y.mark = 0 /\ y.output = <<>> /\ y.got = <<>>
        /\ y.cursor = 0 /\ y.history = <<>> /\ y.more = TRUE
    BY <2>1
  <2>4. Follows(y, w, t)  BY SMTT(30), <1>1, <2>3 DEF Follows
  <2>. QED  BY <2>2, <2>4
<1>3. CASE y = [NoClient EXCEPT !.state = "open", !.mark = w, !.output = << 0 >>]
  <2>1. y = [state |-> "open", mark |-> w, output |-> << 0 >>, got |-> <<>>,
             cursor |-> 0, history |-> <<>>, more |-> TRUE]  BY <1>3 DEF NoClient
  <2>2. y \in ClientStates  BY <1>1, <2>1 DEF ClientStates
  <2>3. /\ y.state = "open" /\ y.mark = w /\ y.output = << 0 >> /\ y.got = <<>>
        /\ y.cursor = 0 /\ y.history = <<>> /\ y.more = TRUE
    BY <2>1
  <2>4. \A k \in 1..1 : << 0 >>[k] = FrameAt(w, 0 + k)  BY SMTT(30), <1>1 DEF FrameAt
  <2>5. 0 + 1 = 1 + (w - w)  BY SMTT(30)
  <2>6. Follows(y, w, t)  BY SMTT(30), <1>1, <2>3, <2>4, <2>5 DEF Follows
  <2>. QED  BY <2>2, <2>6
<1>. QED  BY <1>2, <1>3

\* What counts from 1 goes on counting when the next numbers are added.
LEMMA CountsOn ==
    ASSUME NEW s \in Seq(Nat), NEW u \in Seq(Nat),
           \A k \in 1..Len(s) : s[k] = k, \A k \in 1..Len(u) : u[k] = Len(s) + k
    PROVE  /\ s \o u \in Seq(Nat) /\ Len(s \o u) = Len(s) + Len(u)
           /\ \A k \in 1..Len(s \o u) : (s \o u)[k] = k
<1>1. s \o u \in Seq(Nat) /\ Len(s \o u) = Len(s) + Len(u)  BY SMTT(30)
<1>2. ASSUME NEW k \in 1..Len(s \o u) PROVE (s \o u)[k] = k
  <2>1. k \in Nat /\ Len(s) \in Nat /\ Len(u) \in Nat /\ 1 <= k /\ k <= Len(s) + Len(u)  BY SMTT(30), <1>1
  <2>2. CASE k <= Len(s)
    <3>1. (s \o u)[k] = s[k]  BY SMTT(30), <2>1, <2>2
    <3>. QED  BY SMTT(30), <2>1, <2>2, <3>1
  <2>3. CASE k > Len(s)
    <3>1. (s \o u)[k] = u[k - Len(s)]  BY SMTT(30), <2>1, <2>3
    <3>2. k - Len(s) \in 1..Len(u) /\ Len(s) + (k - Len(s)) = k  BY SMTT(30), <2>1, <2>3
    <3>. QED  BY <3>1, <3>2
  <2>. QED  BY SMTT(30), <2>1, <2>2, <2>3
<1>. QED  BY <1>1, <1>2

\* The pages join without a gap: the next one begins after the last row shown, and the
\* last one ends with all that is committed.
LEMMA PagedFollows ==
    ASSUME NEW x \in ClientStates, NEW w \in Nat, NEW t \in Nat, w <= t, Follows(x, w, t),
           x.more, events.committed = 1..t,
           NEW found, found = FirstRows(PageLimit + 1, x.cursor),
           NEW more, more = (Len(found) > PageLimit),
           NEW shown, shown = (IF more THEN SubSeq(found, 1, PageLimit) ELSE found),
           NEW y, y = [x EXCEPT !.history = x.history \o shown, !.more = more,
                                !.cursor = IF more THEN NextCursor(found) ELSE x.cursor]
    PROVE  x.state # "none" => y \in ClientStates /\ Follows(y, w, t)
<1>. SUFFICES ASSUME x.state # "none" PROVE y \in ClientStates /\ Follows(y, w, t)  OBVIOUS
<1>. DEFINE n == Len(x.history)
            l == Len(found)
            m == Len(shown)
<1>1. x.history \in Seq(Nat) /\ n \in Nat /\ x.cursor \in Nat /\ x.mark \in Nat  BY SMTT(30) DEF ClientStates
<1>2. x.cursor = n /\ n <= t /\ x.mark <= w  BY DEF Follows
<1>3. PageLimit \in Nat \ {0}  BY FeedAssumption
<1>4. /\ found \in Seq(Nat)
      /\ l = IF t - n < PageLimit + 1 THEN t - n ELSE PageLimit + 1
      /\ \A k \in 1..l : found[k] = n + k
  <2>1. PageLimit + 1 \in Nat /\ x.cursor <= t  BY SMTT(30), <1>2, <1>3
  <2>2. /\ FirstRows(PageLimit + 1, x.cursor) \in Seq(Nat)
        /\ Len(FirstRows(PageLimit + 1, x.cursor)) =
              IF t - x.cursor < PageLimit + 1 THEN t - x.cursor ELSE PageLimit + 1
        /\ \A k \in 1..Len(FirstRows(PageLimit + 1, x.cursor)) :
              FirstRows(PageLimit + 1, x.cursor)[k] = x.cursor + k
    BY <1>1, <2>1, RowsFacts
  <2>. QED  BY <1>2, <2>2
<1>. HIDE DEF n, l
<1>5. more \in BOOLEAN /\ (more <=> l > PageLimit)
  <2>1. more = (l > PageLimit)  BY DEF l
  <2>2. (l > PageLimit) \in BOOLEAN  BY SMTT(30)
  <2>. QED  BY <2>1, <2>2
<1>6. /\ shown \in Seq(Nat) /\ m \in Nat /\ n + m <= t
      /\ \A k \in 1..m : shown[k] = n + k
      /\ more => m = PageLimit /\ NextCursor(found) = n + m /\ n + m \in Nat
      /\ ~more => n + m = t
  <2>1. CASE more
    <3>1. l > PageLimit /\ l = PageLimit + 1 /\ n + l <= t  BY SMTT(30), <1>1, <1>2, <1>3, <1>4, <1>5, <2>1
    <3>2. shown = SubSeq(found, 1, PageLimit)  BY <2>1
    <3>3. PageLimit <= Len(found) /\ PageLimit \in 1..l  BY SMTT(30), <1>3, <3>1 DEF l
    <3>4. shown \in Seq(Nat) /\ m = PageLimit /\ \A k \in 1..PageLimit : shown[k] = found[k]
      BY SMTT(30), <1>3, <1>4, <3>2, <3>3
    <3>5. NextCursor(found) = n + m  BY <1>4, <3>3, <3>4 DEF NextCursor
    <3>6. \A k \in 1..PageLimit : k \in 1..l  BY SMTT(30), <1>3, <3>1
    <3>. HIDE DEF m
    <3>7. \A k \in 1..m : shown[k] = n + k  BY <1>4, <3>4, <3>6
    <3>8. m \in Nat /\ n + m <= t /\ n + m \in Nat  BY SMTT(30), <1>1, <1>2, <1>3, <3>1, <3>4
    <3>. QED  BY <2>1, <3>4, <3>5, <3>7, <3>8
  <2>2. CASE ~more
    <3>1. shown = found  BY <2>2
    <3>2. m = l  BY <3>1 DEF l
    <3>3. l = t - n  BY SMTT(30), <1>1, <1>2, <1>3, <1>4, <1>5, <2>2
    <3>. HIDE DEF m
    <3>4. m \in Nat /\ n + m = t  BY SMTT(30), <1>1, <1>2, <3>2, <3>3
    <3>. QED  BY SMTT(30), <1>4, <2>2, <3>1, <3>2, <3>4
  <2>. QED  BY <1>5, <2>1, <2>2
<1>. DEFINE h == x.history \o shown
            c == IF more THEN NextCursor(found) ELSE x.cursor
<1>7. h \in Seq(Nat) /\ Len(h) = n + m /\ \A k \in 1..Len(h) : h[k] = k
  <2>1. x.history \in Seq(Nat) /\ shown \in Seq(Nat)  BY <1>1, <1>6
  <2>2. \A k \in 1..Len(x.history) : x.history[k] = k  BY DEF Follows
  <2>3. \A k \in 1..Len(shown) : shown[k] = Len(x.history) + k  BY <1>6 DEF n
  <2>4. /\ x.history \o shown \in Seq(Nat) /\ Len(x.history \o shown) = Len(x.history) + Len(shown)
        /\ \A k \in 1..Len(x.history \o shown) : (x.history \o shown)[k] = k
    BY <2>1, <2>2, <2>3, CountsOn
  <2>. QED  BY <2>4 DEF n
<1>9. c \in Nat /\ (more => c = n + m)  BY <1>1, <1>5, <1>6
<1>10. y = [x EXCEPT !.history = h, !.more = more, !.cursor = c]  OBVIOUS
<1>. HIDE DEF h, c, m
<1>11. y \in ClientStates  BY <1>5, <1>7, <1>9, <1>10 DEF ClientStates
<1>12. /\ y.state = x.state /\ y.output = x.output /\ y.mark = x.mark /\ y.got = x.got
       /\ y.cursor = c /\ y.history = h /\ y.more = more
  BY <1>10 DEF ClientStates
<1>13. Len(h) <= t /\ (~more => Len(h) >= x.mark)  BY SMTT(30), <1>1, <1>2, <1>6, <1>7
<1>14. more => c = Len(h)  BY <1>7, <1>9
<1>15. Follows(y, w, t)  BY <1>7, <1>12, <1>13, <1>14 DEF Follows
<1>. QED  BY <1>11, <1>15

-----------------------------------------------------------------------------
\* A client changes and the others stay.
LEMMA OneClient ==
    ASSUME FeedInv, Top' = Top, watermark' = watermark, NEW c \in Clients, NEW y \in ClientStates,
           clients' = [clients EXCEPT ![c] = y], Follows(y, watermark, Top)
    PROVE  clients' \in [Clients -> ClientStates] /\ \A d \in Clients : Follows(clients'[d], watermark', Top')
<1>1. clients \in [Clients -> ClientStates]  BY DEF FeedInv
<1>2. \A d \in Clients : clients'[d] = IF d = c THEN y ELSE clients[d]  BY <1>1
<1>3. ASSUME NEW d \in Clients PROVE Follows(clients'[d], watermark', Top')
  <2>1. CASE d = c  BY <1>2, <2>1
  <2>2. CASE d # c  BY <1>2, <2>2 DEF FeedInv
  <2>. QED  BY <2>1, <2>2
<1>. QED  BY <1>1, <1>3

LEMMA ClientStep ==
    ASSUME FeedInv, Top' = Top, NEW c \in Clients, AcceptClient(c) \/ Send(c) \/ HangUp(c) \/ ReadPage(c)
    PROVE  clients' \in [Clients -> ClientStates] /\ \A d \in Clients : Follows(clients'[d], watermark', Top')
<1>1. /\ clients \in [Clients -> ClientStates] /\ clients[c] \in ClientStates
      /\ Follows(clients[c], watermark, Top)
  BY DEF FeedInv
<1>2. Top \in Nat /\ watermark \in Nat /\ watermark <= Top /\ events.committed = 1..Top
  <2>1. Top \in Nat /\ ForwardAgrees /\ events.committed = 1..Top  BY TopFacts DEF FeedInv, TableAgrees
  <2>2. forward.last \in Nat /\ Len(forward.rows) \in Nat /\ watermark = forward.last
        /\ forward.last + Len(forward.rows) <= Top
    BY SMTT(30), <2>1 DEF ForwardAgrees
  <2>. QED  BY SMTT(30), <2>1, <2>2
<1>3. watermark' = watermark  BY DEF AcceptClient, Send, HangUp, ReadPage
<1>4. CASE AcceptClient(c)
  <2>1. PICK y \in {[NoClient EXCEPT !.state = "closed"],
                    [NoClient EXCEPT !.state = "open", !.mark = watermark, !.output = << 0 >>]} :
           clients' = [clients EXCEPT ![c] = y]
    BY <1>4 DEF AcceptClient, MarkOfStreamOpen
  <2>2. y \in ClientStates /\ Follows(y, watermark, Top)  BY <1>2, AcceptedFollows
  <2>. QED  BY <1>3, <2>1, <2>2, OneClient
<1>5. CASE Send(c)
  <2>. DEFINE y == [clients[c] EXCEPT !.output = Tail(clients[c].output),
                                      !.got = Append(clients[c].got, Head(clients[c].output))]
  <2>1. clients' = [clients EXCEPT ![c] = y]
    <3>1. clients' = [clients EXCEPT ![c].output = Tail(@), ![c].got = Append(@, Head(clients[c].output))]
      BY <1>5 DEF Send
    <3>. QED  BY <1>1, <3>1 DEF ClientStates
  <2>2. clients[c].state = "open" /\ clients[c].output # <<>>  BY <1>5 DEF Send
  <2>3. y \in ClientStates /\ Follows(y, watermark, Top)  BY <1>1, <1>2, <2>2, SentFollows
  <2>. HIDE DEF y
  <2>. QED  BY <1>3, <2>1, <2>3, OneClient
<1>6. CASE HangUp(c)
  <2>. DEFINE y == [clients[c] EXCEPT !.state = "closed", !.output = <<>>]
  <2>1. clients' = [clients EXCEPT ![c] = y]
    <3>1. clients' = [clients EXCEPT ![c].state = "closed", ![c].output = <<>>]  BY <1>6 DEF HangUp
    <3>. QED  BY <1>1, <3>1 DEF ClientStates
  <2>2. clients[c].state = "open" /\ watermark <= watermark  BY SMTT(30), <1>2, <1>6 DEF HangUp
  <2>3. y \in ClientStates /\ Follows(y, watermark, Top)  BY <1>1, <1>2, <2>2, ClosedFollows
  <2>. HIDE DEF y
  <2>. QED  BY <1>3, <2>1, <2>3, OneClient
<1>7. CASE ReadPage(c)
  <2>. DEFINE found == FirstRows(PageLimit + 1, clients[c].cursor)
              more == (Len(found) > PageLimit)
              shown == IF more THEN SubSeq(found, 1, PageLimit) ELSE found
              cursor == IF more THEN NextCursor(found) ELSE clients[c].cursor
              y == [clients[c] EXCEPT !.history = clients[c].history \o shown, !.more = more, !.cursor = cursor]
  <2>1. clients' = [clients EXCEPT ![c] = y]
    <3>1. clients' = [clients EXCEPT ![c].history = @ \o shown, ![c].more = more,
                                     ![c].cursor = IF more THEN NextCursor(found) ELSE @]
      BY <1>7 DEF ReadPage
    <3>. HIDE DEF found, more, shown
    <3>. QED  BY <1>1, <3>1 DEF ClientStates
  <2>2. clients[c].state # "none" /\ clients[c].more  BY <1>7 DEF ReadPage
  <2>3. y \in ClientStates /\ Follows(y, watermark, Top)
    BY <1>1, <1>2, <2>2, PagedFollows
  <2>. HIDE DEF y
  <2>. QED  BY <1>3, <2>1, <2>3, OneClient
<1>. QED  BY <1>4, <1>5, <1>6, <1>7

\* Publish, StopStream: every client at once.
LEMMA PublishClients ==
    ASSUME FeedInv, Publish, Top' = Top
    PROVE  clients' \in [Clients -> ClientStates] /\ \A d \in Clients : Follows(clients'[d], watermark', Top')
<1>1. watermark' = watermark + 1 /\ clients' = [c \in Clients |-> PublishedTo(clients[c], watermark + 1)]
  BY PublishForward
<1>2. Top \in Nat /\ watermark \in Nat  BY TopFacts DEF FeedInv, ForwardAgrees
<1>3. ASSUME NEW d \in Clients
      PROVE  PublishedTo(clients[d], watermark + 1) \in ClientStates
             /\ Follows(PublishedTo(clients[d], watermark + 1), watermark + 1, Top)
  <2>1. clients[d] \in ClientStates /\ Follows(clients[d], watermark, Top)  BY DEF FeedInv
  <2>. QED  BY <1>2, <2>1, PublishedFollows
<1>4. clients' \in [Clients -> ClientStates]  BY <1>1, <1>3
<1>5. ASSUME NEW d \in Clients PROVE Follows(clients'[d], watermark', Top')
  <2>1. clients'[d] = PublishedTo(clients[d], watermark + 1)  BY <1>1
  <2>. QED  BY <1>1, <1>3, <2>1
<1>. QED  BY <1>4, <1>5

LEMMA StopClients ==
    ASSUME FeedInv, StopStream, Top' = Top
    PROVE  clients' \in [Clients -> ClientStates] /\ \A d \in Clients : Follows(clients'[d], watermark', Top')
<1>1. watermark' = watermark  BY DEF StopStream
<1>2. Top \in Nat /\ watermark \in Nat /\ watermark <= watermark  BY SMTT(30), TopFacts DEF FeedInv, ForwardAgrees
<1>3. ASSUME NEW d \in Clients PROVE clients'[d] \in ClientStates /\ Follows(clients'[d], watermark, Top)
  <2>1. clients[d] \in ClientStates /\ Follows(clients[d], watermark, Top)  BY DEF FeedInv
  <2>2. CASE clients[d].state = "open"
    <3>1. clients'[d] = [clients[d] EXCEPT !.state = "closed", !.output = <<>>]  BY <2>2 DEF StopStream
    <3>2. /\ [clients[d] EXCEPT !.state = "closed", !.output = <<>>] \in ClientStates
          /\ Follows([clients[d] EXCEPT !.state = "closed", !.output = <<>>], watermark, Top)
      BY <1>2, <2>1, <2>2, ClosedFollows
    <3>. QED  BY <3>1, <3>2
  <2>3. CASE clients[d].state # "open"
    <3>1. clients'[d] = clients[d]  BY <2>3 DEF StopStream
    <3>. QED  BY <2>1, <3>1
  <2>. QED  BY <2>2, <2>3
<1>4. clients' = [d \in Clients |-> clients'[d]]  BY DEF StopStream
<1>5. clients' \in [Clients -> ClientStates]  BY <1>3, <1>4
<1>. QED  BY <1>1, <1>3, <1>5

LEMMA ClientStutter ==
    ASSUME FeedInv, UNCHANGED <<watermark, clients>>, Top' \in Nat, Top <= Top'
    PROVE  clients' \in [Clients -> ClientStates] /\ \A d \in Clients : Follows(clients'[d], watermark', Top')
<1>1. Top \in Nat /\ watermark \in Nat  BY TopFacts DEF FeedInv, ForwardAgrees
<1>2. clients' = clients /\ watermark' = watermark  OBVIOUS
<1>3. clients \in [Clients -> ClientStates] /\ \A d \in Clients : Follows(clients[d], watermark, Top)
  BY DEF FeedInv
<1>4. ASSUME NEW d \in Clients PROVE Follows(clients[d], watermark, Top')
  BY <1>1, <1>3, FollowsOn
<1>. QED  BY <1>2, <1>3, <1>4

LEMMA FeedStep == FeedInv /\ [FeedNext]_allVars => FeedInv'
<1>1. ASSUME FeedInv, UNCHANGED allVars PROVE FeedInv'
  <2>1. SchedulerInv' /\ TableAgrees' /\ Top' = Top
    <3>1. UNCHANGED schedulerVars /\ UNCHANGED <<events, writes>>  BY <1>1 DEF allVars, feedVars
    <3>. QED  BY <1>1, <3>1, SchedulerStutter, TableStutter DEF FeedInv, schedulerVars
  <2>2. Top \in Nat /\ Top' \in Nat /\ Top <= Top'  BY SMTT(30), <1>1, <2>1, TopFacts
  <2>3. UNCHANGED <<forward, watermark, clients>>  BY <1>1 DEF allVars, feedVars
  <2>. QED  BY <1>1, <2>1, <2>2, <2>3, ForwardStutter, ClientStutter DEF FeedInv
<1>2. ASSUME FeedInv, FeedNext PROVE FeedInv'
  <2>0. SchedulerInv' /\ TableAgrees' /\ Top' \in Nat /\ Top <= Top'  BY <1>2, TableStep
  <2>1. SUFFICES /\ ForwardAgrees' /\ clients' \in [Clients -> ClientStates]
                 /\ \A d \in Clients : Follows(clients'[d], watermark', Top')
    BY <2>0 DEF FeedInv
  <2>2. CASE UNCHANGED <<forward, watermark, clients>>
    BY <1>2, <2>0, <2>2, ForwardStutter, ClientStutter
  <2>3. ASSUME UNCHANGED <<events, writes>> PROVE Top' = Top  BY <2>3 DEF Top, Inserting
  <2>4. ASSUME UNCHANGED <<events, writes, watermark, clients>>,
               NEW pc \in {"load", "loading", "empty", "gone"}, NEW found \in {forward.rows, <<>>},
               forward' = [pc |-> pc, last |-> forward.last, rows |-> found]
        PROVE  /\ ForwardAgrees' /\ clients' \in [Clients -> ClientStates]
               /\ \A d \in Clients : Follows(clients'[d], watermark', Top')
    BY <1>2, <2>0, <2>3, <2>4, ForwardMoves, ClientStutter
  <2>5. forward = [pc |-> forward.pc, last |-> forward.last, rows |-> forward.rows]
    BY <1>2 DEF FeedInv, ForwardAgrees
  <2>6. CASE BeginLoad
    <3>1. forward' = [pc |-> "loading", last |-> forward.last, rows |-> forward.rows]
      BY <2>5, <2>6 DEF BeginLoad
    <3>. QED  BY <2>4, <2>6, <3>1 DEF BeginLoad
  <2>7. CASE Load
    <3>1. UNCHANGED <<events, writes, watermark, clients>>  BY <2>7 DEF Load
    <3>. QED  BY <1>2, <2>0, <2>3, <2>7, <3>1, LoadForward, ClientStutter
  <2>8. CASE Publish
    <3>1. UNCHANGED <<events, writes>>  BY <2>8 DEF Publish
    <3>. QED  BY <1>2, <2>3, <2>8, <3>1, PublishForward, PublishClients
  <2>9. CASE FoundNothing
    <3>1. PICK pc \in {"load", "gone"} : forward' = [pc |-> pc, last |-> forward.last, rows |-> forward.rows]
      BY <2>5, <2>9 DEF FoundNothing
    <3>. QED  BY <2>4, <2>9, <3>1 DEF FoundNothing
  <2>10. CASE FrameFails
    <3>1. PICK pc \in {"load", "gone"} : forward' = [pc |-> pc, last |-> forward.last, rows |-> <<>>]
      BY <2>10 DEF FrameFails, ResumeAt
    <3>. QED  BY <2>4, <2>10, <3>1 DEF FrameFails
  <2>11. ASSUME NEW c \in Clients, AcceptClient(c) \/ Send(c) \/ HangUp(c) \/ ReadPage(c)
         PROVE  /\ ForwardAgrees' /\ clients' \in [Clients -> ClientStates]
                /\ \A d \in Clients : Follows(clients'[d], watermark', Top')
    <3>1. UNCHANGED <<events, writes>> /\ UNCHANGED <<forward, watermark>>
      BY <2>11 DEF AcceptClient, Send, HangUp, ReadPage
    <3>. QED  BY <1>2, <2>0, <2>3, <2>11, <3>1, ForwardStutter, ClientStep
  <2>12. CASE StopStream
    <3>1. UNCHANGED <<events, writes>> /\ UNCHANGED <<forward, watermark>>  BY <2>12 DEF StopStream
    <3>. QED  BY <1>2, <2>0, <2>3, <2>12, <3>1, ForwardStutter, StopClients
  <2>13. CASE RequestStop  BY <2>2, <2>13 DEF RequestStop
  <2>14. ASSUME NEW w \in Writers, Call(w) \/ Write(w) PROVE UNCHANGED <<forward, watermark, clients>>
    BY <2>14 DEF Call, Write, Insert, Commit, Rollback, feedVars
  <2>15. ASSUME NEW p \in Callers, Scheduling(p) PROVE UNCHANGED <<forward, watermark, clients>>
    BY <2>15 DEF Scheduling, feedVars
  <2>. QED  BY <1>2, <2>2, <2>6, <2>7, <2>8, <2>9, <2>10, <2>11, <2>12, <2>13, <2>14, <2>15
            DEF FeedNext, ForwardStep
<1>. QED  BY <1>1, <1>2

LEMMA FeedInitially == FeedInit => FeedInv
<1>. SUFFICES ASSUME FeedInit PROVE FeedInv  OBVIOUS
<1>1. SchedulerInv  BY SchedulerInitially DEF FeedInit
<1>2. <<>> \in Seq(Nat) /\ Len(<<>>) = 0  BY SMTT(30)
<1>3. ~Inserting /\ Top = 0
  <2>1. \A w \in Writers : writes[w].state = "new"  BY DEF FeedInit
  <2>2. ~Inserting  BY <2>1 DEF Inserting
  <2>. QED  BY <2>2 DEF Top, FeedInit
<1>4. TableAgrees
  <2>1. writes \in [Writers -> [state : {"new", "inserted", "ended"}, id : Nat]]
        /\ \A w \in Writers : writes[w].state # "inserted"
    BY DEF FeedInit
  <2>2. events \in [committed : SUBSET Nat, sequence : Nat] /\ events.committed = {}  BY DEF FeedInit
  <2>3. {} = 1..0  BY SMTT(30)
  <2>. QED  BY <1>3, <2>1, <2>2, <2>3 DEF TableAgrees
<1>5. ForwardAgrees  BY SMTT(30), <1>2, <1>3 DEF FeedInit, ForwardAgrees
<1>6. NoClient \in ClientStates  BY <1>2 DEF NoClient, ClientStates
<1>7. Follows(NoClient, 0, 0)
  <2>1. /\ NoClient.state = "none" /\ NoClient.mark = 0 /\ NoClient.output = <<>> /\ NoClient.got = <<>>
        /\ NoClient.cursor = 0 /\ NoClient.history = <<>> /\ NoClient.more = TRUE
    BY DEF NoClient
  <2>. QED  BY SMTT(30), <1>2, <2>1 DEF Follows
<1>8. clients \in [Clients -> ClientStates] /\ \A c \in Clients : clients[c] = NoClient
  BY <1>6 DEF FeedInit
<1>9. \A c \in Clients : Follows(clients[c], watermark, Top)  BY <1>3, <1>7, <1>8 DEF FeedInit
<1>. QED  BY <1>1, <1>4, <1>5, <1>8, <1>9 DEF FeedInv

-----------------------------------------------------------------------------
\* The frames a client with that mark is due, as a sequence.
LEMMA Frames ==
    ASSUME NEW m \in Nat, NEW w \in Nat, m <= w
    PROVE  /\ << 0 >> \o Interval(m, w) \in Seq(Nat)
           /\ Len(<< 0 >> \o Interval(m, w)) = 1 + (w - m)
           /\ \A k \in 1..(1 + (w - m)) : (<< 0 >> \o Interval(m, w))[k] = FrameAt(m, k)
<1>. DEFINE t == Interval(m, w)
            f == << 0 >> \o t
<1>1. t \in Seq(Nat) /\ Len(t) = w - m /\ \A i \in 1..(w - m) : t[i] = m + i
  <2>1. w - m \in Nat /\ \A i \in 1..(w - m) : m + i \in Nat  BY SMTT(30)
  <2>2. t = [i \in 1..(w - m) |-> m + i]  BY DEF Interval
  <2>. HIDE DEF t
  <2>. QED  BY SMTT(30), <2>1, <2>2
<1>. HIDE DEF t
<1>2. << 0 >> \in Seq(Nat) /\ Len(<< 0 >>) = 1 /\ << 0 >>[1] = 0  BY SMTT(30)
<1>3. f \in Seq(Nat) /\ Len(f) = 1 + (w - m)  BY SMTT(30), <1>1, <1>2
<1>4. ASSUME NEW k \in 1..(1 + (w - m)) PROVE f[k] = FrameAt(m, k)
  <2>1. CASE k = 1  BY SMTT(30), <1>1, <1>2, <2>1 DEF FrameAt
  <2>2. CASE k # 1
    <3>1. k - 1 \in 1..(w - m) /\ k \in Nat /\ k > 1  BY SMTT(30), <2>2
    <3>2. f[k] = t[k - 1]  BY SMTT(30), <1>1, <1>2, <3>1
    <3>. QED  BY <1>1, <2>2, <3>1, <3>2 DEF FrameAt
  <2>. QED  BY <2>1, <2>2
<1>. QED  BY <1>3, <1>4 DEF t

\* A sequence that agrees with another as far as it goes is a prefix of it, and is
\* equal to it when it is as long.
LEMMA PrefixPointwise ==
    ASSUME NEW s \in Seq(Nat), NEW f \in Seq(Nat), Len(s) <= Len(f), \A k \in 1..Len(s) : s[k] = f[k]
    PROVE  IsStartOf(s, f) /\ (Len(s) = Len(f) => s = f)
<1>1. SubSeq(f, 1, Len(s)) \in Seq(Nat)  BY SMTT(30)
<1>2. Len(SubSeq(f, 1, Len(s))) = Len(s)  BY SMTT(30)
<1>3. \A k \in 1..Len(s) : s[k] = SubSeq(f, 1, Len(s))[k]  BY SMTT(30)
<1>4. s = SubSeq(f, 1, Len(s))  BY SMTT(30), <1>1, <1>2, <1>3
<1>5. Len(s) = Len(f) => s = f  BY SMTT(30)
<1>. QED  BY <1>4, <1>5 DEF IsStartOf

LEMMA JoinedPointwise ==
    ASSUME NEW g \in Seq(Nat), NEW o \in Seq(Nat), NEW f \in Seq(Nat), Len(g) + Len(o) = Len(f),
           \A k \in 1..Len(g) : g[k] = f[k], \A k \in 1..Len(o) : o[k] = f[Len(g) + k]
    PROVE  g \o o = f
<1>1. g \o o \in Seq(Nat) /\ Len(g \o o) = Len(f)  BY SMTT(30)
<1>2. ASSUME NEW k \in 1..Len(f) PROVE (g \o o)[k] = f[k]
  <2>1. k \in Nat /\ Len(g) \in Nat /\ Len(o) \in Nat /\ 1 <= k /\ k <= Len(g) + Len(o)  BY SMTT(30)
  <2>2. CASE k <= Len(g)
    <3>1. (g \o o)[k] = g[k]  BY SMTT(30), <2>1, <2>2
    <3>. QED  BY SMTT(30), <2>1, <2>2, <3>1
  <2>3. CASE k > Len(g)
    <3>1. (g \o o)[k] = o[k - Len(g)]  BY SMTT(30), <2>1, <2>3
    <3>2. k - Len(g) \in 1..Len(o) /\ Len(g) + (k - Len(g)) = k  BY SMTT(30), <2>1, <2>3
    <3>3. o[k - Len(g)] = f[Len(g) + (k - Len(g))]  BY <3>2
    <3>. QED  BY <3>1, <3>2, <3>3
  <2>. QED  BY SMTT(30), <2>1, <2>2, <2>3
<1>3. Len(f) \in Nat /\ Len(f) <= Len(f)  BY SMTT(30)
<1>. QED  BY <1>1, <1>2, <1>3, PrefixPointwise

LEMMA CountedFromOne ==
    ASSUME NEW s \in Seq(Nat), \A k \in 1..Len(s) : s[k] = k
    PROVE  s = Interval(0, Len(s))
<1>1. Len(s) \in Nat /\ Len(s) - 0 = Len(s)  BY SMTT(30)
<1>2. Interval(0, Len(s)) = [i \in 1..Len(s) |-> 0 + i]  BY <1>1 DEF Interval
<1>3. \A i \in 1..Len(s) : 0 + i = s[i]  BY SMTT(30), <1>1
<1>4. s = [i \in 1..Len(s) |-> s[i]]  BY SMTT(30)
<1>. QED  BY <1>2, <1>3, <1>4

LEMMA FeedInvSuffices == FeedInv => ReadersMissNothing
<1>. SUFFICES ASSUME FeedInv, NEW c \in Clients
             PROVE  LET client == clients[c]
                        live == client.got \o client.output
                    IN /\ client.state = "open" => live = << 0 >> \o Interval(client.mark, watermark)
                       /\ IsStartOf(live, << 0 >> \o Interval(client.mark, watermark))
                       /\ client.history = Interval(0, Len(client.history))
                       /\ ~client.more => Len(client.history) >= client.mark
  BY DEF ReadersMissNothing
<1>. DEFINE x == clients[c]
            live == x.got \o x.output
            f == << 0 >> \o Interval(x.mark, watermark)
<1>1. x \in ClientStates /\ Follows(x, watermark, Top) /\ watermark \in Nat  BY DEF FeedInv, ForwardAgrees
<1>. HIDE DEF x
<1>2. /\ x.got \in Seq(Nat) /\ x.output \in Seq(Nat) /\ x.history \in Seq(Nat) /\ x.mark \in Nat
      /\ Len(x.got) \in Nat /\ Len(x.output) \in Nat /\ Len(x.history) \in Nat
  BY SMTT(30), <1>1 DEF ClientStates
<1>3. /\ f \in Seq(Nat) /\ Len(f) \in Nat /\ Len(f) = 1 + (watermark - x.mark)
      /\ \A k \in 1..Len(f) : f[k] = FrameAt(x.mark, k)
  <2>1. x.mark <= watermark  BY <1>1 DEF Follows
  <2>2. /\ f \in Seq(Nat) /\ Len(f) = 1 + (watermark - x.mark)
        /\ \A k \in 1..(1 + (watermark - x.mark)) : f[k] = FrameAt(x.mark, k)
    BY <1>1, <1>2, <2>1, Frames
  <2>. HIDE DEF f
  <2>. QED  BY SMTT(30), <2>2
<1>. HIDE DEF f
<1>. HIDE DEF live
<1>4. (x.state = "open" => live = f) /\ IsStartOf(live, f)
  <2>1. CASE x.state = "open"
    <3>1. Len(x.got) + Len(x.output) = Len(f)  BY <1>1, <1>3, <2>1 DEF Follows
    <3>2. ASSUME NEW k \in 1..Len(x.got) PROVE x.got[k] = f[k]
      <4>1. \A a, b, n \in Nat : \A j \in 1..a : a + b = n => j \in 1..n  BY SMTT(30)
      <4>2. k \in 1..Len(f)  BY <1>2, <1>3, <3>1, <4>1
      <4>. QED  BY <1>1, <1>3, <4>2 DEF Follows
    <3>3. ASSUME NEW k \in 1..Len(x.output) PROVE x.output[k] = f[Len(x.got) + k]
      <4>1. \A a, b, n \in Nat : \A j \in 1..b : a + b = n => a + j \in 1..n  BY SMTT(30)
      <4>2. Len(x.got) + k \in 1..Len(f)  BY <1>2, <1>3, <3>1, <4>1
      <4>. QED  BY <1>1, <1>3, <2>1, <4>2 DEF Follows
    <3>4. x.got \o x.output = f  BY <1>2, <1>3, <3>1, <3>2, <3>3, JoinedPointwise
    <3>5. \A k \in 1..Len(f) : f[k] = f[k]  OBVIOUS
    <3>6. Len(f) \in Nat /\ Len(f) <= Len(f)  BY SMTT(30), <1>3
    <3>7. IsStartOf(f, f)  BY <1>3, <3>5, <3>6, PrefixPointwise
    <3>. QED  BY <3>4, <3>7 DEF live
  <2>2. CASE x.state # "open"
    <3>1. x.output = <<>> /\ Len(x.got) <= 1 + (watermark - x.mark)  BY <1>1, <2>2 DEF Follows
    <3>2. live = x.got  BY SMTT(30), <1>2, <3>1 DEF live
    <3>3. ASSUME NEW k \in 1..Len(x.got) PROVE x.got[k] = f[k]
      <4>1. k \in 1..Len(f)  BY SMTT(30), <1>2, <1>3, <3>1
      <4>. QED  BY <1>1, <1>3, <4>1 DEF Follows
    <3>4. Len(x.got) <= Len(f)  BY <1>3, <3>1
    <3>5. IsStartOf(x.got, f)  BY <1>2, <1>3, <3>3, <3>4, PrefixPointwise
    <3>. QED  BY <2>2, <3>2, <3>5
  <2>. QED  BY <2>1, <2>2
<1>6. x.history = Interval(0, Len(x.history))
  <2>1. \A k \in 1..Len(x.history) : x.history[k] = k  BY <1>1 DEF Follows
  <2>. QED  BY <1>2, <2>1, CountedFromOne
<1>7. ~x.more => Len(x.history) >= x.mark  BY <1>1 DEF Follows
<1>. QED  BY <1>4, <1>6, <1>7 DEF x, f, live

\* committed_event_loop, EventStream and GET /v1/events: whatever ids are rolled back and
\* used again, whichever batches fail and whichever clients are slow, a client gets every
\* event after its mark in order and the pages have all up to the mark.
THEOREM ReadersMissNothingAlways == FeedSpec => []ReadersMissNothing
<1>. QED  BY FeedInitially, FeedStep, FeedInvSuffices, PTL DEF FeedSpec

-----------------------------------------------------------------------------
(***************************************************************************)
(* The notification hook.                                                  *)
(***************************************************************************)

LEMMA HookInitInv == HookInit => HookInv
BY SMTT(30) DEF HookInit, HookInv, HookTypeOK, HookStates, HookRunsAlone, ResultIsTrue, DeliveredMeansDone,
   IdleHook, RowsIn, NoBlock

LEMMA HookStepInv == HookInv /\ [HookNext]_hookVars => HookInv'
<1> SUFFICES ASSUME HookInv, [HookNext]_hookVars PROVE HookInv'
    OBVIOUS
<1> USE DEF HookInv, HookTypeOK, HookStates, HookRunsAlone, ResultIsTrue, DeliveredMeansDone,
            RowsIn, IdleHook, NoBlock
<1>1. ASSUME NEW b \in Blocks, AcceptBlock(b) PROVE HookInv'
    BY <1>1 DEF AcceptBlock
<1>2. ASSUME NEW b \in Blocks, DelayIsOver(b) PROVE HookInv'
    BY SMTT(30), <1>2 DEF DelayIsOver
<1>3. ASSUME NEW b \in Blocks, ClaimRow(b) PROVE HookInv'
    <2>1. /\ rows[b].attempts \in Nat
          /\ \A n \in Nat : (IF n > LastDelay THEN n ELSE n + 1) \in Nat
        BY SMTT(30), HookAssumption
    <2>2. PICK n \in Nat : rows' = [rows EXCEPT ![b].state = "running", ![b].attempts = n]
        BY <1>3, <2>1 DEF ClaimRow
    <2>3. HookTypeOK'
        <3>1. rows' \in [Blocks -> [state : {"none", "pending", "due", "running", "retry_wait", "delivered"},
                                    attempts : Nat]]
            BY <2>2
        <3> QED BY <1>3, <3>1 DEF ClaimRow
    <2>4. \A c \in Blocks : rows'[c].state = "delivered" => rows[c].state = "delivered"
        BY SMTT(30), <2>2
    <2> QED BY SMTT(30), <1>3, <2>3, <2>4 DEF ClaimRow
<1>4. CASE ClaimNothing
    BY <1>4 DEF ClaimNothing
<1>5. CASE EndPause
    BY <1>5 DEF EndPause
<1>6. ASSUME NEW ok \in BOOLEAN, Launch(ok) PROVE HookInv'
    <2>1. CASE ok
        BY <1>6, <2>1 DEF Launch
    <2>2. CASE ~ok
        BY <1>6, <2>2 DEF Launch
    <2> QED BY <2>1, <2>2
<1>7. CASE Spawn
    BY <1>7 DEF Spawn
<1>8. ASSUME NEW how \in {"exit0", "other"}, LeaderEnds(how) PROVE HookInv'
    <2>1. CASE how = "exit0" /\ hook.pc = "watch"
        <3>1. hook' = [hook EXCEPT !.leader = "exit0"] /\ rows' = rows /\ succeeded' = succeeded \cup {hook.row}
            BY <1>8, <2>1 DEF LeaderEnds
        <3>2. hook.row \in Blocks
            BY <2>1
        <3> QED BY <2>1, <3>1, <3>2
    <2>2. CASE ~(how = "exit0" /\ hook.pc = "watch")
        <3>1. hook' = [hook EXCEPT !.leader = how] /\ rows' = rows /\ succeeded' = succeeded
            BY <1>8, <2>2 DEF LeaderEnds
        <3>2. hook.pc \in {"watch", "grace"}
            BY <1>8 DEF LeaderEnds
        <3> QED BY <2>2, <3>1, <3>2
    <2> QED BY <2>1, <2>2
<1>9. CASE ReapLeader
    BY <1>9 DEF ReapLeader
<1>10. ASSUME NEW othersEnd \in BOOLEAN, Deadline(othersEnd) PROVE HookInv'
    BY <1>10 DEF Deadline
<1>11. CASE GraceIsOver
    BY <1>11 DEF GraceIsOver
<1>12. CASE Sweep
    BY <1>12 DEF Sweep, OthersAfterSweep, IsDelivered
<1>13. CASE FinishRow
    BY <1>13 DEF FinishRow
<1>14. ASSUME NEW crash \in BOOLEAN, RestartServer(crash) PROVE HookInv'
    BY <1>14 DEF RestartServer, RecoveredRows
<1>15. CASE UNCHANGED hookVars
    BY <1>15 DEF hookVars
<1> QED
    BY <1>1, <1>2, <1>3, <1>4, <1>5, <1>6, <1>7, <1>8, <1>9, <1>10, <1>11, <1>12, <1>13, <1>14, <1>15
    DEF HookNext, Supervise

\* No two hooks of one life of the server overlap, none outlives its execution, and a
\* delivery is recorded as delivered only if its hook exited with 0 in time.
THEOREM HooksCorrect == HookSpec => []HooksAreSupervised
<1>1. HookInv => HooksAreSupervised
    BY DEF HookInv, HooksAreSupervised
<1> QED BY <1>1, HookInitInv, HookStepInv, PTL DEF HookSpec

-----------------------------------------------------------------------------
(***************************************************************************)
(* The generator of random numbers.                                        *)
(***************************************************************************)

LEMMA Limits ==
    /\ ReseedInterval \in Nat /\ MaxReseedAge \in Nat /\ MaxGenerateCalls \in Nat /\ MaxDelay \in Nat
    /\ ReseedInterval > 0 /\ MaxReseedAge > 0 /\ MaxGenerateCalls > 0 /\ MaxDelay > 0
BY SMTT(30), EntropyAssumption

\* Whatever try_timed_reseed_locked does to a generator: it is as good as new, which takes
\* a working source, or keeps age, calls and owner.
LEMMA TimedReseedResult ==
    ASSUME EntropyTypeOK,
           NEW d \in Generators
    PROVE  /\ AfterTimedReseed(d) \in Generators
           /\ os /\ TimedReseedIsDue(d) => AfterTimedReseed(d) = FreshGenerator
           /\ ~(os /\ TimedReseedIsDue(d)) =>
                 /\ AfterTimedReseed(d).age = d.age
                 /\ AfterTimedReseed(d).calls = d.calls
                 /\ AfterTimedReseed(d).mine = d.mine
<1>1. FreshGenerator \in Generators
    BY SMTT(30), Limits DEF FreshGenerator, Generators
<1>2. BackedOff(d) \in Generators
    <2> DEFINE doubled == IF 2 * d.delay < MaxDelay THEN 2 * d.delay ELSE MaxDelay
    <2>1. d.delay \in Nat /\ d = [d EXCEPT !.delay = @]
        BY DEF Generators
    <2>2. doubled \in Nat
        BY SMTT(30), <2>1, Limits
    <2>3. BackedOff(d) = [d EXCEPT !.degraded = TRUE, !.retry = d.delay, !.delay = doubled]
        BY DEF BackedOff
    <2> HIDE DEF doubled
    <2> QED BY <2>1, <2>2, <2>3 DEF Generators
<1>3. BackedOff(d).age = d.age /\ BackedOff(d).calls = d.calls /\ BackedOff(d).mine = d.mine
    BY DEF BackedOff, Generators
<1> QED BY <1>1, <1>2, <1>3 DEF EntropyTypeOK, AfterTimedReseed

\* A new generator is due for no timed reseed.
LEMMA FreshIsNotDue == ~TimedReseedIsDue(FreshGenerator)
BY SMTT(30), Limits DEF TimedReseedIsDue, FreshGenerator

LEMMA EntropyInitInv == EntropyInit => EntropyInv
BY SMTT(30), Limits DEF EntropyInit, EntropyInv, EntropyTypeOK, Generators, Samples, CountersAreTrue, OutputsAreFresh,
   FreshGenerator, FreshSample

\* After a successful reseed.
LEMMA FreshInv ==
    EntropyInv /\ drbg' = FreshGenerator /\ sample' = FreshSample /\ os' = os => EntropyInv'
BY SMTT(30), Limits DEF EntropyInv, EntropyTypeOK, Generators, Samples, CountersAreTrue, OutputsAreFresh,
   FreshGenerator, FreshSample

LEMMA EntropyStepInv == EntropyInv /\ [EntropyNext]_entropyVars => EntropyInv'
<1> SUFFICES ASSUME EntropyInv, [EntropyNext]_entropyVars PROVE EntropyInv'
    OBVIOUS
<1> USE Limits
<1>1. CASE Generate
    <2> DEFINE before == IF MustReseed THEN FreshGenerator ELSE drbg
               d == AfterTimedReseed(before)
               read == os /\ (MustReseed \/ TimedReseedIsDue(drbg))
               s == IF read THEN FreshSample ELSE sample
    <2>1. before \in Generators
        BY SMTT(30) DEF EntropyInv, EntropyTypeOK, Generators, FreshGenerator
    <2>2. /\ d \in Generators
          /\ os /\ TimedReseedIsDue(before) => d = FreshGenerator
          /\ ~(os /\ TimedReseedIsDue(before)) =>
                d.age = before.age /\ d.calls = before.calls /\ d.mine = before.mine
        BY <2>1, TimedReseedResult DEF EntropyInv
    <2>3. read => d.age = 0 /\ d.calls = 0 /\ d.mine
        <3>1. CASE MustReseed
            BY <3>1, <2>2, FreshIsNotDue DEF FreshGenerator
        <3>2. CASE ~MustReseed /\ read
            BY SMTT(30), <3>2, <2>2 DEF FreshGenerator
        <3> QED BY <3>1, <3>2
    <2>4. ~read => /\ ~MustReseed
                   /\ d.age = drbg.age /\ d.calls = drbg.calls /\ d.mine = drbg.mine
        BY <1>1, <2>2 DEF Generate
    <2>5. /\ s \in Samples
          /\ d.age = s.age /\ s.mine /\ d.mine
          /\ s.outputs <= d.calls /\ d.calls < MaxGenerateCalls
          /\ s.used_at < MaxReseedAge
        <3>1. CASE read
            BY SMTT(30), <3>1, <2>3 DEF FreshSample, Samples
        <3>2. CASE ~read
            BY SMTT(30), <3>2, <2>4 DEF EntropyInv, EntropyTypeOK, Generators, Samples, CountersAreTrue, OutputsAreFresh, MustReseed
        <3> QED BY <3>1, <3>2
    <2>6. /\ drbg' = IF d.age < MaxReseedAge THEN [d EXCEPT !.calls = @ + 1] ELSE d
          /\ sample' = IF d.age < MaxReseedAge
                       THEN [s EXCEPT !.outputs = @ + 1, !.used_at = s.age] ELSE s
          /\ os' = os
        BY <1>1 DEF Generate
    <2> HIDE DEF d, s, read, before
    <2>7. EntropyTypeOK'
        <3>1. [d EXCEPT !.calls = @ + 1] \in Generators
            BY SMTT(30), <2>2 DEF Generators
        <3>2. [s EXCEPT !.outputs = @ + 1, !.used_at = s.age] \in Samples
            <4>1. s.age \in Int /\ s.outputs + 1 \in Nat
                BY SMTT(30), <2>5 DEF Samples
            <4>2. \A n \in Nat, t \in Int : [s EXCEPT !.outputs = n, !.used_at = t] \in Samples
                BY <2>5 DEF Samples
            <4> QED BY <4>1, <4>2
        <3>3. drbg' \in Generators
            BY <3>1, <2>2, <2>6
        <3>4. sample' \in Samples
            BY <3>2, <2>5, <2>6
        <3> QED BY <3>3, <3>4, <2>6 DEF EntropyInv, EntropyTypeOK
    <2>8. CountersAreTrue'
        BY SMTT(30), <2>2, <2>5, <2>6 DEF Generators, Samples, CountersAreTrue
    <2>9. OutputsAreFresh'
        BY SMTT(30), <2>2, <2>5, <2>6 DEF Generators, Samples, OutputsAreFresh
    <2> QED BY <2>7, <2>8, <2>9 DEF EntropyInv
<1>2. CASE Maintain
    <2>1. CASE drbg.mine
        <3>1. drbg' = AfterTimedReseed(drbg) /\ os' = os
            BY <1>2, <2>1 DEF Maintain
        <3>2. sample' = IF os /\ TimedReseedIsDue(drbg) THEN FreshSample ELSE sample
            BY <1>2, <2>1 DEF Maintain
        <3>3. drbg \in Generators
            BY DEF EntropyInv, EntropyTypeOK
        <3>4. CASE os /\ TimedReseedIsDue(drbg)
            <4>1. drbg' = FreshGenerator /\ sample' = FreshSample
                BY <3>1, <3>2, <3>3, <3>4, TimedReseedResult DEF EntropyInv
            <4> QED BY <4>1, <3>1, FreshInv
        <3>5. CASE ~(os /\ TimedReseedIsDue(drbg))
            <4>1. /\ drbg' \in Generators /\ sample' = sample
                  /\ drbg'.age = drbg.age /\ drbg'.calls = drbg.calls /\ drbg'.mine = drbg.mine
                BY <3>1, <3>2, <3>3, <3>5, TimedReseedResult DEF EntropyInv
            <4> QED
                BY <4>1, <3>1 DEF EntropyInv, EntropyTypeOK, CountersAreTrue, OutputsAreFresh
        <3> QED BY <3>4, <3>5
    <2>2. CASE ~drbg.mine /\ os
        BY <1>2, <2>2, FreshInv DEF Maintain
    <2>3. CASE ~drbg.mine /\ ~os
        BY <1>2, <2>3 DEF Maintain, EntropyInv, EntropyTypeOK, CountersAreTrue, OutputsAreFresh
    <2> QED BY <2>1, <2>2, <2>3
<1>3. CASE Fork
    <2>1. EntropyTypeOK'
        <3>1. [drbg EXCEPT !.mine = FALSE] \in Generators
            BY DEF Generators, EntropyInv, EntropyTypeOK
        <3>2. [sample EXCEPT !.mine = FALSE, !.outputs = 0, !.used_at = -1] \in Samples
            <4>1. \A t \in Int : [sample EXCEPT !.mine = FALSE, !.outputs = 0, !.used_at = t] \in Samples
                BY DEF Samples, EntropyInv, EntropyTypeOK
            <4>2. -1 \in Int
                BY SMTT(30)
            <4> QED BY <4>1, <4>2
        <3> QED BY <1>3, <3>1, <3>2 DEF Fork, EntropyInv, EntropyTypeOK
    <2>2. CountersAreTrue'
        BY SMTT(30), <1>3 DEF Fork, EntropyInv, EntropyTypeOK, Generators, Samples, CountersAreTrue
    <2>3. OutputsAreFresh'
        BY SMTT(30), <1>3 DEF Fork, EntropyInv, EntropyTypeOK, Samples, OutputsAreFresh
    <2> QED BY <2>1, <2>2, <2>3 DEF EntropyInv
<1>4. CASE SecondPasses
    <2>1. EntropyTypeOK'
        <3> DEFINE older(x) == IF x < MaxReseedAge THEN x + 1 ELSE x
                   sooner(x) == IF x > 0 THEN x - 1 ELSE 0
        <3>1. drbg.age \in 0..MaxReseedAge /\ sample.age \in 0..MaxReseedAge /\ drbg.retry \in Nat
            BY DEF EntropyInv, EntropyTypeOK, Generators, Samples
        <3>2. /\ older(drbg.age) \in 0..MaxReseedAge /\ older(sample.age) \in 0..MaxReseedAge
              /\ sooner(drbg.retry) \in Nat
            BY SMTT(30), <3>1
        <3>3. /\ drbg' = [drbg EXCEPT !.age = older(drbg.age), !.retry = sooner(drbg.retry)]
              /\ sample' = [sample EXCEPT !.age = older(sample.age)]
              /\ os' = os
            BY <1>4 DEF SecondPasses
        <3> HIDE DEF older, sooner
        <3>4. drbg' \in Generators
            BY <3>2, <3>3 DEF EntropyInv, EntropyTypeOK, Generators
        <3>5. sample' \in Samples
            BY <3>2, <3>3 DEF EntropyInv, EntropyTypeOK, Samples
        <3> QED BY <3>3, <3>4, <3>5 DEF EntropyInv, EntropyTypeOK
    <2>2. CountersAreTrue'
        BY <1>4 DEF SecondPasses, EntropyInv, EntropyTypeOK, Generators, Samples, CountersAreTrue
    <2>3. OutputsAreFresh'
        BY <1>4 DEF SecondPasses, EntropyInv, EntropyTypeOK, Samples, OutputsAreFresh
    <2> QED BY <2>1, <2>2, <2>3 DEF EntropyInv
<1>5. CASE SourceChanges
    <2>1. EntropyTypeOK'
        BY <1>5 DEF SourceChanges, EntropyInv, EntropyTypeOK, Generators
    <2>2. CountersAreTrue'
        BY <1>5 DEF SourceChanges, EntropyInv, EntropyTypeOK, Generators, Samples, CountersAreTrue
    <2>3. OutputsAreFresh'
        BY <1>5 DEF SourceChanges, EntropyInv, EntropyTypeOK, Samples, OutputsAreFresh
    <2> QED BY <2>1, <2>2, <2>3 DEF EntropyInv
<1>6. CASE UNCHANGED entropyVars
    BY <1>6 DEF entropyVars, EntropyInv, EntropyTypeOK, CountersAreTrue, OutputsAreFresh
<1> QED BY <1>1, <1>2, <1>3, <1>4, <1>5, <1>6 DEF EntropyNext

\* No job id or template entropy is made of a sample that is too old, was inherited over
\* a fork or has served its outputs, whatever the operating system's source does.
THEOREM EntropyCorrect == EntropySpec => []OutputsAreFresh
<1>1. EntropyInv => OutputsAreFresh
    BY DEF EntropyInv
<1> QED BY <1>1, EntropyInitInv, EntropyStepInv, PTL DEF EntropySpec

-----------------------------------------------------------------------------
(***************************************************************************)
(* The defense engine: a ban is enforced until it is over.                 *)
(*                                                                         *)
(* A ban gets an entry or the fail-closed interval, either to its end.     *)
(* Only a peer that is not denied is banned, so an entry is replaced and   *)
(* the interval set only when they are over.                               *)
(***************************************************************************)
LEMMA LimitFacts ==
    BanSeconds \in Nat /\ MaxTime \in Nat /\ LastExpiry \in Nat /\ 0 \in 0..LastExpiry
<1>1. BanSeconds \in Nat /\ MaxTime \in Nat
  BY DefenseAssumption
<1> QED BY SMTT(30), <1>1 DEF LastExpiry

\* A set of expiries has a last one.
LEMMA LastIsMax ==
    ASSUME NEW S \in SUBSET (0..LastExpiry), S # {}
    PROVE  Max(S) \in S /\ \A y \in S : Max(S) >= y
<1> DEFINE T == {LastExpiry - x : x \in S}
<1>0. \A x \in S : LastExpiry - x \in Nat
  BY SMTT(30), LimitFacts
<1>1. T \in SUBSET Nat /\ T # {}
  BY <1>0
<1>2. PICK s \in T : \A t \in T : ~(<<t, s>> \in OpToRel(<, Nat))
  BY <1>1, NatLessThanWellFounded, WFMin
<1>3. PICK x \in S : s = LastExpiry - x
  BY <1>2
<1>4. ASSUME NEW y \in S PROVE x >= y
  <2>1. LastExpiry - y \in T /\ s \in Nat /\ LastExpiry - y \in Nat
    BY <1>1
  <2>2. ~(LastExpiry - y < s)
    BY <1>2, <2>1 DEF OpToRel
  <2> QED BY SMTT(30), <1>3, <2>2, LimitFacts
<1> QED BY <1>4 DEF Max

\* A call that bans nobody only drops what is over.
LEMMA NoBanKeeps ==
    ASSUME BansInv, NoBan, UNCHANGED now
    PROVE  BansInv'
<1>0. now \in Nat
  BY SMTT(30) DEF BansInv
<1>1. bans' \in [Peers -> Nat] /\ overflow' \in Nat
  BY DEF BansInv, NoBan, LiveBans, LiveOverflow
<1>2. ASSUME NEW p \in Peers, NEW e \in 0..LastExpiry, e > now, Covered(p, e) PROVE Covered(p, e)'
  BY SMTT(30), <1>0, <1>2 DEF BansInv, Covered, NoBan, LiveBans, LiveOverflow
<1>3. UNCHANGED <<persisting, ban_rows, announced, now>>
  BY DEF NoBan, tables
<1>4. \A b \in persisting : b.peer \in Peers /\ b.expires \in 0..LastExpiry
  BY DEF BansInv
<1>5. \A p \in Peers : ban_rows[p] \in 0..LastExpiry /\ announced[p] \in 0..LastExpiry
  BY DEF BansInv
<1> QED BY <1>1, <1>2, <1>3, <1>4, <1>5 DEF BansInv

LEMMA BanKeeps ==
    ASSUME BansInv, NEW p \in Peers, NEW reason \in {"rate_hammer"} \cup AbuseKinds, ~Denied(p),
           Ban(p, reason), UNCHANGED now
    PROVE  BansInv'
<1> DEFINE new == [peer |-> p, expires |-> Expiry, reason |-> reason]
<1>0. now \in Nat /\ Expiry \in 0..LastExpiry /\ Expiry \in Nat /\ Expiry >= now
  BY SMTT(30), LimitFacts DEF BansInv, Expiry, LastExpiry
<1>1. overflow <= now /\ bans[p] <= now
  BY SMTT(30), <1>0 DEF BansInv, Denied, LiveBans, LiveOverflow
<1>2. LiveBans \in [Peers -> Nat] /\ LiveOverflow \in Nat
  BY DEF BansInv, LiveBans, LiveOverflow
<1>3. ASSUME NEW q \in Peers, NEW e \in 0..LastExpiry, e > now, Covered(q, e) PROVE Covered(q, e)'
  <2>1. q # p /\ bans[q] >= e
    BY SMTT(30), <1>0, <1>1, <1>3 DEF BansInv, Covered
  <2>2. LiveBans[q] = bans[q]
    BY SMTT(30), <1>0, <1>3, <2>1 DEF BansInv, LiveBans
  <2>3. bans'[q] = LiveBans[q]
    BY <1>2, <2>1 DEF Ban
  <2> QED BY <2>1, <2>2, <2>3 DEF Covered
<1>4. /\ bans' \in [Peers -> Nat] /\ overflow' \in Nat
      /\ bans'[p] = Expiry \/ overflow' = Expiry
  BY <1>0, <1>2 DEF Ban, OverflowOfFullTable
<1>5. persisting' = persisting \cup {new} /\ UNCHANGED <<ban_rows, now>>
  BY DEF Ban
<1>6. \A b \in persisting : b.peer \in Peers /\ b.expires \in 0..LastExpiry
  BY DEF BansInv
<1>7. \A q \in Peers : ban_rows[q] \in 0..LastExpiry /\ announced[q] \in 0..LastExpiry
  BY DEF BansInv
<1>8. new \in [peer : Peers, expires : 0..LastExpiry, reason : {"rate_hammer"} \cup AbuseKinds]
  BY <1>0
<1>9. new.peer = p /\ new.expires = Expiry
  OBVIOUS
<1>10. \A b \in persisting' : b.expires > now' => Covered(b.peer, b.expires)'
  <2>1. bans'[new.peer] >= new.expires \/ overflow' >= new.expires
    BY SMTT(30), <1>0, <1>4, <1>9
  <2> HIDE DEF new
  <2>2. ASSUME NEW b \in persisting, b.expires > now PROVE Covered(b.peer, b.expires)'
    BY <1>3, <1>6, <2>2 DEF BansInv
  <2> QED BY <1>5, <2>1, <2>2 DEF Covered
<1>11. /\ announced' \in [Peers -> 0..LastExpiry] /\ announced'[p] = Expiry
       /\ \A q \in Peers \ {p} : announced'[q] = announced[q]
  BY <1>0 DEF Ban, BansInv
<1>12. ASSUME NEW q \in Peers, announced'[q] > now' PROVE Covered(q, announced[q])'
  <2>1. CASE q = p
    BY SMTT(30), <1>0, <1>4, <1>11, <2>1 DEF Covered
  <2>2. CASE q # p
    <3>1. announced'[q] = announced[q] /\ announced[q] > now /\ Covered(q, announced[q])
      BY <1>5, <1>11, <1>12, <2>2 DEF BansInv
    <3> QED BY <1>3, <1>7, <3>1 DEF Covered
  <2> QED BY <2>1, <2>2
<1>13. \A q \in Peers : ban_rows'[q] > now' => Covered(q, ban_rows[q])'
  BY <1>3, <1>5, <1>7 DEF BansInv, Covered
<1> HIDE DEF new
<1> QED BY <1>4, <1>5, <1>8, <1>10, <1>11, <1>12, <1>13 DEF BansInv

LEMMA RestartKeepsBans ==
    ASSUME BansInv, Restart
    PROVE  BansInv'
<1>0. now \in Nat
  BY SMTT(30) DEF BansInv
<1>1. LiveRows \in [Peers -> 0..LastExpiry]
  BY LimitFacts DEF BansInv, LiveRows
<1> DEFINE live == {p \in Peers : LiveRows[p] # 0}
<1>2. PICK placed \in SUBSET live :
         /\ bans' = [p \in Peers |-> IF p \in placed THEN LiveRows[p] ELSE 0]
         /\ overflow' = RestoredOverflow(live \ placed)
  BY DEF Restart
<1> DEFINE rest == live \ placed
           ends == {LiveRows[p] : p \in rest}
<1>3. ends \in SUBSET (0..LastExpiry)
  BY <1>1
<1>4. overflow' \in Nat /\ \A p \in rest : overflow' >= LiveRows[p]
  <2>1. CASE rest = {}
    BY <1>2, <2>1 DEF RestoredOverflow
  <2>2. CASE rest # {}
    <3>1. ends # {} /\ overflow' = Max(ends)
      BY <1>2, <2>2 DEF RestoredOverflow
    <3>2. overflow' \in ends /\ \A y \in ends : overflow' >= y
      BY <1>3, <3>1, LastIsMax
    <3>3. overflow' \in Nat
      BY SMTT(30), <1>3, <3>2
    <3> QED BY <3>2, <3>3
  <2> QED BY <2>1, <2>2
<1>5. bans' \in [Peers -> Nat]
  BY SMTT(30), <1>1, <1>2
<1>6. persisting' = {} /\ ban_rows' = LiveRows /\ announced' = ban_rows' /\ now' = now
  BY DEF Restart
<1>7. ASSUME NEW p \in Peers, ban_rows'[p] > now' PROVE Covered(p, ban_rows[p])'
  <2>1. LiveRows[p] \in Nat /\ LiveRows[p] # 0
    BY SMTT(30), <1>0, <1>1, <1>6, <1>7
  <2>2. CASE p \in placed
    BY SMTT(30), <1>2, <1>6, <2>1, <2>2 DEF Covered
  <2>3. CASE p \in rest
    BY <1>4, <1>6, <2>3 DEF Covered
  <2> QED BY <2>1, <2>2, <2>3
<1>8. \A p \in Peers : announced'[p] > now' => Covered(p, announced[p])'
  BY <1>6, <1>7 DEF Covered
<1> QED BY <1>1, <1>4, <1>5, <1>6, <1>7, <1>8 DEF BansInv

LEMMA TableKeepsBans ==
    ASSUME BansInv, ExpireBans \/ Tick \/ \E b \in persisting : Persist(b)
    PROVE  BansInv'
<1>0. now \in Nat
  BY SMTT(30) DEF BansInv
<1>1. CASE ExpireBans
  <2>1. LiveRows \in [Peers -> 0..LastExpiry]
    BY LimitFacts DEF BansInv, LiveRows
  <2>2. ban_rows' = LiveRows /\ UNCHANGED <<now, bans, overflow, persisting, announced>>
    BY <1>1 DEF ExpireBans
  <2>3. ASSUME NEW p \in Peers, ban_rows'[p] > now' PROVE ban_rows'[p] = ban_rows[p]
    BY SMTT(30), <1>0, <2>2, <2>3 DEF LiveRows
  <2> QED BY <2>1, <2>2, <2>3 DEF BansInv, Covered
<1>2. CASE Tick
  <2>1. now' \in 0..MaxTime /\ now' = now + 1 /\ UNCHANGED <<bans, overflow, persisting, ban_rows>>
    BY SMTT(30), <1>2, LimitFacts DEF Tick, BansInv
  <2>2. \A e \in 0..LastExpiry : e > now' => e > now
    BY SMTT(30), <1>0, <2>1, LimitFacts
  <2>3. announced' = [p \in Peers |-> IF announced[p] <= now' THEN 0 ELSE announced[p]]
    BY <1>2, <2>1 DEF Tick
  <2>4. announced' \in [Peers -> 0..LastExpiry]
    BY <2>3, LimitFacts DEF BansInv
  <2>5. ~(0 > now')
    BY SMTT(30), <1>0, <2>1
  <2>6. ASSUME NEW p \in Peers, announced'[p] > now' PROVE announced'[p] = announced[p]
    BY <2>3, <2>5, <2>6
  <2>7. \A p \in Peers : announced'[p] > now' => Covered(p, announced[p])'
    BY <2>1, <2>2, <2>4, <2>6 DEF BansInv, Covered
  <2> QED BY <2>1, <2>2, <2>4, <2>7 DEF BansInv, Covered
<1>3. ASSUME NEW b \in persisting, Persist(b) PROVE BansInv'
  <2>1. b.peer \in Peers /\ b.expires \in 0..LastExpiry
    BY DEF BansInv
  <2>2. UNCHANGED <<now, bans, overflow, announced>> /\ persisting' \subseteq persisting
    BY <1>3 DEF Persist
  <2>3. ban_rows' \in [Peers -> 0..LastExpiry]
    BY <1>3, <2>1 DEF Persist, BansInv
  <2>4. \A p \in Peers : ban_rows'[p] = ban_rows[p] \/ (p = b.peer /\ ban_rows'[p] = b.expires)
    BY <1>3, <2>1 DEF Persist, BansInv
  <2> QED BY <2>1, <2>2, <2>3, <2>4 DEF BansInv, Covered
<1> QED BY <1>1, <1>2, <1>3

LEMMA BansInit == Init => BansInv
<1> SUFFICES ASSUME Init PROVE BansInv
  OBVIOUS
<1>1. 0 \in 0..MaxTime /\ 0 \in Nat /\ ~(0 > 0)
  BY SMTT(30), LimitFacts
<1> QED BY <1>1, LimitFacts DEF Init, BansInv

LEMMA BansStep == BansInv /\ [Next]_vars => BansInv'
<1> SUFFICES ASSUME BansInv, [Next]_vars PROVE BansInv'
  OBVIOUS
<1>1. ASSUME NEW p \in Peers, PeerCall(p) PROVE BansInv'
  <2>1. CASE CandidateFinished(p)
    BY <2>1 DEF CandidateFinished, tables, BansInv, Covered
  <2>2. CASE \E k \in RateKinds : AdmitRate(p, k)
    <3>1. UNCHANGED now /\ (NoBan \/ (~Denied(p) /\ Ban(p, "rate_hammer")))
      BY <2>2 DEF AdmitRate, Refuse, Refused
    <3> QED BY <3>1, NoBanKeeps, BanKeeps
  <2>3. CASE \E tokens \in BOOLEAN : AdmitCandidate(p, tokens)
    <3>1. UNCHANGED now /\ (NoBan \/ (~Denied(p) /\ Ban(p, "rate_hammer")))
      BY <2>3 DEF AdmitCandidate, Refuse, Refused
    <3> QED BY <3>1, NoBanKeeps, BanKeeps
  <2>4. ASSUME NEW a \in AbuseKinds, Record(p, a) PROVE BansInv'
    <3>1. UNCHANGED now /\ (NoBan \/ (~Denied(p) /\ Ban(p, a)))
      BY <2>4 DEF Record, Refuse, Refused
    <3> QED BY <3>1, NoBanKeeps, BanKeeps
  <2> QED BY <1>1, <2>1, <2>2, <2>3, <2>4 DEF PeerCall
<1>2. CASE Expire
  BY <1>2, NoBanKeeps DEF Expire
<1>3. CASE UNCHANGED vars
  BY <1>3 DEF vars, BansInv, Covered
<1> QED BY <1>1, <1>2, <1>3, RestartKeepsBans, TableKeepsBans DEF Next

\* A peer that insert_ban_locked banned is turned away until the ban is over or the process
\* ends, by its entry or by the fail-closed interval, whatever its callback did to the table;
\* a peer whose ban has a row is turned away until that row's expiry after every restart,
\* also when the restored table had no place for it.
THEOREM BansAreEnforced == Spec => []ActiveBanIsEnforced
<1>1. BansInv => ActiveBanIsEnforced
  <2> SUFFICES ASSUME BansInv PROVE ActiveBanIsEnforced
    OBVIOUS
  <2>0. now \in Nat /\ \A e \in 0..LastExpiry : e \in Nat
    BY SMTT(30) DEF BansInv
  <2>1. ASSUME NEW p \in Peers, NEW e \in 0..LastExpiry, e > now, Covered(p, e) PROVE Denied(p)
    BY SMTT(30), <2>0, <2>1 DEF BansInv, Covered, Denied, LiveBans, LiveOverflow
  <2> QED BY <2>1 DEF BansInv, ActiveBanIsEnforced
<1> QED BY <1>1, BansInit, BansStep, PTL DEF Spec

===============================================================================
