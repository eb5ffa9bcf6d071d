----------------------------- MODULE ServerProofs -----------------------------
(***************************************************************************)
(* Proofs about the threads of the server, for any number of them: that a  *)
(* clean stop loses nothing, and that the HTTP server counts its           *)
(* connections exactly.                                                    *)
(***************************************************************************)
EXTENDS ServerInv, FiniteSetTheorems, TLAPS

\* Leaves that need arithmetic or extensionality name SMT; the others are for Zenon.
USE ZenonT(30), SMTT(30)

\* The threads that post() counts, before and after one of them moves.
LEMMA CountUp ==
    ASSUME NEW S, NEW T, NEW t, IsFiniteSet(S), t \notin S, T = S \cup {t}
    PROVE  /\ IsFiniteSet(T) /\ Cardinality(T) = Cardinality(S) + 1
           /\ Cardinality(S) \in Nat
BY FS_AddElement, FS_CardinalityType

LEMMA CountDown ==
    ASSUME NEW S, NEW T, NEW t, IsFiniteSet(S), t \in S, T = S \ {t}
    PROVE  /\ IsFiniteSet(T) /\ Cardinality(T) = Cardinality(S) - 1
           /\ Cardinality(S) \in Nat /\ Cardinality(S) > 0
<1>1. IsFiniteSet(T) /\ Cardinality(T) = Cardinality(S) - 1
    BY FS_RemoveElement
<1>2. Cardinality(S) \in Nat /\ Cardinality(T) \in Nat
    BY <1>1, FS_CardinalityType
<1> QED BY SMTT(30), <1>1, <1>2

LEMMA ThreadsFinite == ASSUME NEW S \in SUBSET Threads PROVE IsFiniteSet(S)
BY FS_Subset, DaemonAssumption

LEMMA CounterFields ==
    ASSUME NEW r \in Counters
    PROVE  r.inflight \in Nat /\ r.waiting \in Nat /\ r.priority_waiting \in Nat
BY DEF Counters

LEMMA DaemonInitInv == DaemonInit => DaemonInv
<1> SUFFICES ASSUME DaemonInit PROVE DaemonInv
    OBVIOUS
<1>1. DaemonTypeOK
    BY DEF DaemonInit, DaemonTypeOK, RequestStates, Counters
<1>2. OnWire = {} /\ InQueue = {} /\ UrgentInQueue = {}
    BY DEF DaemonInit, OnWire, InQueue, UrgentInQueue, In
<1> QED
    BY SMTT(30), <1>1, <1>2, FS_EmptySet, DaemonAssumption
    DEF DaemonInit, DaemonInv, SlotsAreExact, OnWire, InQueue, UrgentInQueue

\* A thread's own step leaves all other threads where they are, or wakes them.
LEMMA CountsKept ==
    ASSUME DaemonInv, DaemonTypeOK',
           OnWire' = OnWire, InQueue' = InQueue,
           scheduler'.inflight = scheduler.inflight, scheduler'.waiting = scheduler.waiting,
           scheduler'.priority_waiting = scheduler.priority_waiting
    PROVE  DaemonInv'
<1>1. UrgentInQueue' = UrgentInQueue
    BY DEF InQueue, UrgentInQueue
<1> QED BY <1>1 DEF DaemonInv, SlotsAreExact, OnWire, InQueue, UrgentInQueue

LEMMA AskKeeps == ASSUME DaemonInv, NEW t \in Threads, AskForSlot(t) PROVE DaemonInv'
<1> USE DEF DaemonInv, DaemonTypeOK
<1>1. CASE rpcs' = [rpcs EXCEPT ![t] = "refused"] /\ UNCHANGED scheduler
    <2>1. DaemonTypeOK'
        BY <1>1 DEF RequestStates
    <2>2. OnWire' = OnWire /\ InQueue' = InQueue
        BY <1>1 DEF OnWire, InQueue, In, AskForSlot
    <2> QED BY <1>1, <2>1, <2>2, CountsKept
<1>2. CASE /\ rpcs' = [rpcs EXCEPT ![t] = "waiting"]
           /\ scheduler' = [scheduler EXCEPT !.waiting = @ + 1, !.priority_waiting = @ + One(t)]
    <2>0. One(t) \in {0, 1} /\ (One(t) = 1 <=> t \in Urgent)
        BY SMTT(30) DEF One
    <2> DEFINE w == scheduler.waiting + 1
               p == scheduler.priority_waiting + One(t)
    <2>10. w \in Nat /\ p \in Nat
        BY SMTT(30), <2>0, CounterFields
    <2>11. scheduler' = [scheduler EXCEPT !.waiting = w, !.priority_waiting = p]
        BY <1>2
    <2> HIDE DEF w, p
    <2>12. /\ scheduler' \in Counters /\ scheduler'.waiting = w /\ scheduler'.priority_waiting = p
           /\ scheduler'.inflight = scheduler.inflight
        BY <2>10, <2>11 DEF Counters
    <2>1. DaemonTypeOK'
        BY <1>2, <2>12 DEF RequestStates
    <2>2. OnWire' = OnWire /\ InQueue' = InQueue \cup {t} /\ t \notin InQueue
        BY <1>2 DEF OnWire, InQueue, In, AskForSlot
    <2>3. UrgentInQueue' = IF t \in Urgent THEN UrgentInQueue \cup {t} ELSE UrgentInQueue
        BY <2>2 DEF UrgentInQueue, InQueue
    <2>4. IsFiniteSet(InQueue) /\ IsFiniteSet(UrgentInQueue) /\ t \notin UrgentInQueue
        BY <2>2, ThreadsFinite DEF InQueue, UrgentInQueue, In
    <2>5. scheduler'.waiting = Cardinality(InQueue')
        BY <2>12, <2>2, <2>4, CountUp DEF SlotsAreExact, InQueue, w
    <2>6. scheduler'.priority_waiting = Cardinality(UrgentInQueue')
        <3>1. CASE t \in Urgent
            <4>1. Cardinality(UrgentInQueue') = Cardinality(UrgentInQueue) + 1
                BY <2>3, <2>4, <3>1, CountUp
            <4> QED BY <2>12, <2>0, <3>1, <4>1 DEF SlotsAreExact, UrgentInQueue, p
        <3>2. CASE t \notin Urgent
            BY SMTT(30), <2>12, <2>0, <2>3, <3>2, CounterFields DEF SlotsAreExact, UrgentInQueue, p
        <3> QED BY <3>1, <3>2
    <2> QED BY <2>12, <2>1, <2>2, <2>5, <2>6 DEF SlotsAreExact, OnWire, InQueue, UrgentInQueue
<1> QED BY <1>1, <1>2 DEF AskForSlot

\* A thread leaves the queue, for the wire or refused.
LEMMA LeaveQueueCounts ==
    ASSUME DaemonInv, NEW t \in Threads, rpcs[t] = "waiting",
           NEW next \in {"wire", "refused"}, rpcs' = [rpcs EXCEPT ![t] = next]
    PROVE  /\ AfterWait(t).waiting = Cardinality(InQueue')
           /\ AfterWait(t).priority_waiting = Cardinality(UrgentInQueue')
           /\ AfterWait(t) \in Counters
           /\ AfterWait(t).inflight = scheduler.inflight
<1> USE DEF DaemonInv, DaemonTypeOK
<1>0. One(t) \in {0, 1} /\ (One(t) = 1 <=> t \in Urgent)
    BY SMTT(30) DEF One
<1>1. InQueue' = InQueue \ {t} /\ t \in InQueue
    BY DEF InQueue, In
<1>2. UrgentInQueue' = IF t \in Urgent THEN UrgentInQueue \ {t} ELSE UrgentInQueue
    BY <1>1 DEF UrgentInQueue, InQueue
<1>3. IsFiniteSet(InQueue) /\ IsFiniteSet(UrgentInQueue)
    BY ThreadsFinite DEF InQueue, UrgentInQueue, In
<1>4. /\ Cardinality(InQueue') = Cardinality(InQueue) - 1
      /\ Cardinality(InQueue) > 0
    BY <1>1, <1>3, CountDown
<1>5. /\ Cardinality(UrgentInQueue') = Cardinality(UrgentInQueue) - One(t)
      /\ Cardinality(UrgentInQueue) \in Nat /\ Cardinality(UrgentInQueue) >= One(t)
    <2>1. CASE t \in Urgent
        <3>1. t \in UrgentInQueue
            BY <1>1, <2>1 DEF UrgentInQueue, InQueue
        <3>2. /\ Cardinality(UrgentInQueue') = Cardinality(UrgentInQueue) - 1
              /\ Cardinality(UrgentInQueue) \in Nat /\ Cardinality(UrgentInQueue) > 0
            BY <1>2, <1>3, <2>1, <3>1, CountDown
        <3> QED BY SMTT(30), <1>0, <2>1, <3>2
    <2>2. CASE t \notin Urgent
        BY SMTT(30), <1>0, <1>2, <1>3, <2>2, FS_CardinalityType
    <2> QED BY <2>1, <2>2
<1> DEFINE w == scheduler.waiting - 1
           p == scheduler.priority_waiting - One(t)
<1>6. w \in Nat /\ p \in Nat /\ w = Cardinality(InQueue') /\ p = Cardinality(UrgentInQueue')
    BY SMTT(30), <1>0, <1>4, <1>5, CounterFields DEF SlotsAreExact, InQueue, UrgentInQueue
<1>7. AfterWait(t) = [scheduler EXCEPT !.waiting = w, !.priority_waiting = p]
    BY DEF AfterWait
<1> HIDE DEF w, p
<1> QED BY <1>6, <1>7 DEF Counters

LEMMA TakeKeeps == ASSUME DaemonInv, NEW t \in Threads, TakeSlot(t) PROVE DaemonInv'
<1> USE DEF DaemonInv, DaemonTypeOK
<1>1. CASE rpcs' = [rpcs EXCEPT ![t] = "asleep"] /\ UNCHANGED scheduler
    <2>1. DaemonTypeOK'
        BY <1>1 DEF RequestStates
    <2>2. OnWire' = OnWire /\ InQueue' = InQueue
        BY <1>1 DEF OnWire, InQueue, In, TakeSlot
    <2> QED BY <1>1, <2>1, <2>2, CountsKept
<1>2. CASE rpcs' = [rpcs EXCEPT ![t] = "refused"] /\ scheduler' = AfterWait(t)
    <2>1. /\ scheduler'.waiting = Cardinality(InQueue')
          /\ scheduler'.priority_waiting = Cardinality(UrgentInQueue')
          /\ scheduler' \in Counters
          /\ scheduler'.inflight = scheduler.inflight
        BY <1>2, LeaveQueueCounts DEF TakeSlot
    <2>2. rpcs' \in [Threads -> RequestStates]
        BY <1>2 DEF RequestStates
    <2>3. OnWire' = OnWire
        BY <1>2 DEF OnWire, In, TakeSlot
    <2> QED BY <2>1, <2>2, <2>3 DEF SlotsAreExact, OnWire, InQueue, UrgentInQueue
<1>3. CASE /\ rpcs' = [rpcs EXCEPT ![t] = "wire"]
           /\ scheduler' = [AfterWait(t) EXCEPT !.inflight = @ + 1]
           /\ MaySend(t) /\ ~scheduler.stopping
    <2> DEFINE after == AfterWait(t)
    <2>1. /\ after.waiting = Cardinality(InQueue')
          /\ after.priority_waiting = Cardinality(UrgentInQueue')
          /\ after \in Counters
          /\ after.inflight = scheduler.inflight
        BY <1>3, LeaveQueueCounts DEF TakeSlot
    <2> HIDE DEF after
    <2>2. /\ scheduler'.waiting = Cardinality(InQueue')
          /\ scheduler'.priority_waiting = Cardinality(UrgentInQueue')
          /\ scheduler' \in Counters
          /\ scheduler'.inflight = scheduler.inflight + 1
        <3> DEFINE i == after.inflight + 1
        <3>1. scheduler' = [after EXCEPT !.inflight = i]
            BY <1>3 DEF after
        <3>2. i \in Nat /\ i = scheduler.inflight + 1
            BY SMTT(30), <2>1, CounterFields
        <3> HIDE DEF i
        <3> QED BY <2>1, <3>1, <3>2 DEF Counters
    <2>3. rpcs' \in [Threads -> RequestStates]
        BY <1>3 DEF RequestStates
    <2>4. OnWire' = OnWire \cup {t} /\ t \notin OnWire /\ IsFiniteSet(OnWire)
        BY <1>3, ThreadsFinite DEF OnWire, In, TakeSlot
    <2>5. scheduler.inflight < MaxConcurrent
        BY <1>3 DEF MaySend
    <2>6. scheduler'.inflight = Cardinality(OnWire')
        BY <2>2, <2>4, CountUp DEF SlotsAreExact, OnWire
    <2>7. scheduler'.inflight <= MaxConcurrent
        BY SMTT(30), <2>2, <2>5, CounterFields, DaemonAssumption
    <2> QED
        BY <2>2, <2>3, <2>6, <2>7
        DEF SlotsAreExact, OnWire, InQueue, UrgentInQueue
<1> QED BY <1>1, <1>2, <1>3 DEF TakeSlot

LEMMA ReleaseKeeps == ASSUME DaemonInv, NEW t \in Threads, ReleaseSlot(t) PROVE DaemonInv'
<1> USE DEF DaemonInv, DaemonTypeOK
<1>1. OnWire' = OnWire \ {t} /\ t \in OnWire /\ IsFiniteSet(OnWire) /\ InQueue' = InQueue
    BY ThreadsFinite DEF OnWire, InQueue, In, ReleaseSlot
<1>2. UrgentInQueue' = UrgentInQueue
    BY <1>1 DEF UrgentInQueue, InQueue
<1>3. Cardinality(OnWire') = Cardinality(OnWire) - 1 /\ Cardinality(OnWire) > 0
    BY <1>1, CountDown
<1> DEFINE i == scheduler.inflight - 1
<1>4. scheduler.inflight # 0 /\ i \in Nat
    BY SMTT(30), <1>3, CounterFields DEF SlotsAreExact, OnWire
<1>5. scheduler' = [scheduler EXCEPT !.inflight = i]
    BY <1>4 DEF ReleaseSlot
<1> HIDE DEF i
<1>6. /\ scheduler' \in Counters /\ scheduler'.inflight = i /\ scheduler'.waiting = scheduler.waiting
      /\ scheduler'.priority_waiting = scheduler.priority_waiting
    BY <1>4, <1>5 DEF Counters
<1>7. rpcs' \in [Threads -> RequestStates]
    BY DEF ReleaseSlot, RequestStates
<1>8. scheduler'.inflight = Cardinality(OnWire') /\ scheduler'.inflight <= MaxConcurrent
    BY SMTT(30), <1>3, <1>6, DaemonAssumption, CounterFields DEF SlotsAreExact, OnWire, i
<1> QED
    BY <1>1, <1>2, <1>6, <1>7, <1>8 DEF SlotsAreExact, OnWire, InQueue, UrgentInQueue

LEMMA OtherRequestsKeep ==
    ASSUME DaemonInv,
           \/ \E t \in Threads : NotifyReleased(t) \/ ReturnRefusal(t)
           \/ StopDaemon
           \/ UNCHANGED daemonVars
    PROVE  DaemonInv'
<1> USE DEF DaemonInv, DaemonTypeOK
<1>1. DaemonTypeOK'
    BY DEF NotifyReleased, ReturnRefusal, StopDaemon, daemonVars, NotifiedRpcs, RequestStates, Counters
<1>2. OnWire' = OnWire /\ InQueue' = InQueue
    BY DEF NotifyReleased, ReturnRefusal, StopDaemon, daemonVars, NotifiedRpcs, OnWire, InQueue, In
<1>3. /\ scheduler'.inflight = scheduler.inflight /\ scheduler'.waiting = scheduler.waiting
      /\ scheduler'.priority_waiting = scheduler.priority_waiting
    BY DEF NotifyReleased, ReturnRefusal, StopDaemon, daemonVars, Counters
<1> QED BY <1>1, <1>2, <1>3, CountsKept

-----------------------------------------------------------------------------
LEMMA StepNumbers == \A i \in 1..13 : StepNumber(StopSteps[i]) = i
<1>1. \A i, j \in 1..13 : StopSteps[i] = StopSteps[j] => i = j
    BY SMTT(30) DEF StopSteps
<1>2. DOMAIN StopSteps = 1..13
    BY SMTT(30) DEF StopSteps
<1> QED BY <1>1, <1>2 DEF StepNumber

\* The steps of stop_locked from a given one on.
LEMMA StepOrder ==
    ASSUME NEW pc \in StopStates
    PROVE  /\ StepNumber(pc) >= StepNumber("drained") <=>
                  pc \in {"drained", "requested", "join", "daemon", "verifier", "shut", "thread", "drain", "flush", "finish", "finished"}
           /\ StepNumber(pc) >= StepNumber("join") <=>
                  pc \in {"join", "daemon", "verifier", "shut", "thread", "drain", "flush", "finish", "finished"}
           /\ StepNumber(pc) >= StepNumber("daemon") <=>
                  pc \in {"daemon", "verifier", "shut", "thread", "drain", "flush", "finish", "finished"}
           /\ StepNumber(pc) >= StepNumber("shut") <=>
                  pc \in {"shut", "thread", "drain", "flush", "finish", "finished"}
           /\ StepNumber(pc) >= StepNumber("thread") <=>
                  pc \in {"thread", "drain", "flush", "finish", "finished"}
           /\ StepNumber(pc) >= StepNumber("flush") <=>
                  pc \in {"flush", "finish", "finished"}
           /\ StepNumber(pc) >= StepNumber("finish") <=>
                  pc \in {"finish", "finished"}
<1>1. /\ StepNumber("none") = 1
      /\ StepNumber("stratum") = 2
      /\ StepNumber("drained") = 3
      /\ StepNumber("requested") = 4
      /\ StepNumber("join") = 5
      /\ StepNumber("daemon") = 6
      /\ StepNumber("verifier") = 7
      /\ StepNumber("shut") = 8
      /\ StepNumber("thread") = 9
      /\ StepNumber("drain") = 10
      /\ StepNumber("flush") = 11
      /\ StepNumber("finish") = 12
      /\ StepNumber("finished") = 13
    BY SMTT(30), StepNumbers DEF StopSteps
<1>2. pc \in {"none", "stratum", "drained", "requested", "join", "daemon", "verifier", "shut", "thread", "drain", "flush", "finish", "finished"}
    BY SMTT(30) DEF StopStates, StopSteps
<1> QED BY SMTT(30), <1>1, <1>2

LEMMA ShutdownInitInv == ShutdownInit => ShutdownInv
<1> SUFFICES ASSUME ShutdownInit PROVE ShutdownInv
    OBVIOUS
<1>1. "none" \in StopStates
    <2>1. StopSteps[1] = "none" /\ 1 \in DOMAIN StopSteps
        BY SMTT(30) DEF StopSteps
    <2> QED BY <2>1 DEF StopStates
<1>2. SharesTypeOK /\ SessionTypeOK
    BY <1>1 DEF ShutdownInit, MailboxInit, SharesTypeOK, SessionTypeOK, ShareStates, WorkerStates,
                Mailboxes, Results, Natives, VerifierStates, Flags, Stops
<1>3. DaemonInv
    BY DaemonInitInv DEF ShutdownInit
<1>4. ~Reached("drained") /\ ~Reached("daemon") /\ ~Reached("shut") /\ ~Reached("flush") /\ ~Reached("finish")
    BY <1>1, StepOrder DEF Reached, ShutdownInit
<1>5. (\A t \in Tags : ShareIsFollowed(t)) /\ CompletionsReachTheirShares
    BY DEF ShutdownInit, MailboxInit, ShareIsFollowed, CompletionsReachTheirShares
<1>6. VerifierEndsLate /\ StopIsOrdered /\ CleanSoFar
    BY <1>4 DEF ShutdownInit, MailboxInit, VerifierEndsLate, StopIsOrdered, CleanSoFar
<1>7. CallersAreKnown
    BY ShutdownAssumption DEF ShutdownInit, DaemonInit, CallersAreKnown
<1> QED BY <1>2, <1>3, <1>5, <1>6, <1>7 DEF ShutdownInv

\* What the methods of the mailbox do.
LEMMA MailboxOps ==
    ASSUME NEW m \in Mailboxes, NEW t \in Tags
    PROVE  /\ /\ Registered(m, t) \in Mailboxes /\ Registered(m, t).closed = m.closed
              /\ Registered(m, t).slots = [m.slots EXCEPT ![t] = "empty"]
           /\ /\ Cancelled(m, t) \in Mailboxes /\ Cancelled(m, t).closed = m.closed
              /\ Cancelled(m, t).slots = [m.slots EXCEPT ![t] = "none"]
           /\ /\ Waited(m, t) \in Mailboxes /\ Waited(m, t).closed = m.closed
              /\ Waited(m, t).slots = [m.slots EXCEPT ![t] = "none"]
           /\ /\ Published(m, t) \in Mailboxes /\ Published(m, t).closed = m.closed
              /\ Published(m, t).slots =
                     IF ~m.closed /\ m.slots[t] = "empty" THEN [m.slots EXCEPT ![t] = "full"] ELSE m.slots
BY DEF Mailboxes, Registered, Cancelled, Waited, Published, NotifiedMailbox

LEMMA ClosedMailbox ==
    ASSUME NEW m \in Mailboxes
    PROVE  Closed(m) \in Mailboxes /\ Closed(m).closed /\ \A t \in Tags : Closed(m).slots[t] = "none"
BY DEF Mailboxes, Closed, NotifiedMailbox

\* Types: the shares, the mailbox, the library and the verifier thread.
LEMMA SharesTypeNext ==
    ASSUME SharesTypeOK, [ShutdownNext]_shutdownVars PROVE SharesTypeOK'
<1> USE DEF SharesTypeOK, verifier, submits
<1>1. ASSUME NEW t \in Tags, AdmitShare(t) \/ MarkShare(t) PROVE SharesTypeOK'
    BY <1>1 DEF AdmitShare, MarkShare, ShareStates
<1>2. ASSUME NEW t \in Tags, RegisterShare(t) \/ RefuseShare(t) \/ MarkShareFails(t)
                             \/ \E block \in BOOLEAN : ReturnFromWait(t, block)
      PROVE  SharesTypeOK'
    <2>1. mailbox' \in {mailbox, Registered(mailbox, t), Cancelled(mailbox, t), Waited(mailbox, t)}
        BY <1>2 DEF RegisterShare, RefuseShare, MarkShareFails, ReturnFromWait
    <2>2. mailbox' \in Mailboxes
        <3>1. mailbox \in Mailboxes
            OBVIOUS
        <3>2. /\ Registered(mailbox, t) \in Mailboxes /\ Cancelled(mailbox, t) \in Mailboxes
              /\ Waited(mailbox, t) \in Mailboxes
            BY <3>1, MailboxOps
        <3> QED BY <2>1, <3>1, <3>2
    <2>3. shares' \in [Tags -> [pc : ShareStates, got : Results]]
        BY SMTT(30), <1>2 DEF RegisterShare, RefuseShare, MarkShareFails, ReturnFromWait, Finished, ShareStates, Results
    <2> QED BY <1>2, <2>2, <2>3 DEF RegisterShare, RefuseShare, MarkShareFails, ReturnFromWait
<1>3. ASSUME NEW t \in Tags, SubmitShare(t) \/ NativeHashes(t) PROVE SharesTypeOK'
    <2>1. PICK h \in {"hashing", "ready"} : native' = [native EXCEPT !.hashes[t] = h]
        BY <1>3 DEF SubmitShare, NativeHashes
    <2>2. native' \in Natives
        BY <2>1 DEF Natives
    <2>3. shares' \in [Tags -> [pc : ShareStates, got : Results]]
        BY SMTT(30), <1>3 DEF SubmitShare, NativeHashes, ShareStates
    <2> QED BY <1>3, <2>2, <2>3 DEF SubmitShare, NativeHashes
<1>4. ASSUME NEW t \in Tags, SleepInWait(t) PROVE SharesTypeOK'
    <2>1. mailbox' = [mailbox EXCEPT !.asleep = mailbox.asleep \cup {t}]
        BY <1>4 DEF SleepInWait
    <2>2. mailbox' \in Mailboxes
        BY <2>1 DEF Mailboxes
    <2> QED BY <1>4, <2>2 DEF SleepInWait
<1>5. CASE DrainCompletions \/ DrainRest \/ \E ok \in BOOLEAN : ShutdownVerifier(ok)
    <2>1. DrainedNative \in Natives
        BY DEF DrainedNative, Natives
    <2>2. native' \in Natives
        BY <1>5, <2>1 DEF DrainCompletions, DrainRest, ShutdownVerifier, Natives
    <2>3. verifying' \in VerifierStates
        <3>1. CASE DrainCompletions
            <4>1. Ready \in SUBSET Tags /\ native.closed \in BOOLEAN
                BY DEF Ready, Natives
            <4>2. verifying' = [verifying EXCEPT !.pc = "publish", !.batch = Ready, !.closed = native.closed]
                BY <3>1 DEF DrainCompletions
            <4> QED BY <4>1, <4>2 DEF VerifierStates
        <3>2. CASE ~DrainCompletions
            BY <1>5, <3>2 DEF DrainRest, ShutdownVerifier
        <3> QED BY <3>1, <3>2
    <2>4. mailbox' \in Mailboxes
        BY <1>5, ClosedMailbox DEF DrainCompletions, DrainRest, ShutdownVerifier
    <2> QED BY <1>5, <2>2, <2>3, <2>4 DEF DrainCompletions, DrainRest, ShutdownVerifier
<1>6. ASSUME NEW t \in Tags, PublishCompletion(t) PROVE SharesTypeOK'
    <2>1. mailbox' \in Mailboxes
        BY <1>6, MailboxOps DEF PublishCompletion
    <2>2. verifying' \in VerifierStates
        BY <1>6 DEF PublishCompletion, VerifierStates
    <2> QED BY <1>6, <2>1, <2>2 DEF PublishCompletion
<1>7. CASE EndBatch \/ LeaveLoop \/ ReportFailure
    <2>1. verifying' \in VerifierStates
        BY <1>7 DEF EndBatch, LeaveLoop, ReportFailure, VerifierStates
    <2> QED BY <1>7, <2>1 DEF EndBatch, LeaveLoop, ReportFailure
<1>8. CASE VerifierExits \/ \E mismatch \in BOOLEAN : VerifierFails(mismatch)
    <2>1. verifying' \in VerifierStates
        <3>1. CASE VerifierExits
            BY <3>1 DEF VerifierExits, VerifierStates
        <3>2. CASE verifying' = [pc |-> "fatal", batch |-> {}, closed |-> FALSE, failed |-> TRUE]
            BY <3>2 DEF VerifierStates
        <3> QED BY <1>8, <3>1, <3>2 DEF VerifierFails
    <2>2. mailbox' \in Mailboxes
        BY <1>8, ClosedMailbox DEF VerifierExits, VerifierFails, MailboxAfterVerifier
    <2> QED BY <1>8, <2>1, <2>2 DEF VerifierExits, VerifierFails
<1>9. CASE UNCHANGED <<mailbox, shares, native, verifying>>
    BY <1>9
<1> QED
    BY <1>1, <1>2, <1>3, <1>4, <1>5, <1>6, <1>7, <1>8, <1>9
    DEF ShutdownNext, ShareStep, VerifierStep, CandidateStep, TemplateStep, Rpc, StopLocked, shutdownVars,
        Look, BeginWait, TimedWaitEnds, CallDaemon, EndTask, RefreshTemplate, TemplateThreadEnds,
        FlushAccounting, StopBegins, StratumStopped, RequestCandidateStop, NotifyCandidates,
        ThreadsJoined, DaemonStops, FinalFlush, RequestVerifierStop, VerifierJoined, FinishSession

\* notify_one wakes at most one worker, and only one that waits.
LEMMA WokenOneWakes ==
    ASSUME NEW ws \in [CandidateThreads -> WorkerStates], NEW next \in WokenOne(ws)
    PROVE  /\ next \in [CandidateThreads -> WorkerStates]
           /\ \A w \in CandidateThreads :
                 next[w] = ws[w] \/ (ws[w] \in {"waiting", "timed"} /\ next[w] = "look")
<1> DEFINE sleepers == {w \in CandidateThreads : ws[w] \in {"waiting", "timed"}}
<1>1. CASE next = ws
    BY <1>1
<1>2. ASSUME NEW v \in sleepers, next = [ws EXCEPT ![v] = "look"]
      PROVE  /\ next \in [CandidateThreads -> WorkerStates]
             /\ \A w \in CandidateThreads :
                   next[w] = ws[w] \/ (ws[w] \in {"waiting", "timed"} /\ next[w] = "look")
    BY <1>2 DEF WorkerStates
<1> QED BY <1>1, <1>2 DEF WokenOne

LEMMA OthersLeaveWorkers ==
    ASSUME ShutdownNext, ~WorkerMoves PROVE UNCHANGED <<candidate_threads, templating>>
BY DEF WorkerMoves, ShutdownNext, ShareStep, VerifierStep, CandidateStep, TemplateStep, Rpc, StopLocked,
       candidates, AdmitShare, RegisterShare, SubmitShare, RefuseShare, MarkShare, MarkShareFails,
       SleepInWait, NativeHashes, DrainCompletions, PublishCompletion, EndBatch, LeaveLoop,
       ReportFailure, VerifierExits, VerifierFails, RefreshTemplate, FlushAccounting, StopBegins,
       StratumStopped, RequestCandidateStop, ThreadsJoined, DaemonStops, ShutdownVerifier, FinalFlush,
       RequestVerifierStop, VerifierJoined, DrainRest, FinishSession

LEMMA WorkersTypeNext ==
    ASSUME SessionTypeOK, [ShutdownNext]_shutdownVars
    PROVE  candidate_threads' \in [CandidateThreads -> WorkerStates] /\ templating' \in {"run", "gone"}
<1> USE DEF SessionTypeOK
<1>1. ASSUME NEW w \in CandidateThreads, Look(w) \/ BeginWait(w) \/ TimedWaitEnds(w) \/ CallDaemon(w)
      PROVE  candidate_threads' \in [CandidateThreads -> WorkerStates] /\ UNCHANGED templating
    BY <1>1 DEF Look, BeginWait, TimedWaitEnds, CallDaemon, WorkerStates
<1>2. ASSUME NEW w \in CandidateThreads, NEW retain \in BOOLEAN, EndTask(w, retain)
      PROVE  candidate_threads' \in [CandidateThreads -> WorkerStates] /\ UNCHANGED templating
    <2>1. PICK ws \in IF retain THEN WokenOne(candidate_threads) ELSE {candidate_threads} :
               candidate_threads' = [ws EXCEPT ![w] = "look"]
        BY <1>2 DEF EndTask
    <2>2. ws \in [CandidateThreads -> WorkerStates]
        BY <2>1, WokenOneWakes
    <2> QED BY <1>2, <2>1, <2>2 DEF EndTask, WorkerStates
<1>3. ASSUME NEW t \in Tags, NEW block \in BOOLEAN, ReturnFromWait(t, block)
      PROVE  candidate_threads' \in [CandidateThreads -> WorkerStates] /\ UNCHANGED templating
    BY <1>3, WokenOneWakes DEF ReturnFromWait
<1>4. CASE TemplateThreadEnds \/ NotifyCandidates
    BY <1>4 DEF TemplateThreadEnds, NotifyCandidates, WokenByStop, WorkerStates
<1>5. CASE UNCHANGED shutdownVars
    BY <1>5 DEF shutdownVars, candidates
<1> QED BY <1>1, <1>2, <1>3, <1>4, <1>5, OthersLeaveWorkers DEF WorkerMoves

LEMMA StopStatesAre ==
    StopStates = {"none", "stratum", "drained", "requested", "join", "daemon", "verifier", "shut",
                  "thread", "drain", "flush", "finish", "finished"}
<1>1. DOMAIN StopSteps = 1..13
    BY SMTT(30) DEF StopSteps
<1> QED BY SMTT(30), <1>1 DEF StopStates, StopSteps

\* stop_locked goes through its steps in order.
LEMMA StopMoves ==
    ASSUME SessionTypeOK, [ShutdownNext]_shutdownVars
    PROVE  /\ stop_locked' \in Stops
           /\ \/ UNCHANGED stop_locked
              \/ (\E ok \in BOOLEAN : StopBegins(ok)) \/ StopLocked
<1> USE DEF SessionTypeOK
<1>1. \/ UNCHANGED stop_locked
      \/ (\E ok \in BOOLEAN : StopBegins(ok)) \/ StopLocked
    BY DEF ShutdownNext, ShareStep, VerifierStep, CandidateStep, TemplateStep, Rpc, shutdownVars, session,
       AdmitShare, RegisterShare, SubmitShare, RefuseShare, MarkShare, MarkShareFails,
       SleepInWait, NativeHashes, DrainCompletions, PublishCompletion, EndBatch, LeaveLoop,
       ReportFailure, VerifierExits, VerifierFails, RefreshTemplate, FlushAccounting,
       Look, BeginWait, TimedWaitEnds, CallDaemon, EndTask, ReturnFromWait, TemplateThreadEnds
<1>2. ASSUME NEW step \in StopStates, stop_locked' = [stop_locked EXCEPT !.pc = step]
      PROVE  stop_locked' \in Stops
    BY <1>2 DEF Stops
<1>3. ASSUME NEW step \in StopStates, NEW clean \in BOOLEAN,
             stop_locked' = [stop_locked EXCEPT !.pc = step, !.clean = clean]
      PROVE  stop_locked' \in Stops
    BY <1>3 DEF Stops
<1>4. ASSUME RequestCandidateStop PROVE stop_locked' \in Stops
    <2>1. stop_locked' = [stop_locked EXCEPT !.pc = "requested", !.requested = TRUE]
        BY <1>4 DEF RequestCandidateStop
    <2>2. "requested" \in StopStates /\ TRUE \in BOOLEAN
        BY StopStatesAre
    <2> QED BY <2>1, <2>2 DEF Stops
<1>5. ASSUME ThreadsJoined \/ DaemonStops \/ RequestVerifierStop \/ VerifierJoined
      PROVE  stop_locked' \in Stops
    <2>1. PICK step \in StopStates : stop_locked' = [stop_locked EXCEPT !.pc = step]
        BY <1>5, StopStatesAre DEF ThreadsJoined, DaemonStops, RequestVerifierStop, VerifierJoined
    <2> QED BY <1>2, <2>1
<1>6. ASSUME NotifyCandidates PROVE stop_locked' \in Stops
    <2>1. PICK missed \in SUBSET CandidateThreads :
               stop_locked' = [stop_locked EXCEPT !.pc = "join", !.missed = missed]
        BY <1>6 DEF NotifyCandidates
    <2>2. "join" \in StopStates
        BY StopStatesAre
    <2> QED BY <2>1, <2>2 DEF Stops
<1>7. ASSUME \/ \E ok \in BOOLEAN : StopBegins(ok) \/ ShutdownVerifier(ok) \/ FinalFlush(ok)
             \/ StratumStopped \/ DrainRest \/ FinishSession
      PROVE  stop_locked' \in Stops
    <2>1. \A a, b \in BOOLEAN : (a /\ b) \in BOOLEAN /\ (~a) \in BOOLEAN
        OBVIOUS
    <2>2. PICK step \in StopStates, clean \in BOOLEAN :
               stop_locked' = [stop_locked EXCEPT !.pc = step, !.clean = clean]
        BY <1>7, <2>1, StopStatesAre
        DEF StopBegins, ShutdownVerifier, FinalFlush, StratumStopped, DrainRest, FinishSession
    <2> QED BY <1>3, <2>2
<1> QED BY <1>1, <1>4, <1>5, <1>6, <1>7 DEF StopLocked

LEMMA FlagsTypeNext ==
    ASSUME SessionTypeOK, [ShutdownNext]_shutdownVars PROVE buffered' \in BOOLEAN /\ flags' \in Flags
<1> USE DEF SessionTypeOK
<1>1. MarkDatabaseUnavailable \in Flags
    BY DEF MarkDatabaseUnavailable, Flags
<1>2. ASSUME NEW t \in Tags, MarkShareFails(t) PROVE buffered' = buffered /\ flags' \in Flags
    BY <1>1, <1>2 DEF MarkShareFails
<1>3. ASSUME NEW t \in Tags, NEW block \in BOOLEAN, ReturnFromWait(t, block)
      PROVE  buffered' \in BOOLEAN /\ flags' = flags
    BY <1>3 DEF ReturnFromWait
<1>4. ASSUME ReportFailure PROVE buffered' = buffered /\ flags' \in Flags
    BY <1>4 DEF ReportFailure, Flags
<1>5. ASSUME NEW ok \in BOOLEAN, StopBegins(ok) PROVE buffered' = buffered /\ flags' \in Flags
    BY <1>1, <1>5 DEF StopBegins, Flags
<1>6. ASSUME NEW ok \in BOOLEAN, FlushAccounting(ok) \/ FinalFlush(ok)
      PROVE  buffered' \in BOOLEAN /\ flags' \in Flags
    BY <1>1, <1>6 DEF FlushAccounting, FinalFlush
<1>7. CASE UNCHANGED <<buffered, flags>>
    BY <1>7
<1> QED
    BY <1>2, <1>3, <1>4, <1>5, <1>6, <1>7
    DEF ShutdownNext, ShareStep, VerifierStep, CandidateStep, TemplateStep, Rpc, StopLocked, shutdownVars,
        session, AdmitShare, RegisterShare, SubmitShare, RefuseShare, MarkShare, SleepInWait, NativeHashes,
        DrainCompletions, PublishCompletion, EndBatch, LeaveLoop, VerifierExits, VerifierFails,
        Look, BeginWait, TimedWaitEnds, CallDaemon, EndTask, RefreshTemplate, TemplateThreadEnds,
        StratumStopped, RequestCandidateStop, NotifyCandidates, ThreadsJoined, DaemonStops,
        ShutdownVerifier, RequestVerifierStop, VerifierJoined, DrainRest, FinishSession

\* No step of stop_locked is undone, and each is made by its own action.
LEMMA StopAdvances ==
    ASSUME SharesTypeOK, SessionTypeOK, [ShutdownNext]_shutdownVars
    PROVE  /\ /\ Reached("drained") => Reached("drained")'
              /\ Reached("drained")' => Reached("drained") \/ StratumStopped
           /\ /\ Reached("daemon") => Reached("daemon")'
              /\ Reached("daemon")' => Reached("daemon") \/ ThreadsJoined
           /\ /\ Reached("shut") => Reached("shut")'
              /\ Reached("shut")' => Reached("shut") \/ \E ok \in BOOLEAN : ShutdownVerifier(ok)
           /\ /\ Reached("flush") => Reached("flush")'
              /\ Reached("flush")' => Reached("flush") \/ DrainRest
           /\ /\ Reached("finish") => Reached("finish")'
              /\ Reached("finish")' => Reached("finish") \/ \E ok \in BOOLEAN : FinalFlush(ok)
<1>1. CASE UNCHANGED stop_locked
    BY <1>1 DEF Reached
<1>2. CASE (\E ok \in BOOLEAN : StopBegins(ok)) \/ StopLocked
    <2>1. stop_locked.pc \in StopStates /\ stop_locked'.pc \in StopStates /\ stop_locked \in Stops
        BY StopMoves DEF SessionTypeOK, Stops
    <2>2. \/ stop_locked.pc = "none" /\ stop_locked'.pc = "stratum"
          \/ stop_locked.pc = "stratum" /\ stop_locked'.pc = "drained" /\ StratumStopped
          \/ stop_locked.pc = "drained" /\ stop_locked'.pc = "requested"
          \/ stop_locked.pc = "requested" /\ stop_locked'.pc = "join"
          \/ stop_locked.pc = "join" /\ stop_locked'.pc = "daemon" /\ ThreadsJoined
          \/ stop_locked.pc = "daemon" /\ stop_locked'.pc = "verifier"
          \/ stop_locked.pc = "verifier" /\ stop_locked'.pc = "shut" /\ \E ok \in BOOLEAN : ShutdownVerifier(ok)
          \/ stop_locked.pc = "shut" /\ stop_locked'.pc = "thread"
          \/ stop_locked.pc = "thread" /\ stop_locked'.pc = "drain"
          \/ stop_locked.pc = "drain" /\ stop_locked'.pc = "flush" /\ DrainRest
          \/ stop_locked.pc = "flush" /\ stop_locked'.pc = "finish" /\ \E ok \in BOOLEAN : FinalFlush(ok)
          \/ stop_locked.pc = "finish" /\ stop_locked'.pc = "finished"
        <3> stop_locked \in Stops
            BY <2>1
        <3> USE DEF Stops
        <3>1. StratumStopped => stop_locked.pc = "stratum" /\ stop_locked'.pc = "drained"
            BY DEF StratumStopped
        <3>2. RequestCandidateStop => stop_locked.pc = "drained" /\ stop_locked'.pc = "requested"
            BY DEF RequestCandidateStop
        <3>3. NotifyCandidates => stop_locked.pc = "requested" /\ stop_locked'.pc = "join"
            BY DEF NotifyCandidates
        <3>4. ThreadsJoined => stop_locked.pc = "join" /\ stop_locked'.pc = "daemon"
            BY DEF ThreadsJoined
        <3>5. DaemonStops => stop_locked.pc = "daemon" /\ stop_locked'.pc = "verifier"
            BY DEF DaemonStops
        <3>6. RequestVerifierStop => stop_locked.pc = "shut" /\ stop_locked'.pc = "thread"
            BY DEF RequestVerifierStop
        <3>7. VerifierJoined => stop_locked.pc = "thread" /\ stop_locked'.pc = "drain"
            BY DEF VerifierJoined
        <3>8. DrainRest => stop_locked.pc = "drain" /\ stop_locked'.pc = "flush"
            BY DEF DrainRest
        <3>9. FinishSession => stop_locked.pc = "finish" /\ stop_locked'.pc = "finished"
            BY DEF FinishSession
        <3>10. \A ok \in BOOLEAN : StopBegins(ok) => stop_locked.pc = "none" /\ stop_locked'.pc = "stratum"
            BY DEF StopBegins
        <3>11. \A ok \in BOOLEAN : ShutdownVerifier(ok) => stop_locked.pc = "verifier" /\ stop_locked'.pc = "shut"
            BY DEF ShutdownVerifier
        <3>12. \A ok \in BOOLEAN : FinalFlush(ok) => stop_locked.pc = "flush" /\ stop_locked'.pc = "finish"
            BY DEF FinalFlush
        <3> QED BY <1>2, <3>1, <3>2, <3>3, <3>4, <3>5, <3>6, <3>7, <3>8, <3>9, <3>10, <3>11, <3>12 DEF StopLocked
    <2>3. \A pc \in StopStates :
             /\ StepNumber(pc) >= StepNumber("drained") <=> pc \notin {"none", "stratum"}
             /\ StepNumber(pc) >= StepNumber("daemon") <=>
                    pc \in {"daemon", "verifier", "shut", "thread", "drain", "flush", "finish", "finished"}
             /\ StepNumber(pc) >= StepNumber("shut") <=>
                    pc \in {"shut", "thread", "drain", "flush", "finish", "finished"}
             /\ StepNumber(pc) >= StepNumber("flush") <=> pc \in {"flush", "finish", "finished"}
             /\ StepNumber(pc) >= StepNumber("finish") <=> pc \in {"finish", "finished"}
        BY StepOrder, StopStatesAre
    <2> QED BY SMTT(30), <2>1, <2>2, <2>3 DEF Reached
<1> QED BY <1>1, <1>2, StopMoves

\* Who is inside post().
LEMMA CallersNext ==
    ASSUME SessionTypeOK, CallersAreKnown, DaemonInv, [ShutdownNext]_shutdownVars
    PROVE  CallersAreKnown' /\ DaemonInv'
<1> USE DEF SessionTypeOK
<1>1. ASSUME NEW w \in CandidateThreads, Look(w) \/ BeginWait(w) \/ TimedWaitEnds(w)
      PROVE  CallersAreKnown' /\ DaemonInv'
    <2>1. \A v \in CandidateThreads : candidate_threads'[v] = "calling" <=> candidate_threads[v] = "calling"
        BY <1>1 DEF Look, BeginWait, TimedWaitEnds
    <2> QED BY <1>1, <2>1, OtherRequestsKeep DEF Look, BeginWait, TimedWaitEnds, CallersAreKnown, daemonVars
<1>2. ASSUME NEW w \in CandidateThreads, CallDaemon(w) PROVE CallersAreKnown' /\ DaemonInv'
    <2>1. w \in Threads /\ w # TemplateThread
        BY ShutdownAssumption
    <2>2. DaemonInv'
        BY <1>2, <2>1, AskKeeps, OtherRequestsKeep DEF CallDaemon
    <2>3. \A t \in Threads \ {w} : rpcs'[t] = rpcs[t]
        BY <1>2 DEF CallDaemon, AskForSlot, DaemonInv, DaemonTypeOK, daemonVars
    <2>4. candidate_threads'[w] # "calling" => rpcs'[w] = "out"
        BY <1>2 DEF CallDaemon, CallersAreKnown, daemonVars
    <2>5. \A v \in CandidateThreads \ {w} : candidate_threads'[v] = candidate_threads[v]
        BY <1>2 DEF CallDaemon
    <2> QED BY <1>2, <2>1, <2>2, <2>3, <2>4, <2>5, ShutdownAssumption DEF CallDaemon, CallersAreKnown
<1>3. ASSUME NEW w \in CandidateThreads, NEW retain \in BOOLEAN, EndTask(w, retain)
      PROVE  CallersAreKnown' /\ DaemonInv'
    <2>1. PICK ws \in IF retain THEN WokenOne(candidate_threads) ELSE {candidate_threads} :
               candidate_threads' = [ws EXCEPT ![w] = "look"]
        BY <1>3 DEF EndTask
    <2>2. ws \in [CandidateThreads -> WorkerStates] /\ \A v \in CandidateThreads :
              ws[v] = candidate_threads[v] \/ (candidate_threads[v] \in {"waiting", "timed"} /\ ws[v] = "look")
        BY <2>1, WokenOneWakes
    <2> QED BY <1>3, <2>1, <2>2, OtherRequestsKeep DEF EndTask, CallersAreKnown, daemonVars
<1>4. ASSUME NEW t \in Tags, NEW block \in BOOLEAN, ReturnFromWait(t, block)
      PROVE  CallersAreKnown' /\ DaemonInv'
    <2>1. \A v \in CandidateThreads :
              \/ candidate_threads'[v] = candidate_threads[v]
              \/ candidate_threads[v] \in {"waiting", "timed"} /\ candidate_threads'[v] = "look"
        BY SMTT(30), <1>4, WokenOneWakes DEF ReturnFromWait
    <2> QED BY <1>4, <2>1, OtherRequestsKeep DEF ReturnFromWait, CallersAreKnown, daemonVars
<1>5. CASE RefreshTemplate
    <2>1. TemplateThread \in Threads /\ \A w \in CandidateThreads : w \in Threads /\ w # TemplateThread
        BY ShutdownAssumption
    <2>2. DaemonInv'
        BY <1>5, <2>1, AskKeeps DEF RefreshTemplate
    <2>3. \A t \in Threads \ {TemplateThread} : rpcs'[t] = rpcs[t]
        BY <1>5 DEF RefreshTemplate, AskForSlot, DaemonInv, DaemonTypeOK
    <2> QED BY <1>5, <2>1, <2>2, <2>3 DEF RefreshTemplate, CallersAreKnown, candidates
<1>6. CASE TemplateThreadEnds \/ NotifyCandidates
    BY <1>6, OtherRequestsKeep DEF TemplateThreadEnds, NotifyCandidates, WokenByStop, CallersAreKnown, daemonVars
<1>7. ASSUME NEW t \in Threads, Rpc(t) PROVE CallersAreKnown' /\ DaemonInv'
    <2>1. DaemonInv'
        BY <1>7, TakeKeeps, ReleaseKeeps, OtherRequestsKeep DEF Rpc, RequestStep
    <2>2. \A u \in Threads : rpcs[u] = "out" => rpcs'[u] = "out"
        BY <1>7 DEF Rpc, RequestStep, TakeSlot, ReleaseSlot, NotifyReleased, ReturnRefusal, NotifiedRpcs,
                    DaemonInv, DaemonTypeOK
    <2> QED BY <1>7, <2>1, <2>2, ShutdownAssumption DEF Rpc, CallersAreKnown, candidates
<1>8. CASE DaemonStops
    <2>1. \A u \in Threads : rpcs[u] = "out" => rpcs'[u] = "out"
        BY <1>8 DEF DaemonStops, StopDaemon, NotifiedRpcs
    <2> QED BY <1>8, <2>1, OtherRequestsKeep, ShutdownAssumption DEF DaemonStops, CallersAreKnown, candidates
<1>9. CASE UNCHANGED <<candidate_threads, templating, daemonVars>>
    BY <1>9, OtherRequestsKeep DEF CallersAreKnown, daemonVars
<1> QED
    BY <1>1, <1>2, <1>3, <1>4, <1>5, <1>6, <1>7, <1>8, <1>9
    DEF ShutdownNext, ShareStep, VerifierStep, CandidateStep, TemplateStep, StopLocked, shutdownVars,
        candidates, AdmitShare, RegisterShare, SubmitShare, RefuseShare, MarkShare, MarkShareFails,
        SleepInWait, NativeHashes, DrainCompletions, PublishCompletion, EndBatch, LeaveLoop, ReportFailure,
        VerifierExits, VerifierFails, FlushAccounting, StopBegins, StratumStopped, RequestCandidateStop,
        ThreadsJoined, ShutdownVerifier, FinalFlush, RequestVerifierStop, VerifierJoined, DrainRest,
        FinishSession

\* The steps of a share, of the library and of the verifier thread.
LEMMA SharesNext ==
    ASSUME SharesTypeOK, SessionTypeOK, SharesInv, StopIsOrdered, [ShutdownNext]_shutdownVars
    PROVE  SharesInv'
<1> USE DEF SharesTypeOK, verifier, submits
<1> DEFINE Slot(t) == mailbox.slots[t] # "none" <=>
                          ~mailbox.closed /\ shares[t].pc \in {"registered", "submitted", "wait"}
           Got(t) == /\ shares[t].got = "own" => native.hashes[t] = "drained"
                     /\ shares[t].got = "failed" => verifying.failed
<1>a. mailbox \in Mailboxes /\ \A t \in Tags : ShareIsFollowed(t) /\ Slot(t) /\ Got(t)
    BY DEF SharesInv, CompletionsReachTheirShares
<1>b. (\A t \in Tags : ShareIsFollowed(t)' /\ Slot(t)' /\ Got(t)') /\ VerifierEndsLate' => SharesInv'
    BY DEF SharesInv, CompletionsReachTheirShares
<1>c. (Reached("shut") => Reached("shut")') /\ (Reached("thread") => Reached("shut"))
    BY StopAdvances, StepOrder DEF Reached, SessionTypeOK, Stops
<1>d. \A t \in Tags : shares[t].pc \notin {"none", "done"} => ~Reached("shut")
    BY StepOrder DEF Reached, SessionTypeOK, Stops, StopIsOrdered, Drained
<1>e. VerifierEndsLate
    BY DEF SharesInv
<1> HIDE DEF Slot, Got
<1>1. ASSUME NEW t \in Tags, AdmitShare(t) \/ MarkShare(t) \/ SubmitShare(t) PROVE SharesInv'
    <2>1. \A u \in Tags : ShareIsFollowed(u)' /\ Slot(u)' /\ Got(u)'
        BY SMTT(30), <1>1, <1>a DEF AdmitShare, MarkShare, SubmitShare, Natives, ShareIsFollowed, Slot, Got
    <2>2. VerifierEndsLate'
        BY <1>1, <1>c, <1>e DEF AdmitShare, MarkShare, SubmitShare, Natives, VerifierEndsLate
    <2> QED BY <2>1, <2>2, <1>b
<1>2. ASSUME NEW t \in Tags, RegisterShare(t) PROVE SharesInv'
    <2>1. CASE MayRegister(mailbox, t)
        <3>1. /\ mailbox'.closed = mailbox.closed /\ mailbox'.slots = [mailbox.slots EXCEPT ![t] = "empty"]
              /\ shares' = [shares EXCEPT ![t].pc = "registered"] /\ ~mailbox.closed
            <4>1. /\ Registered(mailbox, t).closed = mailbox.closed
                  /\ Registered(mailbox, t).slots = [mailbox.slots EXCEPT ![t] = "empty"]
                BY <1>a, MailboxOps
            <4> QED BY <1>2, <2>1, <4>1 DEF RegisterShare, MayRegister
        <3>2. \A u \in Tags : ShareIsFollowed(u)' /\ Slot(u)' /\ Got(u)'
            BY SMTT(30), <1>2, <3>1, <1>a DEF RegisterShare, Mailboxes, ShareIsFollowed, Slot, Got
        <3>3. VerifierEndsLate'
            BY <1>2, <3>1, <1>c, <1>e DEF RegisterShare, VerifierEndsLate
        <3> QED BY <3>2, <3>3, <1>b
    <2>2. CASE ~MayRegister(mailbox, t)
        <3>1. mailbox' = mailbox /\ shares' = [shares EXCEPT ![t] = [pc |-> "done", got |-> "busy"]]
            BY <1>2, <2>2 DEF RegisterShare, Finished
        <3>2. mailbox.slots[t] = "none"
            BY <1>2, <1>a DEF RegisterShare, Slot
        <3>3. \A u \in Tags : ShareIsFollowed(u)' /\ Slot(u)' /\ Got(u)'
            BY <1>2, <3>1, <3>2, <1>a DEF RegisterShare, ShareIsFollowed, Slot, Got
        <3>4. VerifierEndsLate'
            BY <1>2, <3>1, <1>c, <1>e DEF RegisterShare, VerifierEndsLate
        <3> QED BY <3>3, <3>4, <1>b
    <2> QED BY <2>1, <2>2
<1>3. ASSUME NEW t \in Tags, RefuseShare(t) \/ MarkShareFails(t) \/ \E block \in BOOLEAN : ReturnFromWait(t, block)
      PROVE  SharesInv'
    <2>1. mailbox'.closed = mailbox.closed /\ mailbox'.slots = [mailbox.slots EXCEPT ![t] = "none"]
        <3>1. /\ Cancelled(mailbox, t).closed = mailbox.closed /\ Waited(mailbox, t).closed = mailbox.closed
              /\ Cancelled(mailbox, t).slots = [mailbox.slots EXCEPT ![t] = "none"]
              /\ Waited(mailbox, t).slots = [mailbox.slots EXCEPT ![t] = "none"]
            BY <1>a, MailboxOps
        <3>2. mailbox' \in {Cancelled(mailbox, t), Waited(mailbox, t)}
            BY <1>3 DEF RefuseShare, MarkShareFails, ReturnFromWait
        <3> QED BY <3>1, <3>2
    <2>2. PICK got \in Results : shares' = [shares EXCEPT ![t] = [pc |-> "done", got |-> got]]
                                 /\ (got = "own" => mailbox.slots[t] = "full")
                                 /\ (got = "failed" => mailbox.closed)
        BY <1>3, <1>a DEF RefuseShare, MarkShareFails, ReturnFromWait, Finished, Results, WaitIsOver, Slot, Mailboxes
    <2>3. got = "failed" => verifying.failed
        BY <1>3, <2>2, <1>d, <1>e DEF VerifierEndsLate, RefuseShare, MarkShareFails, ReturnFromWait
    <2>4. UNCHANGED <<native, verifying>>
        BY <1>3 DEF RefuseShare, MarkShareFails, ReturnFromWait
    <2>5. \A u \in Tags : ShareIsFollowed(u)' /\ Slot(u)' /\ Got(u)'
        BY SMTT(30), <2>1, <2>2, <2>3, <2>4, <1>a DEF Mailboxes, ShareIsFollowed, Slot, Got
    <2>6. VerifierEndsLate'
        BY <2>1, <2>4, <1>c, <1>e DEF VerifierEndsLate
    <2> QED BY <2>5, <2>6, <1>b
<1>4. ASSUME NEW t \in Tags, SleepInWait(t) PROVE SharesInv'
    <2>1. mailbox'.closed = mailbox.closed /\ mailbox'.slots = mailbox.slots
        BY <1>4, <1>a DEF SleepInWait, Mailboxes
    <2>2. \A u \in Tags : ShareIsFollowed(u)' /\ Slot(u)' /\ Got(u)'
        BY SMTT(30), <1>4, <2>1, <1>a DEF SleepInWait, ShareIsFollowed, Slot, Got
    <2>3. VerifierEndsLate'
        BY <1>4, <2>1, <1>c, <1>e DEF SleepInWait, VerifierEndsLate
    <2> QED BY <2>2, <2>3, <1>b
<1>5. ASSUME NEW t \in Tags, NativeHashes(t) PROVE SharesInv'
    <2>1. native'.closed = native.closed /\ native'.hashes = [native.hashes EXCEPT ![t] = "ready"]
        BY <1>5 DEF NativeHashes, Natives
    <2>2. \A u \in Tags : ShareIsFollowed(u)' /\ Slot(u)' /\ Got(u)'
        BY <1>5, <2>1, <1>a DEF NativeHashes, Natives, ShareIsFollowed, Slot, Got
    <2>3. VerifierEndsLate'
        BY <1>5, <2>1, <1>c, <1>e DEF NativeHashes, VerifierEndsLate
    <2> QED BY <2>2, <2>3, <1>b
<1>6. /\ DrainedNative.closed = native.closed
      /\ \A u \in Tags : DrainedNative.hashes[u] = IF u \in Ready THEN "drained" ELSE native.hashes[u]
    BY DEF DrainedNative, Natives
<1>7. CASE DrainCompletions
    <2>1. /\ verifying'.pc = "publish" /\ verifying'.batch = Ready /\ verifying'.closed = native.closed
          /\ verifying'.failed = verifying.failed
        BY <1>7 DEF DrainCompletions, VerifierStates
    <2>2. \A u \in Tags : ShareIsFollowed(u)' /\ Slot(u)' /\ Got(u)'
        BY SMTT(30), <1>7, <2>1, <1>6, <1>a DEF DrainCompletions, Ready, ShareIsFollowed, Slot, Got
    <2>3. VerifierEndsLate'
        BY <1>7, <2>1, <1>6, <1>c, <1>e DEF DrainCompletions, VerifierEndsLate
    <2> QED BY <2>2, <2>3, <1>b
<1>8. ASSUME NEW t \in Tags, PublishCompletion(t) PROVE SharesInv'
    <2>1. /\ mailbox'.closed = mailbox.closed
          /\ mailbox'.slots = IF ~mailbox.closed /\ mailbox.slots[t] = "empty"
                              THEN [mailbox.slots EXCEPT ![t] = "full"] ELSE mailbox.slots
        BY <1>8, <1>a, MailboxOps DEF PublishCompletion
    <2>2. /\ verifying'.pc = verifying.pc /\ verifying'.batch = verifying.batch \ {t}
          /\ verifying'.closed = verifying.closed /\ verifying'.failed = verifying.failed
        BY <1>8 DEF PublishCompletion, VerifierStates
    <2>3. \A u \in Tags : ShareIsFollowed(u)' /\ Slot(u)' /\ Got(u)'
        BY SMTT(30), <1>8, <2>1, <2>2, <1>a DEF PublishCompletion, Mailboxes, ShareIsFollowed, Slot, Got
    <2>4. VerifierEndsLate'
        BY <1>8, <2>1, <2>2, <1>c, <1>e DEF PublishCompletion, VerifierEndsLate
    <2> QED BY <2>3, <2>4, <1>b
<1>9. CASE EndBatch \/ LeaveLoop \/ ReportFailure
    <2>1. /\ verifying'.batch = verifying.batch /\ verifying'.closed = verifying.closed
          /\ verifying'.failed = verifying.failed
          /\ verifying'.pc = "drain" \/ (verifying'.pc = "exit" /\ (verifying.failed \/ Reached("shut")))
        BY <1>9, <1>c, <1>e DEF EndBatch, LeaveLoop, ReportFailure, VerifierStates, VerifierEndsLate
    <2>2. UNCHANGED <<mailbox, shares, native>>
        BY <1>9 DEF EndBatch, LeaveLoop, ReportFailure
    <2>3. \A u \in Tags : ShareIsFollowed(u)' /\ Slot(u)' /\ Got(u)'
        BY <2>1, <2>2, <1>a DEF ShareIsFollowed, Slot, Got
    <2>4. VerifierEndsLate'
        BY <2>1, <2>2, <1>c, <1>e DEF VerifierEndsLate
    <2> QED BY <2>3, <2>4, <1>b
<1>10. ASSUME NEW mismatch \in BOOLEAN, VerifierFails(mismatch) PROVE SharesInv'
    <2>1. /\ mailbox' = mailbox \/ (mailbox'.closed /\ \A u \in Tags : mailbox'.slots[u] = "none")
          /\ verifying'.pc = "fatal" /\ verifying'.batch = {} /\ ~verifying'.closed /\ verifying'.failed
        BY <1>10, <1>a, ClosedMailbox DEF VerifierFails
    <2>2. \A u \in Tags : ShareIsFollowed(u)' /\ Slot(u)' /\ Got(u)'
        BY SMTT(30), <1>10, <2>1, <1>a DEF VerifierFails, ShareIsFollowed, Slot, Got
    <2>3. VerifierEndsLate'
        BY <1>10, <2>1, <1>c, <1>e DEF VerifierFails, VerifierEndsLate
    <2> QED BY <2>2, <2>3, <1>b
<1>11. CASE VerifierExits
    <2>1. /\ mailbox'.closed /\ \A u \in Tags : mailbox'.slots[u] = "none"
          /\ verifying'.pc = "gone" /\ verifying'.batch = verifying.batch
          /\ verifying'.closed = verifying.closed /\ verifying'.failed = verifying.failed
        BY <1>11, <1>a, ClosedMailbox DEF VerifierExits, MailboxAfterVerifier, VerifierStates
    <2>2. \A u \in Tags : ShareIsFollowed(u)' /\ Slot(u)' /\ Got(u)'
        BY <1>11, <2>1, <1>a DEF VerifierExits, ShareIsFollowed, Slot, Got
    <2>3. VerifierEndsLate'
        BY <1>11, <2>1, <1>c, <1>e DEF VerifierExits, VerifierEndsLate
    <2> QED BY <2>2, <2>3, <1>b
<1>12. ASSUME NEW ok \in BOOLEAN, ShutdownVerifier(ok) PROVE SharesInv'
    <2>1. native'.hashes = native.hashes
        BY <1>12 DEF ShutdownVerifier, Natives
    <2>2. Reached("shut")'
        <3>1. stop_locked'.pc = "shut" /\ "shut" \in StopStates
            BY <1>12, StopStatesAre DEF ShutdownVerifier, SessionTypeOK, Stops
        <3> QED BY <3>1, StepOrder DEF Reached
    <2>3. \A u \in Tags : ShareIsFollowed(u)' /\ Slot(u)' /\ Got(u)'
        BY <1>12, <2>1, <1>a DEF ShutdownVerifier, ShareIsFollowed, Slot, Got
    <2>4. VerifierEndsLate'
        BY <1>12, <2>2, <1>e DEF ShutdownVerifier, VerifierEndsLate
    <2> QED BY <2>3, <2>4, <1>b
<1>13. CASE DrainRest
    <2>1. mailbox'.closed /\ \A u \in Tags : mailbox'.slots[u] = "none"
        BY <1>13, <1>a, ClosedMailbox DEF DrainRest
    <2>2. Reached("shut") /\ native'.closed = native.closed
        BY <1>13, <1>6, StepOrder DEF Reached, DrainRest, SessionTypeOK, Stops
    <2>3. \A u \in Tags : ShareIsFollowed(u)' /\ Slot(u)' /\ Got(u)'
        BY SMTT(30), <1>13, <2>1, <1>6, <1>a DEF DrainRest, Ready, ShareIsFollowed, Slot, Got
    <2>4. VerifierEndsLate'
        BY <1>13, <2>2, <1>c, <1>e DEF DrainRest, VerifierEndsLate
    <2> QED BY <2>3, <2>4, <1>b
<1>14. CASE UNCHANGED <<mailbox, shares, native, verifying>>
    <2>1. \A u \in Tags : ShareIsFollowed(u)' /\ Slot(u)' /\ Got(u)'
        BY <1>14, <1>a DEF ShareIsFollowed, Slot, Got
    <2>2. VerifierEndsLate'
        BY <1>14, <1>c, <1>e DEF VerifierEndsLate
    <2> QED BY <2>1, <2>2, <1>b
<1> QED
    BY <1>1, <1>2, <1>3, <1>4, <1>5, <1>7, <1>8, <1>9, <1>10, <1>11, <1>12, <1>13, <1>14
    DEF ShutdownNext, ShareStep, VerifierStep, CandidateStep, TemplateStep, Rpc, StopLocked, shutdownVars,
        Look, BeginWait, TimedWaitEnds, CallDaemon, EndTask, RefreshTemplate, TemplateThreadEnds,
        FlushAccounting, StopBegins, StratumStopped, RequestCandidateStop, NotifyCandidates,
        ThreadsJoined, DaemonStops, FinalFlush, RequestVerifierStop, VerifierJoined, FinishSession

\* The steps of stop_locked, and what it has waited for.
LEMMA StopNext ==
    ASSUME SharesTypeOK, SessionTypeOK, StopIsOrdered, CleanSoFar, CallersAreKnown, SharesInv,
           [ShutdownNext]_shutdownVars
    PROVE  StopIsOrdered' /\ CleanSoFar'
<1> USE DEF SessionTypeOK
<1>1. Reached("drained")' => Drained'
    <2>1. CASE Reached("drained")
        <3>1. Drained /\ stop_locked.pc # "none"
            BY <2>1, StepOrder DEF Reached, Stops, StopIsOrdered
        <3>2. UNCHANGED shares
            BY <3>1
            DEF Drained, ShutdownNext, ShareStep, VerifierStep, CandidateStep, TemplateStep, Rpc, StopLocked,
                shutdownVars, submits, AdmitShare, RegisterShare, SubmitShare, RefuseShare, MarkShare,
                MarkShareFails, SleepInWait, ReturnFromWait, NativeHashes, DrainCompletions,
                PublishCompletion, EndBatch, LeaveLoop, ReportFailure, VerifierExits, VerifierFails, Look,
                BeginWait, TimedWaitEnds, CallDaemon, EndTask, RefreshTemplate, TemplateThreadEnds,
                FlushAccounting, StopBegins, StratumStopped, RequestCandidateStop, NotifyCandidates,
                ThreadsJoined, DaemonStops, ShutdownVerifier, FinalFlush, RequestVerifierStop,
                VerifierJoined, DrainRest, FinishSession
        <3> QED BY <3>1, <3>2 DEF Drained
    <2>2. CASE StratumStopped
        BY <2>2 DEF StratumStopped, Drained, submits
    <2> QED BY <2>1, <2>2, StopAdvances
<1>2. Reached("daemon")' => templating' = "gone" /\ \A w \in CandidateThreads : candidate_threads'[w] = "gone"
    <2>1. CASE ThreadsJoined
        BY <2>1 DEF ThreadsJoined
    <2>2. CASE Reached("daemon")
        <3>1. templating = "gone" /\ \A w \in CandidateThreads : candidate_threads[w] = "gone"
            BY <2>2 DEF StopIsOrdered
        <3>2. stop_locked.pc # "requested" /\ Drained
            BY <2>2, StepOrder DEF Reached, Stops, StopIsOrdered
        <3>3. UNCHANGED <<templating, candidate_threads>>
            BY <3>1, <3>2
            DEF Drained, ShutdownNext, ShareStep, VerifierStep, CandidateStep, TemplateStep, Rpc, StopLocked,
                shutdownVars, candidates, AdmitShare, RegisterShare, SubmitShare, RefuseShare, MarkShare,
                MarkShareFails, SleepInWait, ReturnFromWait, NativeHashes, DrainCompletions,
                PublishCompletion, EndBatch, LeaveLoop, ReportFailure, VerifierExits, VerifierFails, Look,
                BeginWait, TimedWaitEnds, CallDaemon, EndTask, RefreshTemplate, TemplateThreadEnds,
                FlushAccounting, StopBegins, StratumStopped, RequestCandidateStop, NotifyCandidates,
                ThreadsJoined, DaemonStops, ShutdownVerifier, FinalFlush, RequestVerifierStop,
                VerifierJoined, DrainRest, FinishSession
        <3> QED BY <3>1, <3>3
    <2> QED BY <2>1, <2>2, StopAdvances
<1>3. /\ DrainedNative.closed = native.closed
      /\ \A u \in Tags : DrainedNative.hashes[u] = IF u \in Ready THEN "drained" ELSE native.hashes[u]
    BY DEF DrainedNative, Natives, SharesTypeOK
<1>4. stop_locked'.pc # "stratum" => (stop_locked'.clean => stop_locked.clean)
    <2>1. ASSUME NEW ok \in BOOLEAN, StopBegins(ok) PROVE stop_locked'.pc = "stratum"
        BY <2>1 DEF StopBegins, Stops
    <2>2. ASSUME StopLocked, stop_locked'.clean PROVE stop_locked.clean
        BY <2>2
        DEF StopLocked, StratumStopped, RequestCandidateStop, NotifyCandidates, ThreadsJoined, DaemonStops,
            ShutdownVerifier, FinalFlush, RequestVerifierStop, VerifierJoined, DrainRest, FinishSession, Stops
    <2> QED BY <2>1, <2>2, StopMoves
<1>5. \A pc \in StopStates :
         /\ StepNumber(pc) >= StepNumber("shut") => pc \notin {"none", "stratum", "verifier"}
         /\ StepNumber(pc) >= StepNumber("shut") => StepNumber(pc) >= StepNumber("drained")
         /\ StepNumber(pc) >= StepNumber("flush") => StepNumber(pc) >= StepNumber("shut") /\ pc # "drain"
         /\ StepNumber(pc) >= StepNumber("finish") => StepNumber(pc) >= StepNumber("flush") /\ pc # "flush"
         /\ pc = "finished" => StepNumber(pc) >= StepNumber("finish") /\ StepNumber(pc) >= StepNumber("thread")
    BY StepOrder
<1>6. stop_locked.pc \in StopStates /\ stop_locked'.pc \in StopStates
    BY StopMoves DEF Stops
<1>7. Reached("shut") => native' = native \/ native' = DrainedNative \/ \E t \in Tags : NativeHashes(t)
    <2> SUFFICES ASSUME Reached("shut")
                 PROVE  native' = native \/ native' = DrainedNative \/ \E t \in Tags : NativeHashes(t)
        OBVIOUS
    <2>1. Drained /\ stop_locked.pc # "verifier"
        BY <1>5, <1>6 DEF Reached, StopIsOrdered
    <2> QED
        BY <2>1
        DEF Drained, ShutdownNext, ShareStep, VerifierStep, CandidateStep, TemplateStep, Rpc, StopLocked,
            shutdownVars, verifier, AdmitShare, RegisterShare, SubmitShare, RefuseShare, MarkShare,
            MarkShareFails, SleepInWait, ReturnFromWait, DrainCompletions,
            PublishCompletion, EndBatch, LeaveLoop, ReportFailure, VerifierExits, VerifierFails, Look,
            BeginWait, TimedWaitEnds, CallDaemon, EndTask, RefreshTemplate, TemplateThreadEnds,
            FlushAccounting, StopBegins, StratumStopped, RequestCandidateStop, NotifyCandidates,
            ThreadsJoined, DaemonStops, ShutdownVerifier, FinalFlush, RequestVerifierStop,
            VerifierJoined, DrainRest, FinishSession
<1>8. Reached("finish") => buffered' = buffered
    <2> SUFFICES ASSUME Reached("finish") PROVE buffered' = buffered
        OBVIOUS
    <2>1. Drained /\ stop_locked.pc # "flush" /\ Reached("flush")
        BY <1>5, <1>6 DEF Reached, StopIsOrdered
    <2> QED
        BY <2>1
        DEF Drained, ShutdownNext, ShareStep, VerifierStep, CandidateStep, TemplateStep, Rpc, StopLocked,
            shutdownVars, session, AdmitShare, RegisterShare, SubmitShare, RefuseShare, MarkShare,
            MarkShareFails, SleepInWait, ReturnFromWait, NativeHashes, DrainCompletions,
            PublishCompletion, EndBatch, LeaveLoop, ReportFailure, VerifierExits, VerifierFails, Look,
            BeginWait, TimedWaitEnds, CallDaemon, EndTask, RefreshTemplate, TemplateThreadEnds,
            FlushAccounting, StopBegins, StratumStopped, RequestCandidateStop, NotifyCandidates,
            ThreadsJoined, DaemonStops, ShutdownVerifier, FinalFlush, RequestVerifierStop,
            VerifierJoined, DrainRest, FinishSession
<1>9. stop_locked.pc = "finished" => flags' = flags
    <2> SUFFICES ASSUME stop_locked.pc = "finished" PROVE flags' = flags
        OBVIOUS
    <2>1. Drained /\ Reached("flush") /\ Reached("thread")
        BY <1>5, <1>6 DEF Reached, StopIsOrdered
    <2> QED
        BY <2>1
        DEF Drained, ShutdownNext, ShareStep, VerifierStep, CandidateStep, TemplateStep, Rpc, StopLocked,
            shutdownVars, session, AdmitShare, RegisterShare, SubmitShare, RefuseShare, MarkShare,
            MarkShareFails, SleepInWait, ReturnFromWait, NativeHashes, DrainCompletions,
            PublishCompletion, EndBatch, LeaveLoop, ReportFailure, VerifierExits, VerifierFails, Look,
            BeginWait, TimedWaitEnds, CallDaemon, EndTask, RefreshTemplate, TemplateThreadEnds,
            FlushAccounting, StopBegins, StratumStopped, RequestCandidateStop, NotifyCandidates,
            ThreadsJoined, DaemonStops, ShutdownVerifier, FinalFlush, RequestVerifierStop,
            VerifierJoined, DrainRest, FinishSession
<1>10. ASSUME stop_locked'.clean, Reached("shut")'
       PROVE  native'.closed /\ \A t \in Tags : native'.hashes[t] # "hashing"
    <2>1. stop_locked.clean
        BY <1>4, <1>5, <1>6, <1>10 DEF Reached
    <2>2. CASE Reached("shut")
        BY <1>3, <1>7, <2>1, <2>2 DEF CleanSoFar, NativeHashes
    <2>3. ASSUME NEW ok \in BOOLEAN, ShutdownVerifier(ok)
          PROVE  native'.closed /\ \A t \in Tags : native'.hashes[t] # "hashing"
        <3>1. ok
            BY <1>10, <2>3 DEF ShutdownVerifier, Stops
        <3> QED BY <2>3, <3>1 DEF ShutdownVerifier, SharesTypeOK, Natives
    <2> QED BY <1>10, <2>2, <2>3, StopAdvances
<1>11. ASSUME stop_locked'.clean, Reached("flush")'
       PROVE  \A t \in Tags : native'.hashes[t] \in {"none", "drained"}
    <2>1. stop_locked.clean
        BY <1>4, <1>5, <1>6, <1>11 DEF Reached
    <2>2. CASE Reached("flush")
        <3>1. Reached("shut") /\ \A t \in Tags : native.hashes[t] \in {"none", "drained"}
            BY <2>1, <2>2, <1>5, <1>6 DEF Reached, CleanSoFar
        <3> QED BY <1>3, <1>7, <3>1 DEF NativeHashes
    <2>3. CASE DrainRest
        <3>1. Reached("shut")
            BY <2>3, <1>6, StepOrder DEF DrainRest, Reached
        <3>2. \A t \in Tags : native.hashes[t] \in {"none", "ready", "drained"}
            BY <2>1, <3>1 DEF CleanSoFar, SharesTypeOK, Natives
        <3> QED BY <2>3, <1>3, <3>2 DEF DrainRest, Ready
    <2> QED BY <1>11, <2>2, <2>3, StopAdvances
<1>12. ASSUME stop_locked'.clean, Reached("finish")' PROVE ~buffered'
    <2>1. stop_locked.clean
        BY <1>4, <1>5, <1>6, <1>12 DEF Reached
    <2>2. CASE Reached("finish")
        BY <1>8, <2>1, <2>2 DEF CleanSoFar
    <2>3. ASSUME NEW ok \in BOOLEAN, FinalFlush(ok) PROVE ~buffered'
        BY <1>12, <2>3 DEF FinalFlush, Stops
    <2> QED BY <1>12, <2>2, <2>3, StopAdvances
<1>13. ASSUME stop_locked'.clean, stop_locked'.pc = "finished" PROVE flags'.database
    <2>1. CASE stop_locked.pc = "finished"
        BY <1>4, <1>9, <1>13, <2>1 DEF CleanSoFar
    <2>2. CASE stop_locked.pc # "finished"
        <3>1. FinishSession
            <4> USE DEF Stops
            <4>1. \A ok \in BOOLEAN : StopBegins(ok) => stop_locked'.pc # "finished"
                BY DEF StopBegins
            <4>2. \A ok \in BOOLEAN : ShutdownVerifier(ok) => stop_locked'.pc = "shut"
                BY DEF ShutdownVerifier
            <4>3. \A ok \in BOOLEAN : FinalFlush(ok) => stop_locked'.pc = "finish"
                BY DEF FinalFlush
            <4>4. (StratumStopped => stop_locked'.pc = "drained") /\ (DrainRest => stop_locked'.pc = "flush")
                BY DEF StratumStopped, DrainRest
            <4>5. /\ ~RequestCandidateStop /\ ~ThreadsJoined /\ ~DaemonStops
                  /\ ~RequestVerifierStop /\ ~VerifierJoined
                BY <1>13 DEF RequestCandidateStop, ThreadsJoined, DaemonStops,
                             RequestVerifierStop, VerifierJoined
            <4>6. NotifyCandidates => stop_locked'.pc = "join"
                BY DEF NotifyCandidates
            <4> QED BY <1>13, <2>2, <4>1, <4>2, <4>3, <4>4, <4>5, <4>6, StopMoves DEF StopLocked
        <3> QED BY <1>13, <3>1 DEF FinishSession, Stops
    <2> QED BY <2>1, <2>2
<1> QED
    BY <1>1, <1>2, <1>10, <1>11, <1>12, <1>13 DEF StopIsOrdered, CleanSoFar

LEMMA ShutdownStepInv == ShutdownInv /\ [ShutdownNext]_shutdownVars => ShutdownInv'
<1> SUFFICES ASSUME ShutdownInv, [ShutdownNext]_shutdownVars PROVE ShutdownInv'
    OBVIOUS
<1>1. /\ SharesTypeOK /\ SessionTypeOK /\ DaemonInv /\ SharesInv
      /\ StopIsOrdered /\ CleanSoFar /\ CallersAreKnown
    BY DEF ShutdownInv, SharesInv
<1>2. SharesTypeOK'
    BY <1>1, SharesTypeNext
<1>3. SessionTypeOK'
    BY <1>1, WorkersTypeNext, FlagsTypeNext, StopMoves DEF SessionTypeOK
<1>4. CallersAreKnown' /\ DaemonInv'
    BY <1>1, CallersNext
<1>5. SharesInv'
    BY <1>1, SharesNext
<1>6. StopIsOrdered' /\ CleanSoFar'
    BY <1>1, StopNext
<1> QED BY <1>2, <1>3, <1>4, <1>5, <1>6 DEF ShutdownInv, SharesInv

LEMMA ShutdownInvHolds == ShutdownSpec => []ShutdownInv
BY ShutdownInitInv, ShutdownStepInv, PTL DEF ShutdownSpec

\* The counters with which DaemonClient::post admits RPCs (in flight, waiting, waiting
\* with priority) are exact and within their limits, for any number of threads and any
\* limits, also while stop_locked wakes and refuses the waiting ones.
THEOREM SlotsAreExactAlways == ShutdownSpec => []SlotsAreExact
<1>1. ShutdownInv => SlotsAreExact
    BY DEF ShutdownInv, DaemonInv
<1> QED BY <1>1, ShutdownInvHolds, PTL

\* What CompletionMailbox::wait returns to a share is that share's own completion, and
\* while the verifier thread does not fail no share is failed by its wait, for any number
\* of shares and any capacity, also during stop_locked.
THEOREM CompletionsReachTheirSharesAlways == ShutdownSpec => []CompletionsReachTheirShares
<1>1. ShutdownInv => CompletionsReachTheirShares
    BY DEF ShutdownInv
<1> QED BY <1>1, ShutdownInvHolds, PTL

\* A session that stop_locked records as clean has decided every admitted share, drained
\* every completion, joined every thread and RPC, and written its accounting.
THEOREM CleanStopLosesNothingAlways == ShutdownSpec => []CleanStopLosesNothing
<1>1. ShutdownInv => CleanStopLosesNothing
    <2> SUFFICES ASSUME ShutdownInv, stop_locked.pc = "finished", stop_locked.clean
                 PROVE  /\ Drained /\ Slots(mailbox) = {}
                        /\ \A t \in Tags : native.hashes[t] \in {"none", "drained"}
                        /\ \A t \in Threads : rpcs[t] = "out"
                        /\ ~buffered /\ flags.database
        BY DEF CleanStopLosesNothing
    <2>1. Reached("drained") /\ Reached("daemon") /\ Reached("flush") /\ Reached("finish")
        BY StepOrder DEF ShutdownInv, SessionTypeOK, Stops, Reached
    <2>2. Drained
        BY <2>1 DEF ShutdownInv, StopIsOrdered
    <2>3. Slots(mailbox) = {}
        BY <2>2 DEF ShutdownInv, CompletionsReachTheirShares, Slots, Drained
    <2>4. \A t \in Threads : rpcs[t] = "out"
        BY <2>1, ShutdownAssumption DEF ShutdownInv, StopIsOrdered, CallersAreKnown
    <2> QED BY <2>1, <2>2, <2>3, <2>4 DEF ShutdownInv, CleanSoFar
<1> QED BY <1>1, ShutdownInvHolds, PTL

-----------------------------------------------------------------------------
(***************************************************************************)
(* The HTTP server: active and the counts per peer are those of the        *)
(* connections in the queue and with a worker.                             *)
(*                                                                         *)
(* A worker lets go of its peer before it lets go of its slot, so the two  *)
(* counters count different workers.                                       *)
(***************************************************************************)

LEMMA BusyFinite ==
    ASSUME NEW S, NEW p
    PROVE  /\ IsFiniteSet(BusyIn(S)) /\ Cardinality(BusyIn(S)) \in Nat
           /\ IsFiniteSet(ServingIn(S, p)) /\ Cardinality(ServingIn(S, p)) \in Nat
<1>1. BusyIn(S) \subseteq HttpWorkers /\ ServingIn(S, p) \subseteq HttpWorkers  BY DEF BusyIn, ServingIn
<1>. QED  BY <1>1, HttpAssumption, FS_Subset, FS_CardinalityType

\* What one worker's new place does to the counts.
LEMMA BusyMoves ==
    ASSUME NEW S \in [HttpWorkers -> ServerStates], NEW w \in HttpWorkers, NEW n \in ServerStates
    PROVE  Cardinality(BusyIn([S EXCEPT ![w] = n])) = Cardinality(BusyIn(S))
                 + (IF n.pc \in {"serve", "served", "forgotten"} THEN 1 ELSE 0)
                 - (IF S[w].pc \in {"serve", "served", "forgotten"} THEN 1 ELSE 0)
<1>. DEFINE T == [S EXCEPT ![w] = n]
            busy == {"serve", "served", "forgotten"}
<1>1. T[w] = n /\ \A v \in HttpWorkers : v # w => T[v] = S[v]  OBVIOUS
<1>2. IsFiniteSet(BusyIn(S)) /\ Cardinality(BusyIn(S)) \in Nat  BY BusyFinite
<1>3. CASE n.pc \in busy /\ S[w].pc \in busy
  <2>1. BusyIn(T) = BusyIn(S)  BY <1>1, <1>3 DEF BusyIn
  <2>. QED  BY SMTT(30), <2>1, <1>2, <1>3
<1>4. CASE n.pc \notin busy /\ S[w].pc \notin busy
  <2>1. BusyIn(T) = BusyIn(S)  BY <1>1, <1>4 DEF BusyIn
  <2>. QED  BY SMTT(30), <2>1, <1>2, <1>4
<1>5. CASE n.pc \in busy /\ S[w].pc \notin busy
  <2>1. BusyIn(T) = BusyIn(S) \cup {w} /\ w \notin BusyIn(S)  BY <1>1, <1>5 DEF BusyIn
  <2>2. Cardinality(BusyIn(T)) = Cardinality(BusyIn(S)) + 1  BY <2>1, <1>2, FS_AddElement
  <2>. QED  BY SMTT(30), <2>2, <1>2, <1>5
<1>6. CASE n.pc \notin busy /\ S[w].pc \in busy
  <2>1. BusyIn(T) = BusyIn(S) \ {w} /\ w \in BusyIn(S)  BY <1>1, <1>6 DEF BusyIn
  <2>2. Cardinality(BusyIn(T)) = Cardinality(BusyIn(S)) - 1  BY <2>1, <1>2, FS_RemoveElement
  <2>. QED  BY SMTT(30), <2>2, <1>2, <1>6
<1>. QED  BY <1>3, <1>4, <1>5, <1>6

LEMMA ServingMoves ==
    ASSUME NEW S \in [HttpWorkers -> ServerStates], NEW w \in HttpWorkers, NEW n \in ServerStates, NEW p \in Peers
    PROVE  Cardinality(ServingIn([S EXCEPT ![w] = n], p)) = Cardinality(ServingIn(S, p))
                 + (IF n.peer = p THEN 1 ELSE 0) - (IF S[w].peer = p THEN 1 ELSE 0)
<1>. DEFINE T == [S EXCEPT ![w] = n]
<1>1. T[w] = n /\ \A v \in HttpWorkers : v # w => T[v] = S[v]  OBVIOUS
<1>2. IsFiniteSet(ServingIn(S, p)) /\ Cardinality(ServingIn(S, p)) \in Nat  BY BusyFinite
<1>3. CASE n.peer = p /\ S[w].peer = p
  <2>1. ServingIn(T, p) = ServingIn(S, p)  BY <1>1, <1>3 DEF ServingIn
  <2>. QED  BY SMTT(30), <2>1, <1>2, <1>3
<1>4. CASE n.peer # p /\ S[w].peer # p
  <2>1. ServingIn(T, p) = ServingIn(S, p)  BY <1>1, <1>4 DEF ServingIn
  <2>. QED  BY SMTT(30), <2>1, <1>2, <1>4
<1>5. CASE n.peer = p /\ S[w].peer # p
  <2>1. ServingIn(T, p) = ServingIn(S, p) \cup {w} /\ w \notin ServingIn(S, p)  BY <1>1, <1>5 DEF ServingIn
  <2>2. Cardinality(ServingIn(T, p)) = Cardinality(ServingIn(S, p)) + 1  BY <2>1, <1>2, FS_AddElement
  <2>. QED  BY SMTT(30), <2>2, <1>2, <1>5
<1>6. CASE n.peer # p /\ S[w].peer = p
  <2>1. ServingIn(T, p) = ServingIn(S, p) \ {w} /\ w \in ServingIn(S, p)  BY <1>1, <1>6 DEF ServingIn
  <2>2. Cardinality(ServingIn(T, p)) = Cardinality(ServingIn(S, p)) - 1  BY <2>1, <1>2, FS_RemoveElement
  <2>. QED  BY SMTT(30), <2>2, <1>2, <1>6
<1>. QED  BY <1>3, <1>4, <1>5, <1>6

\* One more in the queue, and one less.
LEMMA QueuedFinite ==
    ASSUME NEW q \in Seq(Peers), NEW p
    PROVE  IsFiniteSet(QueuedIn(q, p)) /\ Cardinality(QueuedIn(q, p)) \in Nat
<1>1. PICK n \in Nat : n = Len(q)  BY SMTT(30)
<1>2. IsFiniteSet(1..n)  BY SMTT(30), FS_Interval
<1>3. QueuedIn(q, p) \subseteq 1..n  BY SMTT(30), <1>1 DEF QueuedIn
<1>. QED  BY <1>2, <1>3, FS_Subset, FS_CardinalityType

LEMMA QueuedAppend ==
    ASSUME NEW q \in Seq(Peers), NEW x \in Peers, NEW p \in Peers
    PROVE  /\ Append(q, x) \in Seq(Peers) /\ Len(Append(q, x)) = Len(q) + 1
           /\ Cardinality(QueuedIn(Append(q, x), p))
                 = Cardinality(QueuedIn(q, p)) + (IF p = x THEN 1 ELSE 0)
<1>1. /\ Append(q, x) \in Seq(Peers) /\ Len(Append(q, x)) = Len(q) + 1 /\ Len(q) \in Nat
      /\ \A k \in 1..Len(q) : Append(q, x)[k] = q[k]
      /\ Append(q, x)[Len(q) + 1] = x
      /\ DOMAIN Append(q, x) = 1..(Len(q) + 1) /\ DOMAIN q = 1..Len(q)
  BY SMTT(30)
<1>2. IsFiniteSet(QueuedIn(q, p)) /\ Cardinality(QueuedIn(q, p)) \in Nat  BY QueuedFinite
<1>3. CASE p = x
  <2>1. QueuedIn(Append(q, x), p) = QueuedIn(q, p) \cup {Len(q) + 1} /\ Len(q) + 1 \notin QueuedIn(q, p)
    BY SMTT(30), <1>1, <1>3 DEF QueuedIn
  <2>2. Cardinality(QueuedIn(Append(q, x), p)) = Cardinality(QueuedIn(q, p)) + 1
    BY <1>2, <2>1, FS_AddElement
  <2>. QED  BY <1>1, <1>3, <2>2
<1>4. CASE p # x
  <2>1. QueuedIn(Append(q, x), p) = QueuedIn(q, p)  BY SMTT(30), <1>1, <1>4 DEF QueuedIn
  <2>2. Cardinality(QueuedIn(q, p)) + 0 = Cardinality(QueuedIn(q, p))  BY SMTT(30), <1>2
  <2>. QED  BY <1>1, <1>4, <2>1, <2>2
<1>. QED  BY <1>3, <1>4

LEMMA QueuedTail ==
    ASSUME NEW q \in Seq(Peers), q # <<>>, NEW p \in Peers
    PROVE  /\ Tail(q) \in Seq(Peers) /\ Len(Tail(q)) = Len(q) - 1 /\ Head(q) \in Peers
           /\ Cardinality(QueuedIn(Tail(q), p))
                 = Cardinality(QueuedIn(q, p)) - (IF p = Head(q) THEN 1 ELSE 0)
<1>1. /\ Tail(q) \in Seq(Peers) /\ Len(Tail(q)) = Len(q) - 1 /\ Head(q) \in Peers /\ Head(q) = q[1]
      /\ \A k \in 1..(Len(q) - 1) : Tail(q)[k] = q[k + 1]
      /\ Len(q) \in Nat /\ Len(q) >= 1
      /\ DOMAIN Tail(q) = 1..(Len(q) - 1) /\ DOMAIN q = 1..Len(q)
  BY SMTT(30)
<1>2. IsFiniteSet(QueuedIn(q, p)) /\ Cardinality(QueuedIn(q, p)) \in Nat
      /\ IsFiniteSet(QueuedIn(Tail(q), p)) /\ Cardinality(QueuedIn(Tail(q), p)) \in Nat
  BY <1>1, QueuedFinite
<1>. DEFINE f == [i \in QueuedIn(Tail(q), p) |-> i + 1]
            rest == QueuedIn(q, p) \ {1}
<1>3. \A i \in QueuedIn(Tail(q), p) : i \in 1..(Len(q) - 1) /\ q[i + 1] = p  BY <1>1 DEF QueuedIn
<1>4. f \in [QueuedIn(Tail(q), p) -> rest]  BY SMTT(30), <1>1, <1>3 DEF QueuedIn
<1>5. \A j \in rest : \E i \in QueuedIn(Tail(q), p) : f[i] = j
  <2>. SUFFICES ASSUME NEW j \in rest PROVE \E i \in QueuedIn(Tail(q), p) : f[i] = j  OBVIOUS
  <2>1. j \in 1..Len(q) /\ j # 1 /\ q[j] = p  BY <1>1 DEF QueuedIn
  <2>2. j - 1 \in 1..(Len(q) - 1) /\ (j - 1) + 1 = j  BY SMTT(30), <1>1, <2>1
  <2>3. Tail(q)[j - 1] = p  BY <1>1, <2>1, <2>2
  <2>4. j - 1 \in QueuedIn(Tail(q), p)  BY <1>1, <2>2, <2>3 DEF QueuedIn
  <2>. QED  BY <2>2, <2>4
<1>6. \A a, b \in QueuedIn(Tail(q), p) : f[a] = f[b] => a = b  BY SMTT(30), <1>1, <1>3
<1>7. ExistsBijection(QueuedIn(Tail(q), p), rest)
  <2>1. f \in Bijection(QueuedIn(Tail(q), p), rest)
    BY <1>4, <1>5, <1>6 DEF Bijection, Injection, Surjection, IsInjective
  <2>. QED  BY <2>1 DEF ExistsBijection
<1>8. Cardinality(rest) = Cardinality(QueuedIn(Tail(q), p))  BY <1>2, <1>7, FS_Bijection
<1>9. CASE p = Head(q)
  <2>1. 1 \in QueuedIn(q, p)  BY SMTT(30), <1>1, <1>9 DEF QueuedIn
  <2>2. Cardinality(rest) = Cardinality(QueuedIn(q, p)) - 1  BY <1>2, <2>1, FS_RemoveElement
  <2>. QED  BY <1>1, <1>8, <1>9, <2>2
<1>10. CASE p # Head(q)
  <2>1. rest = QueuedIn(q, p)  BY <1>1, <1>10 DEF QueuedIn
  <2>2. Cardinality(QueuedIn(q, p)) - 0 = Cardinality(QueuedIn(q, p))  BY SMTT(30), <1>2
  <2>. QED  BY <1>1, <1>8, <1>10, <2>1, <2>2
<1>. QED  BY <1>9, <1>10

-----------------------------------------------------------------------------
LEMMA HttpInitInv == HttpInit => HttpInv
<1>. SUFFICES ASSUME HttpInit PROVE HttpInv  OBVIOUS
<1>1. /\ http.running = TRUE /\ http.queue = <<>> /\ http.active = 0 /\ http.accepted = 0
      /\ http.peers = [p \in Peers |-> 0] /\ http \in HttpStates
      /\ accepter.pc = "accept" /\ halt = "none"
      /\ accepter \in [pc : {"accept", "have", "notify", "gone"}, peer : Peers \cup {NoPeer}]
  BY SMTT(30) DEF HttpInit, HttpStates
<1>2. /\ servers \in [HttpWorkers -> ServerStates]
      /\ \A w \in HttpWorkers : servers[w].pc = "look" /\ servers[w].peer = NoPeer
  BY DEF HttpInit, ServerStates
<1>3. HttpTypes  BY <1>1, <1>2 DEF HttpTypes
<1>4. BusyIn(servers) = {}  BY <1>2 DEF BusyIn
<1>5. \A p \in Peers : ServingIn(servers, p) = {} /\ QueuedIn(http.queue, p) = {}
  BY SMTT(30), <1>1, <1>2, HttpAssumption DEF ServingIn, QueuedIn
<1>6. Cardinality({}) = 0  BY FS_EmptySet
<1>7. MaxConnections \in Nat /\ PerPeer \in Nat  BY HttpAssumption
<1>8. Len(http.queue) = 0  BY <1>1
<1>9. http.active = Len(http.queue) + Cardinality(BusyIn(servers)) /\ http.active <= MaxConnections
  BY SMTT(30), <1>1, <1>4, <1>6, <1>7, <1>8
<1>10. \A p \in Peers :
          /\ http.peers[p] = Cardinality(ServingIn(servers, p)) + Cardinality(QueuedIn(http.queue, p))
          /\ http.peers[p] <= PerPeer
  <2>. SUFFICES ASSUME NEW p \in Peers
                PROVE  /\ http.peers[p] = Cardinality(ServingIn(servers, p)) + Cardinality(QueuedIn(http.queue, p))
                       /\ http.peers[p] <= PerPeer
    OBVIOUS
  <2>1. /\ Cardinality(ServingIn(servers, p)) = 0 /\ Cardinality(QueuedIn(http.queue, p)) = 0
        /\ http.peers[p] = 0
    BY <1>1, <1>5, <1>6
  <2>. QED  BY SMTT(30), <1>7, <2>1
<1>11. HttpCounts  BY <1>1, <1>9, <1>10 DEF HttpCounts
<1>. QED  BY <1>3, <1>11 DEF HttpInv

\* The counts do not change: no connection comes or goes, and nobody is further than before.
LEMMA CountsSame ==
    ASSUME HttpInv, BusyIn(servers') = BusyIn(servers),
           \A p \in Peers : ServingIn(servers', p) = ServingIn(servers, p),
           http'.queue = http.queue, http'.active = http.active, http'.peers = http.peers,
           accepter'.pc = "have" => http.active < MaxConnections,
           halt' \in {"workers", "stopped"} => accepter'.pc = "gone",
           halt' = "stopped" <=> halt = "stopped",
           halt = "stopped" => servers' = servers
    PROVE  HttpCounts'
<1>1. HttpCounts /\ HttpTypes  BY DEF HttpInv
<1>3. CASE halt' = "stopped"
  BY <1>1, <1>3 DEF HttpCounts
<1>4. CASE halt # "stopped" /\ halt' # "stopped"
  BY <1>1, <1>4 DEF HttpCounts
<1>. QED  BY <1>3, <1>4 DEF HttpCounts

LEMMA AcceptHttpInv ==
    ASSUME HttpInv, NEW p \in Peers, AcceptHttp(p)
    PROVE  HttpInv'
<1>1. HttpTypes /\ HttpCounts  BY DEF HttpInv
<1>2. UNCHANGED <<servers, halt>> /\ http' = [http EXCEPT !.accepted = @ + 1] /\ accepter.pc = "accept"
  BY DEF AcceptHttp
<1>3. /\ http' \in HttpStates
      /\ http'.queue = http.queue /\ http'.active = http.active /\ http'.peers = http.peers
  <2>1. http \in HttpStates /\ http.accepted + 1 \in Nat  BY SMTT(30), <1>1 DEF HttpTypes, HttpStates
  <2>. QED  BY <1>2, <2>1 DEF HttpStates
<1>4. /\ accepter' \in [pc : {"accept", "have", "notify", "gone"}, peer : Peers \cup {NoPeer}]
      /\ accepter'.pc = "have" => accepter'.peer \in Peers
      /\ accepter'.pc = "have" => ~(http.active >= MaxConnections)
  BY <1>1 DEF AcceptHttp, HttpTypes
<1>5. HttpTypes'  BY <1>1, <1>2, <1>3, <1>4 DEF HttpTypes
<1>6. http.active \in Nat /\ MaxConnections \in Nat  BY <1>1, HttpAssumption DEF HttpTypes, HttpStates
<1>7. accepter'.pc = "have" => http.active < MaxConnections  BY SMTT(30), <1>4, <1>6
<1>8. halt' \in {"workers", "stopped"} => accepter'.pc = "gone"  BY <1>1, <1>2 DEF HttpCounts
<1>9. HttpCounts'  BY <1>2, <1>3, <1>7, <1>8, CountsSame
<1>. QED  BY <1>5, <1>9 DEF HttpInv

LEMMA QueueHttpInv == HttpInv /\ QueueHttp => HttpInv'
<1>. SUFFICES ASSUME HttpInv, QueueHttp PROVE HttpInv'  OBVIOUS
<1>1. HttpTypes /\ HttpCounts  BY DEF HttpInv
<1>2. UNCHANGED <<servers, halt>> /\ accepter.pc = "have"  BY DEF QueueHttp
<1>3. halt \notin {"workers", "stopped"}  BY <1>1, <1>2 DEF HttpCounts
<1>4. PICK p \in Peers : p = accepter.peer  BY <1>1, <1>2 DEF HttpTypes
<1>5. CASE Len(http.queue) >= QueueLimit \/ PeerIsFull(p)
  <2>1. http' = http /\ accepter' = [pc |-> "accept", peer |-> NoPeer]  BY <1>4, <1>5 DEF QueueHttp
  <2>2. HttpTypes'  BY <1>1, <1>2, <2>1 DEF HttpTypes
  <2>3. HttpCounts'  BY <1>2, <1>3, <2>1, CountsSame
  <2>. QED  BY <2>2, <2>3 DEF HttpInv
<1>6. CASE ~(Len(http.queue) >= QueueLimit \/ PeerIsFull(p))
  <2>1. /\ http' = [http EXCEPT !.queue = Append(@, p), !.peers[p] = @ + 1, !.active = @ + 1]
        /\ accepter' = [pc |-> "notify", peer |-> NoPeer]
    BY <1>4, <1>6 DEF QueueHttp
  <2>2. /\ http \in HttpStates /\ http.queue \in Seq(Peers) /\ http.active \in Nat
        /\ http.peers \in [Peers -> Nat] /\ http.peers[p] \in Nat
    BY <1>1 DEF HttpTypes, HttpStates
  <2>3. /\ http'.queue = Append(http.queue, p) /\ http'.active = http.active + 1
        /\ http'.peers = [http.peers EXCEPT ![p] = @ + 1]
    BY <2>1, <2>2 DEF HttpStates
  <2>4. /\ Append(http.queue, p) \in Seq(Peers) /\ Len(Append(http.queue, p)) = Len(http.queue) + 1
        /\ \A r \in Peers : Cardinality(QueuedIn(Append(http.queue, p), r))
                              = Cardinality(QueuedIn(http.queue, r)) + (IF r = p THEN 1 ELSE 0)
    BY <2>2, QueuedAppend
  <2>5. HttpTypes'
    <3>1. http.active + 1 \in Nat /\ [http.peers EXCEPT ![p] = @ + 1] \in [Peers -> Nat]  BY SMTT(30), <2>2
    <3>2. http' \in HttpStates  BY <2>1, <2>2, <2>4, <3>1 DEF HttpStates
    <3>. QED  BY <1>1, <1>2, <2>1, <3>2 DEF HttpTypes
  <2>6. http'.active = Len(http'.queue) + Cardinality(BusyIn(servers')) /\ http'.active <= MaxConnections
    <3>1. http.active = Len(http.queue) + Cardinality(BusyIn(servers)) /\ http.active < MaxConnections
      BY <1>1, <1>2, <1>3 DEF HttpCounts
    <3>2. Cardinality(BusyIn(servers)) \in Nat  BY BusyFinite
    <3>3. Len(http.queue) \in Nat /\ MaxConnections \in Nat  BY SMTT(30), <2>2, HttpAssumption
    <3>4. Len(http'.queue) = Len(http.queue) + 1 /\ Cardinality(BusyIn(servers')) = Cardinality(BusyIn(servers))
      BY <1>2, <2>3, <2>4
    <3>5. http'.active = http.active + 1 /\ http.active \in Nat  BY <2>2, <2>3
    <3>6. http.active + 1 = (Len(http.queue) + 1) + Cardinality(BusyIn(servers))  BY SMTT(30), <3>1, <3>2, <3>3
    <3>7. http.active + 1 <= MaxConnections  BY SMTT(30), <3>1, <3>3, <3>5
    <3>. QED  BY <3>4, <3>5, <3>6, <3>7
  <2>7. ASSUME NEW r \in Peers
        PROVE  /\ http'.peers[r] = Cardinality(ServingIn(servers', r)) + Cardinality(QueuedIn(http'.queue, r))
               /\ http'.peers[r] <= PerPeer
    <3>1. /\ http.peers[r] = Cardinality(ServingIn(servers, r)) + Cardinality(QueuedIn(http.queue, r))
          /\ http.peers[r] <= PerPeer
      BY <1>1, <1>3 DEF HttpCounts
    <3>2. Cardinality(ServingIn(servers, r)) \in Nat /\ Cardinality(QueuedIn(http.queue, r)) \in Nat
      BY <2>2, BusyFinite, QueuedFinite
    <3>3. PerPeer \in Nat /\ http.peers[r] \in Nat  BY <2>2, HttpAssumption
    <3>4. CASE r = p
      <4>1. http'.peers[r] = http.peers[r] + 1  BY <2>2, <2>3, <3>4
      <4>2. Cardinality(QueuedIn(http'.queue, r)) = Cardinality(QueuedIn(http.queue, r)) + 1
        BY <2>3, <2>4, <3>4
      <4>3. ~(http.peers[r] >= PerPeer)  BY <1>6, <3>4 DEF PeerIsFull
      <4>. QED  BY SMTT(30), <1>2, <3>1, <3>2, <3>3, <4>1, <4>2, <4>3
    <3>5. CASE r # p
      <4>1. http'.peers[r] = http.peers[r]  BY <2>2, <2>3, <3>5
      <4>2. Cardinality(QueuedIn(http'.queue, r)) = Cardinality(QueuedIn(http.queue, r))
        BY SMTT(30), <2>3, <2>4, <3>2, <3>5
      <4>. QED  BY <1>2, <3>1, <4>1, <4>2
    <3>. QED  BY <3>4, <3>5
  <2>8. HttpCounts'  BY <1>2, <1>3, <2>1, <2>6, <2>7 DEF HttpCounts
  <2>. QED  BY <2>5, <2>8 DEF HttpInv
<1>. QED  BY <1>5, <1>6

LEMMA OneServer ==
    ASSUME HttpTypes, NEW w \in HttpWorkers, NEW n \in ServerStates,
           servers' = [servers EXCEPT ![w] = n],
           n.pc \in {"serve", "served"} <=> n.peer # NoPeer
    PROVE  /\ servers' \in [HttpWorkers -> ServerStates] /\ servers'[w] = n
           /\ \A v \in HttpWorkers : v # w => servers'[v] = servers[v]
           /\ \A v \in HttpWorkers : servers'[v].pc \in {"serve", "served"} <=> servers'[v].peer # NoPeer
           /\ Cardinality(BusyIn(servers')) = Cardinality(BusyIn(servers))
                 + (IF n.pc \in {"serve", "served", "forgotten"} THEN 1 ELSE 0)
                 - (IF servers[w].pc \in {"serve", "served", "forgotten"} THEN 1 ELSE 0)
           /\ \A p \in Peers :
                 Cardinality(ServingIn(servers', p)) = Cardinality(ServingIn(servers, p))
                    + (IF n.peer = p THEN 1 ELSE 0) - (IF servers[w].peer = p THEN 1 ELSE 0)
<1>1. servers \in [HttpWorkers -> ServerStates]  BY DEF HttpTypes
<1>2. /\ servers' \in [HttpWorkers -> ServerStates] /\ servers'[w] = n
      /\ \A v \in HttpWorkers : v # w => servers'[v] = servers[v]
  BY <1>1
<1>3. \A v \in HttpWorkers : servers'[v].pc \in {"serve", "served"} <=> servers'[v].peer # NoPeer
  BY <1>2 DEF HttpTypes
<1>4. Cardinality(BusyIn(servers')) = Cardinality(BusyIn(servers))
         + (IF n.pc \in {"serve", "served", "forgotten"} THEN 1 ELSE 0)
         - (IF servers[w].pc \in {"serve", "served", "forgotten"} THEN 1 ELSE 0)
  BY <1>1, BusyMoves
<1>5. ASSUME NEW p \in Peers
      PROVE  Cardinality(ServingIn(servers', p)) = Cardinality(ServingIn(servers, p))
                + (IF n.peer = p THEN 1 ELSE 0) - (IF servers[w].peer = p THEN 1 ELSE 0)
  <2>1. Cardinality(ServingIn([servers EXCEPT ![w] = n], p)) = Cardinality(ServingIn(servers, p))
           + (IF n.peer = p THEN 1 ELSE 0) - (IF servers[w].peer = p THEN 1 ELSE 0)
    BY <1>1, ServingMoves
  <2>. QED  BY <2>1
<1>. QED  BY <1>2, <1>3, <1>4, <1>5

\* A worker moves without taking or leaving a connection.
LEMMA QuietServer ==
    ASSUME HttpInv, NEW w \in HttpWorkers, NEW n \in ServerStates,
           servers' = [servers EXCEPT ![w] = n], UNCHANGED <<http, accepter, halt>>,
           n.pc \in {"serve", "served"} <=> n.peer # NoPeer, n.peer = servers[w].peer,
           n.pc \in {"serve", "served", "forgotten"} <=> servers[w].pc \in {"serve", "served", "forgotten"},
           servers[w].pc # "gone"
    PROVE  HttpInv'
<1>1. HttpTypes /\ HttpCounts  BY DEF HttpInv
<1>2. /\ servers' \in [HttpWorkers -> ServerStates] /\ servers'[w] = n
      /\ \A v \in HttpWorkers : v # w => servers'[v] = servers[v]
      /\ \A v \in HttpWorkers : servers'[v].pc \in {"serve", "served"} <=> servers'[v].peer # NoPeer
  BY <1>1, OneServer
<1>3. HttpTypes'  BY <1>1, <1>2 DEF HttpTypes
<1>4. BusyIn(servers') = BusyIn(servers)  BY <1>2 DEF BusyIn
<1>5. \A p \in Peers : ServingIn(servers', p) = ServingIn(servers, p)  BY SMTT(30), <1>2 DEF ServingIn
<1>6. halt # "stopped"  BY <1>1 DEF HttpCounts
<1>7. /\ accepter'.pc = "have" => http.active < MaxConnections
      /\ halt' \in {"workers", "stopped"} => accepter'.pc = "gone"
  BY <1>1 DEF HttpCounts
<1>8. HttpCounts'  BY <1>4, <1>5, <1>6, <1>7, CountsSame
<1>. QED  BY <1>3, <1>8 DEF HttpInv

LEMMA TakeHttpInv ==
    ASSUME HttpInv, NEW w \in HttpWorkers, TakeHttp(w)
    PROVE  HttpInv'
<1>1. HttpTypes /\ HttpCounts  BY DEF HttpInv
<1>2. servers[w].pc = "look" /\ UNCHANGED <<accepter, halt>>  BY DEF TakeHttp
<1>3. servers[w] \in ServerStates /\ servers[w].peer = NoPeer  BY <1>1, <1>2 DEF HttpTypes
<1>4. halt # "stopped"  BY <1>1, <1>2 DEF HttpCounts
<1>5. CASE http.queue = <<>>
  <2>. DEFINE n == [servers[w] EXCEPT !.pc = IF http.running THEN "blocking" ELSE "gone"]
  <2>1. servers' = [servers EXCEPT ![w] = n] /\ http' = http  BY <1>1, <1>5 DEF TakeHttp, HttpTypes
  <2>2. n \in ServerStates /\ n.peer = NoPeer /\ n.pc \in {"blocking", "gone"}  BY <1>3 DEF ServerStates
  <2>. HIDE DEF n
  <2>. QED  BY <1>2, <1>3, <2>1, <2>2, QuietServer
<1>6. CASE http.queue # <<>>
  <2>1. /\ http \in HttpStates /\ http.queue \in Seq(Peers) /\ http.active \in Nat
        /\ http.peers \in [Peers -> Nat] /\ Len(http.queue) \in Nat
    BY SMTT(30), <1>1 DEF HttpTypes, HttpStates
  <2>2. PICK p \in Peers : p = Head(http.queue)  BY SMTT(30), <1>6, <2>1, QueuedTail
  <2>. DEFINE n == [pc |-> "serve", peer |-> p, requests |-> 0]
  <2>3. servers' = [servers EXCEPT ![w] = n] /\ http' = [http EXCEPT !.queue = Tail(@)]
    BY <1>6, <2>2 DEF TakeHttp
  <2>4. n \in ServerStates /\ n.peer = p /\ n.pc = "serve" /\ p # NoPeer  BY HttpAssumption DEF ServerStates
  <2>. HIDE DEF n
  <2>5. /\ Tail(http.queue) \in Seq(Peers) /\ Len(Tail(http.queue)) = Len(http.queue) - 1
        /\ \A r \in Peers : Cardinality(QueuedIn(Tail(http.queue), r))
                              = Cardinality(QueuedIn(http.queue, r)) - (IF r = p THEN 1 ELSE 0)
    BY <1>6, <2>1, <2>2, QueuedTail
  <2>6. /\ http' \in HttpStates /\ http'.queue = Tail(http.queue)
        /\ http'.active = http.active /\ http'.peers = http.peers
    BY <2>1, <2>3, <2>5 DEF HttpStates
  <2>7. /\ servers' \in [HttpWorkers -> ServerStates]
        /\ \A v \in HttpWorkers : servers'[v].pc \in {"serve", "served"} <=> servers'[v].peer # NoPeer
        /\ Cardinality(BusyIn(servers')) = Cardinality(BusyIn(servers)) + 1 - 0
        /\ \A r \in Peers :
              Cardinality(ServingIn(servers', r)) = Cardinality(ServingIn(servers, r))
                 + (IF p = r THEN 1 ELSE 0) - (IF NoPeer = r THEN 1 ELSE 0)
    <3>1. n.pc \in {"serve", "served"} <=> n.peer # NoPeer  BY <2>4
    <3>2. /\ servers' \in [HttpWorkers -> ServerStates]
          /\ \A v \in HttpWorkers : servers'[v].pc \in {"serve", "served"} <=> servers'[v].peer # NoPeer
          /\ Cardinality(BusyIn(servers')) = Cardinality(BusyIn(servers))
                + (IF n.pc \in {"serve", "served", "forgotten"} THEN 1 ELSE 0)
                - (IF servers[w].pc \in {"serve", "served", "forgotten"} THEN 1 ELSE 0)
          /\ \A r \in Peers :
                Cardinality(ServingIn(servers', r)) = Cardinality(ServingIn(servers, r))
                   + (IF n.peer = r THEN 1 ELSE 0) - (IF servers[w].peer = r THEN 1 ELSE 0)
      BY <1>1, <2>3, <2>4, <3>1, OneServer
    <3>. QED  BY <1>2, <1>3, <2>4, <3>2
  <2>8. HttpTypes'  BY <1>1, <1>2, <2>6, <2>7 DEF HttpTypes
  <2>9. http'.active = Len(http'.queue) + Cardinality(BusyIn(servers'))
    <3>1. http.active = Len(http.queue) + Cardinality(BusyIn(servers))  BY <1>1, <1>4 DEF HttpCounts
    <3>2. Cardinality(BusyIn(servers)) \in Nat  BY BusyFinite
    <3>3. Len(http'.queue) = Len(http.queue) - 1  BY <2>5, <2>6
    <3>4. http.active = (Len(http.queue) - 1) + (Cardinality(BusyIn(servers)) + 1 - 0)  BY SMTT(30), <2>1, <3>1, <3>2
    <3>. QED  BY <2>6, <2>7, <3>3, <3>4
  <2>10. ASSUME NEW r \in Peers
         PROVE  http'.peers[r] = Cardinality(ServingIn(servers', r)) + Cardinality(QueuedIn(http'.queue, r))
    <3>1. http.peers[r] = Cardinality(ServingIn(servers, r)) + Cardinality(QueuedIn(http.queue, r))
      BY <1>1, <1>4 DEF HttpCounts
    <3>2. Cardinality(ServingIn(servers, r)) \in Nat /\ Cardinality(QueuedIn(http.queue, r)) \in Nat
      BY <2>1, BusyFinite, QueuedFinite
    <3>3. NoPeer # r  BY HttpAssumption
    <3>4. CASE r = p
      <4>1. Cardinality(ServingIn(servers', r)) = Cardinality(ServingIn(servers, r)) + 1
        BY SMTT(30), <2>7, <3>2, <3>3, <3>4
      <4>2. Cardinality(QueuedIn(http'.queue, r)) = Cardinality(QueuedIn(http.queue, r)) - 1
        BY <2>5, <2>6, <3>4
      <4>. QED  BY SMTT(30), <2>6, <3>1, <3>2, <4>1, <4>2
    <3>5. CASE r # p
      <4>1. Cardinality(ServingIn(servers', r)) = Cardinality(ServingIn(servers, r))
        BY SMTT(30), <2>7, <3>2, <3>3, <3>5
      <4>2. Cardinality(QueuedIn(http'.queue, r)) = Cardinality(QueuedIn(http.queue, r))
        BY SMTT(30), <2>5, <2>6, <3>2, <3>5
      <4>. QED  BY <2>6, <3>1, <4>1, <4>2
    <3>. QED  BY <3>4, <3>5
  <2>11. HttpCounts'
    <3>1. /\ http'.active <= MaxConnections /\ (accepter'.pc = "have" => http'.active < MaxConnections)
          /\ \A r \in Peers : http'.peers[r] <= PerPeer
          /\ halt' \in {"workers", "stopped"} => accepter'.pc = "gone"
          /\ halt' # "stopped"
      BY <1>1, <1>2, <1>4, <2>6 DEF HttpCounts
    <3>. QED  BY <2>9, <2>10, <3>1 DEF HttpCounts
  <2>. QED  BY <2>8, <2>11 DEF HttpInv
<1>. QED  BY <1>5, <1>6

LEMMA QuietStepsInv ==
    ASSUME HttpInv, NEW w \in HttpWorkers, SleepHttp(w) \/ AnswerHttp(w) \/ CloseHttp(w)
    PROVE  HttpInv'
<1>1. HttpTypes  BY DEF HttpInv
<1>2. servers[w] \in ServerStates /\ (servers[w].pc \in {"serve", "served"} <=> servers[w].peer # NoPeer)
      /\ servers \in [HttpWorkers -> ServerStates]
  BY <1>1 DEF HttpTypes
<1>3. CASE SleepHttp(w)
  <2>. DEFINE n == [servers[w] EXCEPT !.pc = "asleep"]
  <2>1. /\ servers' = [servers EXCEPT ![w] = n] /\ UNCHANGED <<http, accepter, halt>>
        /\ servers[w].pc = "blocking"
    BY <1>2, <1>3 DEF SleepHttp
  <2>2. n \in ServerStates /\ n.peer = servers[w].peer /\ n.pc = "asleep"  BY <1>2 DEF ServerStates
  <2>. HIDE DEF n
  <2>. QED  BY <1>2, <2>1, <2>2, QuietServer
<1>4. CASE AnswerHttp(w)
  <2>. DEFINE n == [servers[w] EXCEPT !.requests = @ + 1]
  <2>1. /\ servers' = [servers EXCEPT ![w] = n] /\ UNCHANGED <<http, accepter, halt>>
        /\ servers[w].pc = "serve"
    BY <1>2, <1>4 DEF AnswerHttp
  <2>2. n \in ServerStates /\ n.peer = servers[w].peer /\ n.pc = servers[w].pc  BY SMTT(30), <1>2 DEF ServerStates
  <2>. HIDE DEF n
  <2>. QED  BY <1>2, <2>1, <2>2, QuietServer
<1>5. CASE CloseHttp(w)
  <2>. DEFINE n == [servers[w] EXCEPT !.pc = "served"]
  <2>1. /\ servers' = [servers EXCEPT ![w] = n] /\ UNCHANGED <<http, accepter, halt>>
        /\ servers[w].pc = "serve"
    BY <1>2, <1>5 DEF CloseHttp
  <2>2. n \in ServerStates /\ n.peer = servers[w].peer /\ n.pc = "served"  BY <1>2 DEF ServerStates
  <2>. HIDE DEF n
  <2>. QED  BY <1>2, <2>1, <2>2, QuietServer
<1>. QED  BY <1>3, <1>4, <1>5

LEMMA ForgetPeerInv ==
    ASSUME HttpInv, NEW w \in HttpWorkers, ForgetPeer(w)
    PROVE  HttpInv'
<1>1. HttpTypes /\ HttpCounts  BY DEF HttpInv
<1>2. servers[w].pc = "served" /\ UNCHANGED <<accepter, halt>>  BY DEF ForgetPeer
<1>3. servers \in [HttpWorkers -> ServerStates] /\ servers[w] \in ServerStates  BY <1>1 DEF HttpTypes
<1>4. PICK p \in Peers : p = servers[w].peer  BY <1>1, <1>2, <1>3 DEF HttpTypes, ServerStates
<1>5. halt # "stopped"  BY <1>1, <1>2 DEF HttpCounts
<1>. DEFINE n == [[servers[w] EXCEPT !.pc = "forgotten"] EXCEPT !.peer = NoPeer]
<1>6. servers' = [servers EXCEPT ![w] = n] /\ http' = [http EXCEPT !.peers = [http.peers EXCEPT ![p] = @ - 1]]
  BY <1>3, <1>4 DEF ForgetPeer, PeersAfter
<1>7. n \in ServerStates /\ n.peer = NoPeer /\ n.pc = "forgotten"  BY <1>3 DEF ServerStates
<1>. HIDE DEF n
<1>8. /\ servers' \in [HttpWorkers -> ServerStates]
      /\ \A v \in HttpWorkers : servers'[v].pc \in {"serve", "served"} <=> servers'[v].peer # NoPeer
      /\ Cardinality(BusyIn(servers')) = Cardinality(BusyIn(servers))
            + (IF n.pc \in {"serve", "served", "forgotten"} THEN 1 ELSE 0)
            - (IF servers[w].pc \in {"serve", "served", "forgotten"} THEN 1 ELSE 0)
      /\ \A r \in Peers :
            Cardinality(ServingIn(servers', r)) = Cardinality(ServingIn(servers, r))
               + (IF n.peer = r THEN 1 ELSE 0) - (IF servers[w].peer = r THEN 1 ELSE 0)
  <2>1. n.pc \in {"serve", "served"} <=> n.peer # NoPeer  BY <1>7
  <2>. QED  BY <1>1, <1>6, <1>7, <2>1, OneServer
<1>9. \A r \in Peers : /\ Cardinality(ServingIn(servers, r)) \in Nat /\ Cardinality(BusyIn(servers)) \in Nat
                       /\ Cardinality(ServingIn(servers', r)) \in Nat
  BY BusyFinite
<1>10. http \in HttpStates /\ http.queue \in Seq(Peers) /\ http.peers \in [Peers -> Nat]
  BY <1>1 DEF HttpTypes, HttpStates
<1>11. Cardinality(BusyIn(servers')) = Cardinality(BusyIn(servers))  BY SMTT(30), <1>2, <1>7, <1>8, <1>9
<1>12. ASSUME NEW r \in Peers
       PROVE  /\ [http.peers EXCEPT ![p] = @ - 1][r]
                    = Cardinality(ServingIn(servers', r)) + Cardinality(QueuedIn(http.queue, r))
              /\ [http.peers EXCEPT ![p] = @ - 1][r] <= PerPeer
              /\ [http.peers EXCEPT ![p] = @ - 1][r] \in Nat
  <2>1. /\ http.peers[r] = Cardinality(ServingIn(servers, r)) + Cardinality(QueuedIn(http.queue, r))
        /\ http.peers[r] <= PerPeer /\ http.peers[r] \in Nat
    BY <1>1, <1>5, <1>10 DEF HttpCounts
  <2>2. Cardinality(QueuedIn(http.queue, r)) \in Nat  BY <1>10, QueuedFinite
  <2>3. NoPeer # r /\ PerPeer \in Nat  BY HttpAssumption
  <2>4. CASE r = p
    <3>1. Cardinality(ServingIn(servers', r)) = Cardinality(ServingIn(servers, r)) - 1
      BY SMTT(30), <1>4, <1>7, <1>8, <1>9, <2>3, <2>4
    <3>2. [http.peers EXCEPT ![p] = @ - 1][r] = http.peers[r] - 1  BY <1>10, <2>4
    <3>3. Cardinality(ServingIn(servers, r)) \in Nat /\ Cardinality(ServingIn(servers', r)) \in Nat  BY <1>9
    <3>. QED  BY SMTT(30), <2>1, <2>2, <2>3, <3>1, <3>2, <3>3
  <2>5. CASE r # p
    <3>1. Cardinality(ServingIn(servers', r)) = Cardinality(ServingIn(servers, r))
      BY SMTT(30), <1>4, <1>7, <1>8, <1>9, <2>3, <2>5
    <3>2. [http.peers EXCEPT ![p] = @ - 1][r] = http.peers[r]  BY <1>10, <2>5
    <3>. QED  BY <2>1, <3>1, <3>2
  <2>. QED  BY <2>4, <2>5
<1>13. [http.peers EXCEPT ![p] = @ - 1] \in [Peers -> Nat]  BY <1>10, <1>12
<1>14. /\ http' \in HttpStates /\ http'.peers = [http.peers EXCEPT ![p] = @ - 1]
       /\ http'.queue = http.queue /\ http'.active = http.active
  BY <1>6, <1>10, <1>13 DEF HttpStates
<1>15. HttpTypes'  BY <1>1, <1>2, <1>8, <1>14 DEF HttpTypes
<1>16. HttpCounts'
  <2>1. /\ http'.active <= MaxConnections /\ (accepter'.pc = "have" => http'.active < MaxConnections)
        /\ halt' \in {"workers", "stopped"} => accepter'.pc = "gone"
        /\ halt' # "stopped" /\ http'.active = Len(http'.queue) + Cardinality(BusyIn(servers'))
    BY <1>1, <1>2, <1>5, <1>11, <1>14 DEF HttpCounts
  <2>2. \A r \in Peers : /\ http'.peers[r] = Cardinality(ServingIn(servers', r)) + Cardinality(QueuedIn(http'.queue, r))
                         /\ http'.peers[r] <= PerPeer
    BY <1>12, <1>14
  <2>. QED  BY <2>1, <2>2 DEF HttpCounts
<1>. QED  BY <1>15, <1>16 DEF HttpInv

LEMMA ReleaseHttpInv ==
    ASSUME HttpInv, NEW w \in HttpWorkers, ReleaseHttp(w)
    PROVE  HttpInv'
<1>1. HttpTypes /\ HttpCounts  BY DEF HttpInv
<1>2. servers[w].pc = "forgotten" /\ UNCHANGED <<accepter, halt>>  BY DEF ReleaseHttp
<1>3. servers \in [HttpWorkers -> ServerStates] /\ servers[w] \in ServerStates /\ servers[w].peer = NoPeer
  BY <1>1, <1>2 DEF HttpTypes
<1>4. halt # "stopped"  BY <1>1, <1>2 DEF HttpCounts
<1>. DEFINE n == [[servers[w] EXCEPT !.pc = "look"] EXCEPT !.requests = 0]
<1>5. servers' = [servers EXCEPT ![w] = n] /\ http' = [http EXCEPT !.active = @ - 1]
  BY <1>3 DEF ReleaseHttp
<1>6. n \in ServerStates /\ n.peer = NoPeer /\ n.pc = "look"  BY <1>3 DEF ServerStates
<1>. HIDE DEF n
<1>7. /\ servers' \in [HttpWorkers -> ServerStates] /\ servers'[w] = n
      /\ \A v \in HttpWorkers : v # w => servers'[v] = servers[v]
      /\ \A v \in HttpWorkers : servers'[v].pc \in {"serve", "served"} <=> servers'[v].peer # NoPeer
      /\ Cardinality(BusyIn(servers')) = Cardinality(BusyIn(servers))
            + (IF n.pc \in {"serve", "served", "forgotten"} THEN 1 ELSE 0)
            - (IF servers[w].pc \in {"serve", "served", "forgotten"} THEN 1 ELSE 0)
  <2>1. n.pc \in {"serve", "served"} <=> n.peer # NoPeer  BY <1>6
  <2>. QED  BY <1>1, <1>5, <1>6, <2>1, OneServer
<1>8. \A p \in Peers : ServingIn(servers', p) = ServingIn(servers, p)  BY SMTT(30), <1>3, <1>6, <1>7 DEF ServingIn
<1>9. http \in HttpStates /\ http.queue \in Seq(Peers) /\ http.active \in Nat /\ Len(http.queue) \in Nat
  BY SMTT(30), <1>1 DEF HttpTypes, HttpStates
<1>10. /\ http.active - 1 = Len(http.queue) + Cardinality(BusyIn(servers'))
       /\ http.active - 1 \in Nat
       /\ http.active - 1 <= MaxConnections
       /\ http.active < MaxConnections => http.active - 1 < MaxConnections
  <2>1. http.active = Len(http.queue) + Cardinality(BusyIn(servers)) /\ http.active <= MaxConnections
    BY <1>1, <1>4 DEF HttpCounts
  <2>2. Cardinality(BusyIn(servers)) \in Nat /\ Cardinality(BusyIn(servers')) \in Nat  BY BusyFinite
  <2>3. MaxConnections \in Nat  BY HttpAssumption
  <2>4. Cardinality(BusyIn(servers')) = Cardinality(BusyIn(servers)) - 1  BY SMTT(30), <1>2, <1>6, <1>7, <2>2
  <2>. QED  BY SMTT(30), <1>9, <2>1, <2>2, <2>3, <2>4
<1>11. /\ http' \in HttpStates /\ http'.active = http.active - 1
       /\ http'.queue = http.queue /\ http'.peers = http.peers
  BY <1>5, <1>9, <1>10 DEF HttpStates
<1>12. HttpTypes'  BY <1>1, <1>2, <1>7, <1>11 DEF HttpTypes
<1>13. HttpCounts'
  <2>1. /\ (accepter'.pc = "have" => http'.active < MaxConnections)
        /\ halt' \in {"workers", "stopped"} => accepter'.pc = "gone"
        /\ halt' # "stopped" /\ \A p \in Peers : http'.peers[p] <= PerPeer
        /\ \A p \in Peers :
              http'.peers[p] = Cardinality(ServingIn(servers', p)) + Cardinality(QueuedIn(http'.queue, p))
    BY <1>1, <1>2, <1>4, <1>8, <1>10, <1>11 DEF HttpCounts
  <2>2. http'.active = Len(http'.queue) + Cardinality(BusyIn(servers')) /\ http'.active <= MaxConnections
    BY <1>10, <1>11
  <2>. QED  BY <2>1, <2>2 DEF HttpCounts
<1>. QED  BY <1>12, <1>13 DEF HttpInv

\* Workers that sleep are woken.
LEMMA WokenHttp ==
    ASSUME HttpInv,
           servers' \in [HttpWorkers -> ServerStates],
           \A w \in HttpWorkers : servers'[w] = servers[w]
                                  \/ /\ servers[w].pc = "asleep" /\ servers'[w].pc = "look"
                                     /\ servers'[w].peer = servers[w].peer
    PROVE  /\ \A w \in HttpWorkers : servers'[w].pc \in {"serve", "served"} <=> servers'[w].peer # NoPeer
           /\ BusyIn(servers') = BusyIn(servers)
           /\ \A p \in Peers : ServingIn(servers', p) = ServingIn(servers, p)
           /\ halt = "stopped" => servers' = servers
<1>1. HttpTypes /\ HttpCounts  BY DEF HttpInv
<1>2. \A w \in HttpWorkers : servers'[w].pc \in {"serve", "served"} <=> servers'[w].peer # NoPeer
  BY <1>1 DEF HttpTypes
<1>3. BusyIn(servers') = BusyIn(servers)  BY DEF BusyIn
<1>4. \A p \in Peers : ServingIn(servers', p) = ServingIn(servers, p)  BY DEF ServingIn
<1>5. ASSUME halt = "stopped" PROVE servers' = servers
  <2>1. \A w \in HttpWorkers : servers'[w] = servers[w]  BY <1>1, <1>5 DEF HttpCounts
  <2>. QED  BY SMTT(30), <1>1, <2>1 DEF HttpTypes
<1>. QED  BY <1>2, <1>3, <1>4, <1>5

LEMMA NotifyQueuedInv == HttpInv /\ NotifyQueued => HttpInv'
<1>. SUFFICES ASSUME HttpInv, NotifyQueued PROVE HttpInv'  OBVIOUS
<1>1. HttpTypes /\ HttpCounts  BY DEF HttpInv
<1>2. /\ accepter.pc = "notify" /\ accepter' = [accepter EXCEPT !.pc = "accept"] /\ UNCHANGED <<http, halt>>
      /\ servers' \in WokenByQueue
  BY DEF NotifyQueued
<1>3. /\ accepter' \in [pc : {"accept", "have", "notify", "gone"}, peer : Peers \cup {NoPeer}]
      /\ accepter'.pc = "accept"
  BY <1>1, <1>2 DEF HttpTypes
<1>4. servers \in [HttpWorkers -> ServerStates]  BY <1>1 DEF HttpTypes
<1>5. /\ servers' \in [HttpWorkers -> ServerStates]
      /\ \A w \in HttpWorkers : servers'[w] = servers[w]
                                \/ /\ servers[w].pc = "asleep" /\ servers'[w].pc = "look"
                                   /\ servers'[w].peer = servers[w].peer
  <2>1. CASE servers' = servers  BY <1>4, <2>1
  <2>2. ASSUME NEW w \in Asleep, servers' = [servers EXCEPT ![w].pc = "look"]
        PROVE  <1>5!2 /\ <1>5!1
    BY <1>4, <2>2 DEF Asleep, ServerStates
  <2>. QED  BY <1>2, <2>1, <2>2 DEF WokenByQueue
<1>6. /\ \A w \in HttpWorkers : servers'[w].pc \in {"serve", "served"} <=> servers'[w].peer # NoPeer
      /\ BusyIn(servers') = BusyIn(servers)
      /\ \A p \in Peers : ServingIn(servers', p) = ServingIn(servers, p)
      /\ halt = "stopped" => servers' = servers
  BY <1>5, WokenHttp
<1>7. HttpTypes'  BY <1>1, <1>2, <1>3, <1>5, <1>6 DEF HttpTypes
<1>8. halt \notin {"workers", "stopped"}  BY <1>1, <1>2 DEF HttpCounts
<1>9. HttpCounts'  BY <1>2, <1>3, <1>6, <1>8, CountsSame
<1>. QED  BY <1>7, <1>9 DEF HttpInv

LEMMA LeaveAcceptInv == HttpInv /\ LeaveAccept => HttpInv'
<1>. SUFFICES ASSUME HttpInv, LeaveAccept PROVE HttpInv'  OBVIOUS
<1>1. HttpTypes /\ HttpCounts  BY DEF HttpInv
<1>2. /\ accepter' = [accepter EXCEPT !.pc = "gone"] /\ UNCHANGED <<http, servers, halt>>
  BY DEF LeaveAccept
<1>3. /\ accepter' \in [pc : {"accept", "have", "notify", "gone"}, peer : Peers \cup {NoPeer}]
      /\ accepter'.pc = "gone"
  BY <1>1, <1>2 DEF HttpTypes
<1>4. HttpTypes'  BY <1>1, <1>2, <1>3 DEF HttpTypes
<1>5. HttpCounts'  BY <1>2, <1>3, CountsSame
<1>. QED  BY <1>4, <1>5 DEF HttpInv

LEMMA HaltInv == HttpInv /\ (BeginHalt \/ NotifyHalt \/ EndHalt) => HttpInv'
<1>. SUFFICES ASSUME HttpInv, BeginHalt \/ NotifyHalt \/ EndHalt PROVE HttpInv'  OBVIOUS
<1>1. HttpTypes /\ HttpCounts  BY DEF HttpInv
<1>2. http \in HttpStates /\ servers \in [HttpWorkers -> ServerStates]  BY <1>1 DEF HttpTypes
<1>3. CASE BeginHalt
  <2>1. /\ http' \in HttpStates
        /\ http'.queue = http.queue /\ http'.active = http.active /\ http'.peers = http.peers
        /\ halt = "none" /\ halt' = "notify" /\ UNCHANGED <<accepter, servers>>
    BY <1>2, <1>3 DEF BeginHalt, HttpStates
  <2>2. HttpTypes'  BY <1>1, <2>1 DEF HttpTypes
  <2>3. accepter'.pc = "have" => http.active < MaxConnections  BY <1>1, <2>1 DEF HttpCounts
  <2>4. HttpCounts'  BY <2>1, <2>3, CountsSame
  <2>. QED  BY <2>2, <2>4 DEF HttpInv
<1>4. CASE NotifyHalt
  <2>1. /\ servers' = WokenAll /\ UNCHANGED <<http, accepter>>
        /\ halt' \in {"accept", "workers"} /\ halt \in {"notify", "accept"}
        /\ halt' = "workers" => accepter.pc = "gone"
    BY <1>4 DEF NotifyHalt
  <2>2. /\ servers' \in [HttpWorkers -> ServerStates]
        /\ \A w \in HttpWorkers : servers'[w] = servers[w]
                                  \/ /\ servers[w].pc = "asleep" /\ servers'[w].pc = "look"
                                     /\ servers'[w].peer = servers[w].peer
    BY <1>2, <2>1 DEF WokenAll, Asleep, ServerStates
  <2>3. /\ \A w \in HttpWorkers : servers'[w].pc \in {"serve", "served"} <=> servers'[w].peer # NoPeer
        /\ BusyIn(servers') = BusyIn(servers)
        /\ \A p \in Peers : ServingIn(servers', p) = ServingIn(servers, p)
        /\ halt = "stopped" => servers' = servers
    BY <2>2, WokenHttp
  <2>4. HttpTypes'  BY <1>1, <2>1, <2>2, <2>3 DEF HttpTypes
  <2>5. accepter'.pc = "have" => http.active < MaxConnections  BY <1>1, <2>1 DEF HttpCounts
  <2>6. HttpCounts'  BY <2>1, <2>3, <2>5, CountsSame
  <2>. QED  BY <2>4, <2>6 DEF HttpInv
<1>5. CASE EndHalt
  <2>1. /\ halt = "workers" /\ halt' = "stopped" /\ UNCHANGED <<accepter, servers>>
        /\ \A w \in HttpWorkers : servers[w].pc = "gone"
    BY <1>5 DEF EndHalt
  <2>2. /\ http' \in HttpStates /\ http'.active = http.active
        /\ \A p \in Peers : http'.peers[p] = 0
    <3>. DEFINE none == [p \in Peers |-> 0]
    <3>1. none \in [Peers -> Nat] /\ <<>> \in Seq(Peers) /\ \A p \in Peers : none[p] = 0  BY SMTT(30)
    <3>2. http' = [[http EXCEPT !.queue = <<>>] EXCEPT !.peers = none]  BY <1>2, <1>5 DEF EndHalt, QueueAfterHalt, HttpStates
    <3>. HIDE DEF none
    <3>. QED  BY <1>2, <3>1, <3>2 DEF HttpStates
  <2>3. HttpTypes'  BY <1>1, <2>1, <2>2 DEF HttpTypes
  <2>4. PerPeer \in Nat  BY HttpAssumption
  <2>5. http.active <= MaxConnections /\ (accepter.pc = "have" => http.active < MaxConnections)
        /\ accepter.pc = "gone"
    BY <1>1, <2>1 DEF HttpCounts
  <2>6. \A p \in Peers : http'.peers[p] <= PerPeer  BY SMTT(30), <2>2, <2>4
  <2>7. HttpCounts'  BY <2>1, <2>2, <2>5, <2>6 DEF HttpCounts
  <2>. QED  BY <2>3, <2>7 DEF HttpInv
<1>. QED  BY <1>3, <1>4, <1>5

LEMMA HttpNextInv == HttpInv /\ [HttpNext]_httpVars => HttpInv'
<1>. SUFFICES ASSUME HttpInv, [HttpNext]_httpVars PROVE HttpInv'  OBVIOUS
<1>1. CASE \E p \in Peers : AcceptHttp(p)  BY <1>1, AcceptHttpInv
<1>2. CASE AccepterStep  BY <1>2, QueueHttpInv, NotifyQueuedInv, LeaveAcceptInv DEF AccepterStep
<1>3. CASE \E w \in HttpWorkers : ServerStep(w)
  BY <1>3, TakeHttpInv, QuietStepsInv, ForgetPeerInv, ReleaseHttpInv DEF ServerStep
<1>4. CASE BeginHalt \/ NotifyHalt \/ EndHalt  BY <1>4, HaltInv
<1>5. CASE UNCHANGED httpVars
  <2>1. HttpTypes'  BY <1>5 DEF HttpInv, HttpTypes, httpVars
  <2>2. HttpCounts'  BY <1>5 DEF HttpInv, HttpCounts, httpVars
  <2>. QED  BY <2>1, <2>2 DEF HttpInv
<1>. QED  BY <1>1, <1>2, <1>3, <1>4, <1>5 DEF HttpNext

\* active_ and peer_active_ of the HTTP server count exactly the connections that are
\* queued or with a worker, and never exceed config_.max_connections and
\* kMaxConnectionsPerPeer, for any number of workers and peers, although accept_loop
\* tests active_ without the mutex.
THEOREM HttpCountsAreExactAlways == HttpSpec => []HttpCountsAreExact
<1>1. HttpInit => HttpInv  BY HttpInitInv
<1>2. HttpInv /\ [HttpNext]_httpVars => HttpInv'  BY HttpNextInv
<1>3. HttpInv => HttpCountsAreExact
  BY DEF HttpInv, HttpCounts, HttpCountsAreExact, BusyIn, ServingIn, QueuedIn, Serving, Queued
<1>. QED  BY <1>1, <1>2, <1>3, PTL DEF HttpSpec

===============================================================================
