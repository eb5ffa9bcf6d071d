----------------------------- MODULE MCServices -----------------------------
(***************************************************************************)
(* Instances, for TLC, of components that share no state with each other.  *)
(* A behaviour is one of the component that subject names; the others stay *)
(* as they are.                                                            *)
(***************************************************************************)
EXTENDS EventFeed, HttpServer, RateLimiter, HookSupervisor, Entropy, RoundAccounting, ProofOfWork

CONSTANTS w1, w2, f, c1, p1, p2, p3, h1, h2, s1, s2

OddDifficulty == [s \in Shares |-> IF s = s1 THEN 2 ELSE 1]

NoInput == [kind |-> "none"]

VARIABLE subject

vars == <<subject, allVars, httpVars, rateVars, hookVars, entropyVars, db, powVars>>

ServicesInit ==
    /\ subject \in {"feed", "http", "rate", "hook", "entropy", "accounting", "pow"}
    /\ FeedInit /\ HttpInit /\ RateInit /\ HookInit /\ EntropyInit /\ Init
    /\ IF subject = "pow" THEN PowInit ELSE input = NoInput /\ result = Pending

ServicesNext ==
    \/ /\ subject = "feed" /\ FeedNext
       /\ UNCHANGED <<subject, httpVars, rateVars, hookVars, entropyVars, db, powVars>>
    \/ /\ subject = "http" /\ HttpNext
       /\ UNCHANGED <<subject, allVars, rateVars, hookVars, entropyVars, db, powVars>>
    \/ /\ subject = "rate" /\ RateNext
       /\ UNCHANGED <<subject, allVars, httpVars, hookVars, entropyVars, db, powVars>>
    \/ /\ subject = "hook" /\ HookNext
       /\ UNCHANGED <<subject, allVars, httpVars, rateVars, entropyVars, db, powVars>>
    \/ /\ subject = "entropy" /\ EntropyNext
       /\ UNCHANGED <<subject, allVars, httpVars, rateVars, hookVars, db, powVars>>
    \/ /\ subject = "accounting" /\ Next
       /\ UNCHANGED <<subject, allVars, httpVars, rateVars, hookVars, entropyVars, powVars>>
    \/ /\ subject = "pow" /\ PowNext
       /\ UNCHANGED <<subject, allVars, httpVars, rateVars, hookVars, entropyVars, db>>

\* What the properties need of FeedFairness, HttpFairness, HookFairness and
\* EntropyFairness, and the fairness of FairAccountingSpec, for the subject.
FairFeed(A) == subject = "feed" /\ A /\ UNCHANGED <<subject, httpVars, rateVars, hookVars, entropyVars, db, powVars>>
FairHttp(A) == subject = "http" /\ A /\ UNCHANGED <<subject, allVars, rateVars, hookVars, entropyVars, db, powVars>>
FairHook(A) == subject = "hook" /\ A /\ UNCHANGED <<subject, allVars, httpVars, rateVars, entropyVars, db, powVars>>
FairEntropy(A) == subject = "entropy" /\ A /\ UNCHANGED <<subject, allVars, httpVars, rateVars, hookVars, db, powVars>>
FairAccounting(A) == subject = "accounting" /\ A /\ UNCHANGED <<subject, allVars, httpVars, rateVars, hookVars, entropyVars, powVars>>

ServicesFairness ==
    /\ \A p \in Callers : WF_vars(FairFeed(Scheduling(p)))
    /\ \A w \in Writers : WF_vars(FairFeed(Write(w)))
    /\ WF_vars(FairFeed(ForwardStep))
    /\ WF_vars(FairHttp(AccepterStep))
    /\ WF_vars(FairHttp(NotifyHalt \/ EndHalt))
    /\ \A w \in HttpWorkers : WF_vars(FairHttp(ServerStep(w)))
    /\ WF_vars(FairHook(Supervise))
    /\ WF_vars(FairHook(\E othersEnd \in BOOLEAN : Deadline(othersEnd)))
    /\ WF_vars(FairHook(hook.pc = "watch" /\ LeaderEnds("exit0")))
    /\ \A b \in Blocks \ Broken : SF_vars(FairHook(DelayIsOver(b)))
    /\ WF_vars(FairEntropy(Maintain))
    /\ WF_vars(FairEntropy(SecondPasses))
    /\ WF_vars(FairAccounting(FlushAccounting))
    /\ \A s \in Shares : WF_vars(FairAccounting(JudgeShare(s)))

ServicesSpec == ServicesInit /\ [][ServicesNext]_vars /\ ServicesFairness
=============================================================================
