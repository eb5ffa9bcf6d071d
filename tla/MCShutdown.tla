----------------------------- MODULE MCShutdown -----------------------------
(***************************************************************************)
(* Instances of Shutdown and of SubmitLanes for TLC.  The two share no     *)
(* state: a behaviour is one of the component that subject names.          *)
(***************************************************************************)
EXTENDS Shutdown, SubmitLanes

CONSTANTS s1, s2, k1, tpl, c1, w1, w2

VARIABLE subject

stopVars == <<subject, shutdownVars, vars>>

\* A candidate task, or a call of the template thread, is under way with at most one
\* share; no fair action is ever blocked.
Bound == (\A t \in Tags : shares'[t].pc # "none") => tasks'.made = 0 /\ rpcs'[tpl] = "out"

\* Ids that are not alive are interchangeable: a request comes with one that is alive
\* or with the first that is not.
IdBound ==
    \A c \in Connections : \A i \in conns'[c].ids \ conns[c].ids :
        \A j \in Ids : j < i => j \in conns[c].ids

StopInit == subject \in {"server", "lanes"} /\ ShutdownInit /\ Init

OfServer(A) == subject = "server" /\ A /\ UNCHANGED <<subject, vars>>
OfLanes(A) == subject = "lanes" /\ A /\ UNCHANGED <<subject, shutdownVars>>

\* ShutdownFairness, and what AdmittedIsAnswered needs of Fairness.
StopFairness ==
    /\ \A t \in Tags : WF_stopVars(OfServer(ShareStep(t))) /\ WF_stopVars(OfServer(NativeHashes(t)))
    /\ WF_stopVars(OfServer(VerifierStep))
    /\ \A w \in CandidateThreads : WF_stopVars(OfServer(CandidateStep(w)))
    /\ \A t \in Threads : WF_stopVars(OfServer(Rpc(t)))
    /\ WF_stopVars(OfServer(TemplateThreadEnds))
    /\ WF_stopVars(OfServer(~flags.running /\ \E ok \in BOOLEAN : StopBegins(ok)))
    /\ WF_stopVars(OfServer(StopLocked))
    /\ \A w \in AllWorkers : WF_stopVars(OfLanes(Work(w)))
    /\ WF_stopVars(OfLanes(HandleSubmit)) /\ WF_stopVars(OfLanes(DrainResults({})))

BoundedSpec ==
    StopInit /\ [][OfServer(ShutdownNext /\ Bound) \/ OfLanes(Next /\ IdBound)]_stopVars /\ StopFairness
=============================================================================
