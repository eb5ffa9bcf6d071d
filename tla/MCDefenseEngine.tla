--------------------------- MODULE MCDefenseEngine ---------------------------
(* Two addresses, a table of one peer state and one ban. *)
EXTENDS DefenseEngine, TLC

CONSTANTS p1, p2

MCPeers == {p1, p2}
PeerSymmetry == Permutations(MCPeers)
MCLimit == [a \in AbuseKinds |-> 2]
MCWindow == [a \in AbuseKinds |-> 1]

\* In the last second no candidate is in flight.
LastSecondBound == now' = MaxTime => \A p \in Peers : tasks'[p] = 0

BoundedSpec == Init /\ [][Next /\ LastSecondBound]_vars
=============================================================================
