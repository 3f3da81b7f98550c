---------------------------- MODULE MC_Connector ----------------------------
(* One tenant, one connection object per request (each /connect         *)
(* allocates a fresh one), two Start goroutines and four requests.       *)
EXTENDS Connector, TLC

CONSTANTS o1, o2, o3, o4, s1, s2, r1, r2, r3, r4

MCConnIds  == {o1, o2, o3, o4}
MCStartIds == {s1, s2}
MCReqs     == {r1, r2, r3, r4}
\* Enough for connect, start and stop, for the liveness runs.
MCFewReqs  == {r1, r2, r3}
MCFewConnIds  == {o1, o2, o3}

\* Requests, Start goroutines and connection objects are interchangeable.
MCSymmetry == Permutations(MCConnIds) \cup Permutations(MCStartIds)
                \cup Permutations(MCReqs)

=============================================================================
