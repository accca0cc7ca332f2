------------------------------- MODULE MCRoom -------------------------------
(* Instances of Room for TLC: one goroutine per client. *)
EXTENDS Room, TLC

CONSTANTS p1, p2, p3, c1, c2, c3

TwoCallers == p1 :> c1 @@ p2 :> c2
ThreeCallers == p1 :> c1 @@ p2 :> c2 @@ p3 :> c3

\* Callers are interchangeable together with their clients (only invariants
\* and no grace timers are checked under it).
PairSymmetry ==
    { [x \in Caller \cup Client |->
         IF x \in Caller THEN g[x]
         ELSE ClientOf[g[CHOOSE p \in Caller : ClientOf[p] = x]]]
      : g \in Permutations(Caller) }
=============================================================================
