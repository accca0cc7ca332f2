--------------------------- MODULE MCRoomManager ---------------------------
(* Instances of RoomManager for TLC: one goroutine per client, two clients *)
(* of one user and, where there is a third, one of another user.           *)
EXTENDS RoomManager, TLC

CONSTANTS p1, p2, p3, c1, c2, c3, u1, u2, duel

ClientOfThree == p1 :> c1 @@ p2 :> c2 @@ p3 :> c3
UserOfThree == c1 :> u1 @@ c2 :> u1 @@ c3 :> u2
OneType == [r \in RoomID |-> duel]

\* Rooms are interchangeable, and so are the two clients of u1 with their
\* goroutines.
Swap(x, y) == x :> y @@ y :> x
Symmetry ==
    {f @@ g : f \in Permutations(RoomID), g \in {p1 :> p1, Swap(p1, p2) @@ Swap(c1, c2)}}
=============================================================================
