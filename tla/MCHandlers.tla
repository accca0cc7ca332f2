----------------------------- MODULE MCHandlers -----------------------------
(* Instances of Handlers for TLC: connections of two users; a goroutine is *)
(* its client and the name of its loop.                                    *)
EXTENDS Handlers, TLC

CONSTANTS c1, c2, u1, u2, duel

Loop == Client \X {"handle", "read"}
ClientOfLoop == [p \in Loop |-> p[1]]
HandleLoopOf == [c \in Client |-> <<c, "handle">>]
ReadLoopOf == [c \in Client |-> <<c, "read">>]

TwoUsers == c1 :> u1 @@ c2 :> u2
OneType == [r \in RoomID |-> duel]

\* Rooms are interchangeable.
RoomSymmetry == Permutations(RoomID)
=============================================================================
