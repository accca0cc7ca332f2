---------------------------- MODULE MCConnection ----------------------------
(* Instances of Connection for TLC: one room. *)
EXTENDS Connection

CONSTANTS r1

Auth == [type |-> "auth", topic |-> PersonalTopic]
OfRoom(type) == [type |-> type, topic |-> RoomTopic(r1)]

\* Authenticate, join and leave.
JoinAndLeave == {Auth, OfRoom("join"), OfRoom("leave")}

\* Subscriptions of the peer's own too: to the room's topic, and dropping a
\* topic that has the room's id for its name.
AllMessages ==
    JoinAndLeave \cup
    { OfRoom("subscribe"), OfRoom("unsubscribe"),
      [type |-> "unsubscribe", topic |-> [room |-> FALSE, id |-> r1]] }
=============================================================================
