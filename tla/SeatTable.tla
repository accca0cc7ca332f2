----------------------------- MODULE SeatTable -----------------------------
(***************************************************************************)
(* What a room promises those who use it: a table of seats.  A call begins *)
(* on a room that is listed, takes effect in one step, all of it or none,  *)
(* and returns what it did.  There is no actor, no inbox and no timer here *)
(* and the seats are counted exactly.                                      *)
(*                                                                         *)
(* Once the room is cancelled a call may also return without an answer; it *)
(* may have taken effect, or do so later, but not after the removal.       *)
(***************************************************************************)
EXTENDS Naturals, FiniteSets

CONSTANTS
    Client,      \* clients
    Caller,      \* goroutines that use the room
    ClientOf,    \* the client each of them acts for
    MaxPlayers,  \* the cap, 0 for none
    Panics       \* whether module code may panic

VARIABLES
    seats,  \* the clients seated
    open,   \* whether the room takes players
    op,     \* per caller: the call it is in
    life    \* registered, unregistered, cancelled, removed

vars == <<seats, open, op, life>>

Method == {"Join", "JoinReplace", "Leave", "Close", "Open", "Info",
           "HandleMessage"}

NoOp == [pc |-> "idle"]
Pending(fn, old) == [pc |-> "pending", fn |-> fn, old |-> old]
Done(fn, old, ok) == [pc |-> "done", fn |-> fn, old |-> old, ok |-> ok]

Init ==
    /\ seats = {}
    /\ open = TRUE
    /\ op = [p \in Caller |-> NoOp]
    /\ life = "registered"

NoSeatBeside(others) == MaxPlayers > 0 /\ Cardinality(others) >= MaxPlayers

(***************************************************************************)
(* What a call of client c does and whether it succeeds.  A swap gives the *)
(* seat of the old client to the new one in one step; one that is refused  *)
(* leaves the old client where it is.  Only a panic of onLeave ends a swap *)
(* half-way.                                                               *)
(***************************************************************************)
Effect(fn, c, old, ok) ==
    LET others == IF fn = "JoinReplace" THEN seats \ {old} ELSE seats IN
    \/ /\ fn \in {"Join", "JoinReplace"}
       /\ open /\ ~NoSeatBeside(others)
       /\ seats' = others \cup {c}
       /\ ok /\ UNCHANGED open
    \/ /\ fn \in {"Join", "JoinReplace"}
       /\ ~open \/ NoSeatBeside(others)
       /\ ~ok /\ UNCHANGED <<seats, open>>
    \/ /\ fn = "JoinReplace" /\ Panics
       /\ open /\ old \in seats
       /\ seats' = others
       /\ ok /\ UNCHANGED open
    \/ /\ fn = "Leave"
       /\ seats' = seats \ {c}
       /\ ok /\ UNCHANGED open
    \/ /\ fn \in {"Close", "Open"}
       /\ open' = (fn = "Open")
       /\ ok /\ UNCHANGED seats
    \/ /\ fn = "Info" \/ (fn = "HandleMessage" /\ (ok => c \in seats))
       /\ UNCHANGED <<seats, open>>

Begin(p) ==
    /\ life = "registered"
    /\ op[p] = NoOp
    /\ \E fn \in Method, old \in Client :
          op' = [op EXCEPT ![p] = Pending(fn, old)]
    /\ UNCHANGED <<seats, open, life>>

TakeEffect(p) ==
    /\ op[p].pc = "pending"
    /\ \E ok \in BOOLEAN :
          /\ Effect(op[p].fn, ClientOf[p], op[p].old, ok)
          /\ op' = [op EXCEPT ![p] = Done(op[p].fn, op[p].old, ok)]
    /\ UNCHANGED life

Return(p) ==
    /\ op[p].pc = "done"
    /\ op' = [op EXCEPT ![p] = NoOp]
    /\ UNCHANGED <<seats, open, life>>

\* The call returns ErrRoomClosed, or nothing, because the room shuts down.
GiveUp(p) ==
    /\ life \in {"cancelled", "removed"}
    /\ op[p] # NoOp
    /\ op' = [op EXCEPT ![p] = NoOp]
    /\ UNCHANGED <<seats, open, life>>

\* A call that was given up takes effect.
Late ==
    /\ life = "cancelled"
    /\ UNCHANGED <<op, life>>
    /\ \E c, old \in Client, fn \in Method, ok \in BOOLEAN : Effect(fn, c, old, ok)

RemovalGoesOn ==
    /\ \/ life = "registered" /\ life' = "unregistered"
       \/ life = "unregistered" /\ life' = "cancelled"
       \/ life = "cancelled" /\ life' = "removed"
    /\ UNCHANGED <<seats, open, op>>

Next ==
    \/ \E p \in Caller : Begin(p) \/ TakeEffect(p) \/ Return(p) \/ GiveUp(p)
    \/ Late
    \/ RemovalGoesOn

Spec == Init /\ [][Next]_vars
=============================================================================
