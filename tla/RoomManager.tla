---------------------------- MODULE RoomManager ----------------------------
(***************************************************************************)
(* The room manager (src/room/manager.go): the map of rooms, the singleton *)
(* records userSessions, and the calls JoinRoom and LeaveRoom that move    *)
(* between the manager's lock and the rooms' actors.                       *)
(*                                                                         *)
(* A step is one critical section of the manager's lock or one blocking    *)
(* call into a room.  Such a call is atomic here: module Room shows what   *)
(* happens inside.  After Shutdown a room refuses every call; a closure    *)
(* that still ran unreported would change a room that is in no map.        *)
(***************************************************************************)
EXTENDS RoomOps

CONSTANTS
    RoomID,      \* bound: the rooms that may be created (ids are never reused)
    Type,        \* room types
    TypeOf,      \* the type each room is created with
    User,        \* users
    UserOf,      \* the user behind each client
    Caller,      \* goroutines that use the manager
    ClientOf,    \* the client each of them acts for
    Modes,       \* the singleton modes rooms are created with
    MaxPlayers,  \* config.MaxPlayers of every room
    Rejoins,     \* whether a client asks to join a room that seats it already
    NoRoom,      \* the room of a caller that is in no call
    NoSession    \* no singleton record

SingletonMode == {"Allow", "Reject", "Replace"}

ASSUME TypeOfAssumption == TypeOf \in [RoomID -> Type]
ASSUME UserOfAssumption == UserOf \in [Client -> User]
ASSUME ClientOfAssumption == ClientOf \in [Caller -> Client]
ASSUME ModesAssumption == Modes \subseteq SingletonMode
ASSUME MaxPlayersAssumption == MaxPlayers \in Uint16Value
ASSUME RejoinsAssumption == Rejoins \in BOOLEAN

\* sessionInfo
Session == [room : RoomID, client : Client]

ASSUME NoSessionAssumption == NoSession \notin Session /\ NoRoom \notin RoomID

VARIABLES
    status,        \* per room: not created, in m.rooms, taken out of it, shut down
    mode,          \* per room: config.SingletonMode
    room,          \* per room: the state its actor guards
    userSessions,  \* m.userSessions
    call           \* per caller: the call it is in

vars == <<status, mode, room, userSessions, call>>

config == [maxPlayers |-> MaxPlayers, emptyGrace |-> FALSE]

Registered(r) == status[r] = "registered"

(***************************************************************************)
(* r is the room of the call and oldSess the local variable of JoinRoom.   *)
(* seat, rollback and info are steps of JoinRoom after the record is made; *)
(* find, evict and evicted take the replaced client out of its room; leave *)
(* is the last step of LeaveRoom, and schedule the second closure of a     *)
(* Leave that emptied the room.                                            *)
(***************************************************************************)
CallState ==
    [ pc      : {"idle", "seat", "find", "evict", "evicted", "rollback",
                 "info", "leave", "schedule"},
      r       : RoomID \cup {NoRoom},
      oldSess : Session \cup {NoSession} ]

IdleCall == [pc |-> "idle", r |-> NoRoom, oldSess |-> NoSession]

Init ==
    /\ status = [r \in RoomID |-> "none"]
    /\ mode = [r \in RoomID |-> "Allow"]
    /\ room = [r \in RoomID |-> newRoom(config, "return")]
    /\ userSessions = [u \in User |-> [t \in Type |-> NoSession]]
    /\ call = [p \in Caller |-> IdleCall]

UserOfCaller(p) == UserOf[ClientOf[p]]
Mine(p) == [room |-> call[p].r, client |-> ClientOf[p]]
Record(p) == userSessions[UserOfCaller(p)][TypeOf[call[p].r]]

-----------------------------------------------------------------------------
(* Creation and removal of rooms.                                          *)

Create(r, md) ==
    /\ status[r] = "none"
    /\ status' = [status EXCEPT ![r] = "registered"]
    /\ mode' = [mode EXCEPT ![r] = md]
    /\ UNCHANGED <<room, userSessions, call>>

\* Mutant of cleanupSessionType: the records of the room are kept.
keepSessionType(r) == userSessions

\* The records without those that point to r.
cleanupSessionType(r) ==
    [u \in User |->
       [userSessions[u] EXCEPT ![TypeOf[r]] =
          IF @ # NoSession /\ @.room = r THEN NoSession ELSE @]]

\* Remove, up to the unlock: from an explicit call or the on-empty callback.
Remove(r) ==
    /\ Registered(r)
    /\ status' = [status EXCEPT ![r] = "unregistered"]
    /\ userSessions' = cleanupSessionType(r)
    /\ UNCHANGED <<mode, room, call>>

OnEmpty(r) ==
    /\ room[r].onEmptyDue
    /\ room' = [room EXCEPT ![r].onEmptyDue = FALSE]
    /\ status' = [status EXCEPT ![r] = IF Registered(r) THEN "unregistered" ELSE @]
    /\ userSessions' = IF Registered(r) THEN cleanupSessionType(r) ELSE userSessions
    /\ UNCHANGED <<mode, call>>

\* ShutdownAll, up to the unlock.
ShutdownAll ==
    /\ \E r \in RoomID : Registered(r)
    /\ status' = [r \in RoomID |-> IF Registered(r) THEN "unregistered" ELSE status[r]]
    /\ userSessions' = [u \in User |-> [t \in Type |-> NoSession]]
    /\ UNCHANGED <<mode, room, call>>

\* room.Shutdown, after the unlock of Remove or ShutdownAll.
Shutdown(r) ==
    /\ status[r] = "unregistered"
    /\ status' = [status EXCEPT ![r] = "shutdown"]
    /\ UNCHANGED <<mode, room, userSessions, call>>

-----------------------------------------------------------------------------
(* JoinRoom.                                                               *)

\* The first critical section: find the room, check and write the record.
JoinRoom(p, r) ==
    LET c   == ClientOf[p]
        old == IF mode[r] = "Allow" THEN NoSession
               ELSE userSessions[UserOf[c]][TypeOf[r]]
        new == [room |-> r, client |-> c]
    IN
    /\ call[p].pc = "idle"
    /\ Registered(r)
    /\ Rejoins \/ c \notin room[r].players
    /\ ~(mode[r] = "Reject" /\ old \notin {NoSession, new})
    /\ userSessions' = IF mode[r] = "Allow" THEN userSessions
                       ELSE [userSessions EXCEPT ![UserOf[c]][TypeOf[r]] = new]
    /\ call' = [call EXCEPT ![p] = [pc |-> "seat", r |-> r, oldSess |-> old]]
    /\ UNCHANGED <<status, mode, room>>

\* `replaced`: the record of another client or another room.
Replaced(p) == call[p].oldSess \notin {NoSession, Mine(p)}

InPlace(p) == Replaced(p) /\ call[p].oldSess.room = call[p].r

\* What r.JoinReplace or r.Join does.
SeatResult(p) ==
    LET r == call[p].r
        c == ClientOf[p]
    IN  IF status[r] = "shutdown"
          THEN Result(room[r], "closed", FALSE, FALSE)
        ELSE IF InPlace(p)
          THEN JoinReplaceFn(config, room[r], call[p].oldSess.client, c,
                             "return", "return")
        ELSE JoinFn(config, room[r], c, "return")

\* Mutant of Seat: `replaced != nil` is not checked before the eviction.
SeatNoNilCheck(p) ==
    LET x == SeatResult(p) IN
    /\ call[p].pc = "seat"
    /\ room' = [room EXCEPT ![call[p].r] = x.room]
    /\ call' = [call EXCEPT ![p].pc = IF x.err # "nil" THEN "rollback" ELSE "find"]
    /\ UNCHANGED <<status, mode, userSessions>>

Seat(p) ==
    LET x == SeatResult(p) IN
    /\ call[p].pc = "seat"
    /\ room' = [room EXCEPT ![call[p].r] = x.room]
    /\ call' = [call EXCEPT ![p].pc =
                  IF x.err # "nil" THEN "rollback"
                  ELSE IF Replaced(p) /\ ~InPlace(p) THEN "find"
                  ELSE "info"]
    /\ UNCHANGED <<status, mode, userSessions>>

\* oldRoom, found := m.Find(replaced.RoomID)
FindOld(p) ==
    /\ call[p].pc = "find"
    /\ call' = [call EXCEPT ![p].pc =
                  IF Registered(call[p].oldSess.room) THEN "evict" ELSE "info"]
    /\ UNCHANGED <<status, mode, room, userSessions>>

\* The first closure of oldRoom.Leave(replaced.ClientID).
EvictOld(p) ==
    LET r == call[p].oldSess.room
        x == LeaveFn(config, room[r], call[p].oldSess.client, "return")
    IN
    /\ call[p].pc = "evict"
    /\ IF status[r] = "shutdown"
         THEN /\ call' = [call EXCEPT ![p].pc = "info"]
              /\ UNCHANGED room
         ELSE /\ room' = [room EXCEPT ![r] = x.room]
              /\ call' = [call EXCEPT ![p].pc = IF x.empty THEN "evicted" ELSE "info"]
    /\ UNCHANGED <<status, mode, userSessions>>

\* The second closure of that Leave.
EvictSchedule(p) ==
    LET r == call[p].oldSess.room IN
    /\ call[p].pc = "evicted"
    /\ room' = IF status[r] = "shutdown" THEN room
               ELSE [room EXCEPT ![r] = ScheduleFn(config, room[r]).room]
    /\ call' = [call EXCEPT ![p].pc = "info"]
    /\ UNCHANGED <<status, mode, userSessions>>

\* Mutant of Rollback: the failed join leaves its record behind.
RollbackNothing(p) ==
    /\ call[p].pc = "rollback"
    /\ call' = [call EXCEPT ![p] = IdleCall]
    /\ UNCHANGED <<status, mode, room, userSessions>>

\* The second critical section, after a failed join.
Rollback(p) ==
    /\ call[p].pc = "rollback"
    /\ userSessions' =
         IF /\ mode[call[p].r] # "Allow"
            /\ Record(p) # NoSession
            /\ Record(p).client = ClientOf[p]
         THEN [userSessions EXCEPT ![UserOfCaller(p)][TypeOf[call[p].r]] = NoSession]
         ELSE userSessions
    /\ call' = [call EXCEPT ![p] = IdleCall]
    /\ UNCHANGED <<status, mode, room>>

\* info, err := r.Info(): the room's answer, or ErrRoomNotFound.
Info(p) ==
    /\ call[p].pc = "info"
    /\ call' = [call EXCEPT ![p] = IdleCall]
    /\ UNCHANGED <<status, mode, room, userSessions>>

-----------------------------------------------------------------------------
(* LeaveRoom.                                                              *)

LeaveRoom(p, r) ==
    LET u == UserOfCaller(p)
        t == TypeOf[r]
    IN
    /\ call[p].pc = "idle"
    /\ Registered(r)
    /\ userSessions' =
         IF /\ mode[r] # "Allow"
            /\ userSessions[u][t] = [room |-> r, client |-> ClientOf[p]]
         THEN [userSessions EXCEPT ![u][t] = NoSession]
         ELSE userSessions
    /\ call' = [call EXCEPT ![p] = [pc |-> "leave", r |-> r, oldSess |-> NoSession]]
    /\ UNCHANGED <<status, mode, room>>

Leave(p) ==
    LET r == call[p].r
        x == LeaveFn(config, room[r], ClientOf[p], "return")
    IN
    /\ call[p].pc = "leave"
    /\ IF status[r] = "shutdown"
         THEN /\ call' = [call EXCEPT ![p] = IdleCall]
              /\ UNCHANGED room
         ELSE /\ room' = [room EXCEPT ![r] = x.room]
              /\ call' = [call EXCEPT ![p] = IF x.empty THEN [@ EXCEPT !.pc = "schedule"]
                                             ELSE IdleCall]
    /\ UNCHANGED <<status, mode, userSessions>>

Schedule(p) ==
    LET r == call[p].r IN
    /\ call[p].pc = "schedule"
    /\ room' = IF status[r] = "shutdown" THEN room
               ELSE [room EXCEPT ![r] = ScheduleFn(config, room[r]).room]
    /\ call' = [call EXCEPT ![p] = IdleCall]
    /\ UNCHANGED <<status, mode, userSessions>>

-----------------------------------------------------------------------------
Next ==
    \/ \E r \in RoomID :
          \/ \E md \in Modes : Create(r, md)
          \/ Remove(r) \/ OnEmpty(r) \/ Shutdown(r)
          \/ \E p \in Caller : JoinRoom(p, r) \/ LeaveRoom(p, r)
    \/ ShutdownAll
    \/ \E p \in Caller :
          \/ Seat(p) \/ FindOld(p) \/ EvictOld(p) \/ EvictSchedule(p)
          \/ Rollback(p) \/ Info(p) \/ Leave(p) \/ Schedule(p)

Spec == Init /\ [][Next]_vars

-----------------------------------------------------------------------------
(* Properties.                                                             *)

(***************************************************************************)
(* The types of the variables, and: a call in progress has its room, and a *)
(* call that evicts has the record it replaces (no nil is dereferenced).   *)
(***************************************************************************)
TypeOK ==
    /\ status \in [RoomID -> {"none", "registered", "unregistered", "shutdown"}]
    /\ mode \in [RoomID -> SingletonMode]
    /\ room \in [RoomID -> RoomState]
    /\ userSessions \in [User -> [Type -> Session \cup {NoSession}]]
    /\ call \in [Caller -> CallState]
    /\ \A p \in Caller :
          /\ call[p].pc # "idle" => call[p].r \in RoomID
          /\ call[p].pc \in {"find", "evict", "evicted"} => call[p].oldSess \in Session

(***************************************************************************)
(* A singleton record names a room that is in the map, of the record's     *)
(* type and not an Allow room, and a client of its user, whatever joins,   *)
(* rollbacks and removals are in flight (manager.go:144-158, 207, 236-247):*)
(* a record of a removed room would lock its user out of the type.         *)
(***************************************************************************)
RecordsNameLiveRooms ==
    \A u \in User, t \in Type :
        LET s == userSessions[u][t]
        IN  s # NoSession => /\ Registered(s.room)
                             /\ TypeOf[s.room] = t
                             /\ mode[s.room] # "Allow"
                             /\ UserOf[s.client] = u

(***************************************************************************)
(* Singleton enforcement (manager.go:19-21) in a type whose rooms all      *)
(* reject: when no call is in flight, the records are exactly the seats.   *)
(* So a user sits in at most one room of the type, with one client, and    *)
(* nobody is refused for a seat that is not taken.                         *)
(***************************************************************************)
OnlyRejects(t) ==
    \A r \in RoomID : TypeOf[r] = t /\ status[r] # "none" => mode[r] = "Reject"

RecordsAreSeats ==
    (\A p \in Caller : call[p].pc = "idle") =>
        \A r \in RoomID, c \in Client :
            Registered(r) /\ OnlyRejects(TypeOf[r]) =>
                (c \in room[r].players
                   <=> userSessions[UserOf[c]][TypeOf[r]] = [room |-> r, client |-> c])
=============================================================================
