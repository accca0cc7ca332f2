------------------------- MODULE RoomManagerProofs -------------------------
(***************************************************************************)
(* Safety of the manager's records for any number of rooms, types, users,  *)
(* clients and callers, and any mix of singleton modes.                    *)
(***************************************************************************)
EXTENDS RoomManager, RoomOpsProofs

\* The configuration of every room is one.
LEMMA ConfigType == config \in RoomConfig
  BY MaxPlayersAssumption DEF config, RoomConfig

\* Every room is sound, as in module Room.
RoomsOK == \A r \in RoomID : RoomOK(config, room[r])

Inv == TypeOK /\ RoomsOK /\ RecordsNameLiveRooms

\* The initial state: no room, no record, no call.
LEMMA InitInv == Init => Inv
  <1> SUFFICES ASSUME Init PROVE Inv
    OBVIOUS
  <1> DEFINE n == newRoom(config, "return")
  <1>1. RoomOK(config, n)
    BY NewRoomOK, ConfigType
  <1> HIDE DEF n
  <1>2. room = [r \in RoomID |-> n]
    BY DEF Init, n
  <1>3. RoomsOK /\ room \in [RoomID -> RoomState]
    BY <1>1, <1>2 DEF RoomsOK, RoomOK
  <1>4. TypeOK
    BY <1>3 DEF Init, TypeOK, IdleCall, CallState, SingletonMode
  <1>5. RecordsNameLiveRooms
    BY DEF Init, RecordsNameLiveRooms
  <1> QED BY <1>3, <1>4, <1>5 DEF Inv

-----------------------------------------------------------------------------
(* Steps that change the map of rooms.                                     *)

\* After the cleanup no record names r; the other records are as before.
LEMMA CleanupLemma ==
    ASSUME TypeOK, NEW r \in RoomID
    PROVE  /\ cleanupSessionType(r) \in [User -> [Type -> Session \cup {NoSession}]]
           /\ \A u \in User, t \in Type :
                LET s == cleanupSessionType(r)[u][t]
                IN  s # NoSession =>
                      s = userSessions[u][t] /\ (TypeOf[r] = t => s.room # r)
  BY TypeOfAssumption DEF TypeOK, cleanupSessionType

(***************************************************************************)
(* A step that writes no record keeps RecordsNameLiveRooms when the room   *)
(* of every record that stays is still in the map, with its mode.          *)
(***************************************************************************)
LEMMA RecordsKept ==
    ASSUME Inv,
           \A u \in User, t \in Type :
              userSessions'[u][t] # NoSession =>
                 /\ userSessions'[u][t] = userSessions[u][t]
                 /\ status'[userSessions[u][t].room] = "registered"
                 /\ mode'[userSessions[u][t].room] = mode[userSessions[u][t].room]
    PROVE  RecordsNameLiveRooms'
  BY DEF Inv, RecordsNameLiveRooms, Registered

\* The record of a user is for a registered room among RoomID.
LEMMA RecordRoom ==
    ASSUME Inv, NEW u \in User, NEW t \in Type, userSessions[u][t] # NoSession
    PROVE  /\ userSessions[u][t].room \in RoomID
           /\ status[userSessions[u][t].room] = "registered"
           /\ TypeOf[userSessions[u][t].room] = t
  <1>1. userSessions[u][t] \in Session
    BY DEF Inv, TypeOK
  <1> QED BY <1>1 DEF Inv, RecordsNameLiveRooms, Registered, Session

\* A step that replaces the state of one room by a sound one.
LEMMA OneRoom ==
    ASSUME Inv, NEW r \in RoomID, NEW n, RoomOK(config, n),
           room' = [room EXCEPT ![r] = n]
    PROVE  RoomsOK' /\ room' \in [RoomID -> RoomState]
  <1>1. room' \in [RoomID -> RoomState]
    BY DEF Inv, TypeOK, RoomOK
  <1>2. ASSUME NEW q \in RoomID PROVE RoomOK(config, room'[q])
    <2>1. room'[q] = IF q = r THEN n ELSE room[q]
      BY DEF Inv, TypeOK
    <2>2. RoomOK(config, room[q])
      BY DEF Inv, RoomsOK
    <2> QED BY <2>1, <2>2
  <1> QED BY <1>1, <1>2 DEF RoomsOK, RoomOK, Seats, Armed, config

\* A step that leaves the rooms alone.
LEMMA NoRoomChanged ==
    ASSUME Inv, room' = room
    PROVE  RoomsOK' /\ room' \in [RoomID -> RoomState]
  BY DEF Inv, TypeOK, RoomsOK, RoomOK, Seats, Armed, config

\* Taking a room out of the map, by Remove or by its on-empty callback.
LEMMA RemoveInv ==
    ASSUME Inv, NEW r \in RoomID, Remove(r) \/ OnEmpty(r)
    PROVE  Inv'
  <1>1. RoomsOK' /\ room' \in [RoomID -> RoomState]
    <2>1. CASE Remove(r)
      BY <2>1, NoRoomChanged DEF Remove
    <2>2. CASE OnEmpty(r)
      <3> DEFINE n == [room[r] EXCEPT !.onEmptyDue = FALSE]
      <3>1. RoomOK(config, room[r])
        BY DEF Inv, RoomsOK
      <3>2. RoomOK(config, n)
        BY <3>1 DEF RoomOK, RoomState, Seats, Armed
      <3>3. room' = [room EXCEPT ![r] = n]
        BY <2>2 DEF OnEmpty
      <3> HIDE DEF n
      <3> QED BY <3>2, <3>3, OneRoom
    <2> QED BY <2>1, <2>2
  <1>2. CASE ~Registered(r)
    <2>1. OnEmpty(r) /\ status' = status /\ UNCHANGED <<mode, userSessions, call>>
      BY <1>2 DEF Remove, OnEmpty, Inv, TypeOK
    <2>2. TypeOK'
      BY <1>1, <2>1 DEF Inv, TypeOK
    <2>3. RecordsNameLiveRooms'
      BY <2>1 DEF Inv, RecordsNameLiveRooms, Registered
    <2> QED BY <1>1, <2>2, <2>3 DEF Inv
  <1>3. CASE Registered(r)
    <2>1. /\ status' = [status EXCEPT ![r] = "unregistered"]
          /\ userSessions' = cleanupSessionType(r)
          /\ UNCHANGED <<mode, call>>
      BY <1>3 DEF Remove, OnEmpty
    <2>2. TypeOK'
      BY <1>1, <2>1, CleanupLemma DEF Inv, TypeOK
    <2>3. ASSUME NEW u \in User, NEW t \in Type, userSessions'[u][t] # NoSession
          PROVE  /\ userSessions'[u][t] = userSessions[u][t]
                 /\ status'[userSessions[u][t].room] = "registered"
      <3>1. userSessions'[u][t] = userSessions[u][t]
            /\ (TypeOf[r] = t => userSessions[u][t].room # r)
        BY <2>1, <2>3, CleanupLemma DEF Inv
      <3>2. /\ userSessions[u][t].room \in RoomID
            /\ status[userSessions[u][t].room] = "registered"
            /\ TypeOf[userSessions[u][t].room] = t
        BY <2>3, <3>1, RecordRoom
      <3> QED BY <2>1, <3>1, <3>2 DEF Inv, TypeOK
    <2>4. RecordsNameLiveRooms'
      BY <2>1, <2>3, RecordsKept
    <2> QED BY <1>1, <2>2, <2>4 DEF Inv
  <1> QED BY <1>2, <1>3

\* Registering a new room disturbs no record.
LEMMA CreateInv ==
    ASSUME Inv, NEW r \in RoomID, NEW md \in Modes, Create(r, md)
    PROVE  Inv'
  <1>1. RoomsOK' /\ room' \in [RoomID -> RoomState]
    BY NoRoomChanged DEF Create
  <1>2. TypeOK'
    BY <1>1, ModesAssumption DEF Inv, TypeOK, Create
  <1>3. \A q \in RoomID : status[q] = "registered" =>
           status'[q] = "registered" /\ mode'[q] = mode[q]
    BY DEF Inv, TypeOK, Create
  <1>4. RecordsNameLiveRooms'
    BY <1>3, RecordRoom, RecordsKept DEF Create
  <1> QED BY <1>1, <1>2, <1>4 DEF Inv

\* ShutdownAll forgets every record; Shutdown follows a removal.
LEMMA ShutdownInv ==
    ASSUME Inv, ShutdownAll \/ \E r \in RoomID : Shutdown(r)
    PROVE  Inv'
  <1>1. RoomsOK' /\ room' \in [RoomID -> RoomState]
    BY NoRoomChanged DEF ShutdownAll, Shutdown
  <1>2. TypeOK'
    BY <1>1 DEF Inv, TypeOK, ShutdownAll, Shutdown
  <1>3. CASE ShutdownAll
    BY <1>1, <1>2, <1>3 DEF Inv, RecordsNameLiveRooms, ShutdownAll
  <1>4. ASSUME NEW r \in RoomID, Shutdown(r) PROVE RecordsNameLiveRooms'
    <2>1. \A q \in RoomID : status[q] = "registered" => status'[q] = "registered"
      BY <1>4 DEF Inv, TypeOK, Shutdown
    <2> QED BY <1>4, <2>1, RecordRoom, RecordsKept DEF Shutdown
  <1> QED BY <1>1, <1>2, <1>3, <1>4 DEF Inv

-----------------------------------------------------------------------------
(* Steps of the calls.                                                     *)

\* JoinRoom writes its record for a room it has just found in the map.
LEMMA JoinRoomInv ==
    ASSUME Inv, NEW p \in Caller, NEW r \in RoomID, JoinRoom(p, r)
    PROVE  Inv'
  <1> DEFINE c   == ClientOf[p]
             old == IF mode[r] = "Allow" THEN NoSession
                    ELSE userSessions[UserOf[c]][TypeOf[r]]
             new == [room |-> r, client |-> c]
  <1>1. RoomsOK' /\ room' \in [RoomID -> RoomState]
    BY NoRoomChanged DEF JoinRoom
  <1>2. c \in Client /\ UserOf[c] \in User /\ TypeOf[r] \in Type
    BY ClientOfAssumption, UserOfAssumption, TypeOfAssumption
  <1>3. new \in Session /\ old \in Session \cup {NoSession}
    BY <1>2 DEF Session, Inv, TypeOK
  <1>4. /\ userSessions' = IF mode[r] = "Allow" THEN userSessions
                           ELSE [userSessions EXCEPT ![UserOf[c]][TypeOf[r]] = new]
        /\ call' = [call EXCEPT ![p] = [pc |-> "seat", r |-> r, oldSess |-> old]]
        /\ UNCHANGED <<status, mode>>
        /\ status[r] = "registered"
    BY DEF JoinRoom, Registered
  <1>5. new.room = r /\ new.client = c
    OBVIOUS
  <1> HIDE DEF c, old, new
  <1>6. TypeOK'
    BY <1>1, <1>2, <1>3, <1>4 DEF Inv, TypeOK, CallState
  <1>7. RecordsNameLiveRooms'
    BY <1>2, <1>4, <1>5 DEF Inv, TypeOK, RecordsNameLiveRooms, Registered
  <1> QED BY <1>1, <1>6, <1>7 DEF Inv

\* The result of the join is sound, and leaves a record to evict only when
\* there is one.
LEMMA SeatInv ==
    ASSUME Inv, NEW p \in Caller, Seat(p)
    PROVE  Inv'
  <1> DEFINE r == call[p].r
             c == ClientOf[p]
             x == SeatResult(p)
  <1>1. r \in RoomID /\ c \in Client /\ call[p].oldSess \in Session \cup {NoSession}
    BY ClientOfAssumption DEF Inv, TypeOK, CallState, Seat
  <1>2. RoomOK(config, room[r])
    BY <1>1 DEF Inv, RoomsOK
  <1>3. RoomOK(config, x.room)
    <2> DEFINE a == Result(room[r], "closed", FALSE, FALSE)
               b == JoinReplaceFn(config, room[r], call[p].oldSess.client, c,
                                  "return", "return")
               d == JoinFn(config, room[r], c, "return")
    <2>1. x \in {a, b, d}
      BY DEF SeatResult
    <2>2. RoomOK(config, a.room)
      BY <1>2 DEF Result
    <2>3. RoomOK(config, b.room)
      BY <1>1, <1>2, ConfigType, JoinReplaceOK
    <2>4. RoomOK(config, d.room)
      BY <1>1, <1>2, ConfigType, JoinOK
    <2> HIDE DEF a, b, d, x
    <2> QED BY <2>1, <2>2, <2>3, <2>4
  <1>4. room' = [room EXCEPT ![r] = x.room]
    BY DEF Seat
  <1> HIDE DEF x
  <1>5. RoomsOK' /\ room' \in [RoomID -> RoomState]
    BY <1>1, <1>3, <1>4, OneRoom
  <1>6. \E l \in {"rollback", "find", "info"} :
           /\ call' = [call EXCEPT ![p].pc = l]
           /\ l = "find" => call[p].oldSess \in Session
    BY <1>1 DEF Seat, Replaced
  <1>7. TypeOK'
    BY <1>1, <1>5, <1>6 DEF Inv, TypeOK, CallState, Seat
  <1>8. RecordsNameLiveRooms'
    BY DEF Inv, RecordsNameLiveRooms, Registered, Seat
  <1> QED BY <1>5, <1>7, <1>8 DEF Inv

\* Leaving the room of the call, or the old one, in either of two closures.
LEMMA LeaveInv ==
    ASSUME Inv, NEW p \in Caller,
           EvictOld(p) \/ EvictSchedule(p) \/ Leave(p) \/ Schedule(p)
    PROVE  Inv'
  <1>1. /\ call[p].pc \in {"leave", "schedule"} => call[p].r \in RoomID
        /\ call[p].pc \in {"evict", "evicted"} => call[p].oldSess.room \in RoomID
        /\ call[p].pc = "evict" => call[p].oldSess \in Session
    BY DEF Inv, TypeOK, Session
  <1>2. ASSUME NEW r \in RoomID, NEW c
        PROVE  /\ RoomOK(config, LeaveFn(config, room[r], c, "return").room)
               /\ RoomOK(config, ScheduleFn(config, room[r]).room)
    <2>1. RoomOK(config, room[r])
      BY DEF Inv, RoomsOK
    <2> QED BY <2>1, ConfigType, LeaveOK, ScheduleOK
  <1>3. RoomsOK' /\ room' \in [RoomID -> RoomState]
    <2>1. \/ room' = room
          \/ \E r \in RoomID : \E n :
                RoomOK(config, n) /\ room' = [room EXCEPT ![r] = n]
      <3>1. CASE EvictOld(p)
        BY <1>1, <1>2, <3>1 DEF EvictOld
      <3>2. CASE EvictSchedule(p)
        BY <1>1, <1>2, <3>2 DEF EvictSchedule
      <3>3. CASE Leave(p)
        BY <1>1, <1>2, <3>3 DEF Leave
      <3>4. CASE Schedule(p)
        BY <1>1, <1>2, <3>4 DEF Schedule
      <3> QED BY <3>1, <3>2, <3>3, <3>4
    <2> QED BY <2>1, OneRoom, NoRoomChanged
  <1>4. \/ call' = [call EXCEPT ![p] = IdleCall]
        \/ call' = [call EXCEPT ![p].pc = "info"] /\ call[p].pc # "idle"
        \/ call' = [call EXCEPT ![p].pc = "schedule"] /\ call[p].pc # "idle"
        \/ /\ call' = [call EXCEPT ![p].pc = "evicted"]
           /\ call[p].pc = "evict"
    BY DEF EvictOld, EvictSchedule, Leave, Schedule
  <1>5. TypeOK'
    <2>1. UNCHANGED <<status, mode, userSessions>>
      BY DEF EvictOld, EvictSchedule, Leave, Schedule
    <2>2. /\ call' \in [Caller -> CallState]
          /\ \A q \in Caller :
                /\ call'[q].pc # "idle" => call'[q].r \in RoomID
                /\ call'[q].pc \in {"find", "evict", "evicted"}
                      => call'[q].oldSess \in Session
      BY <1>4 DEF Inv, TypeOK, CallState, IdleCall
    <2> QED BY <1>3, <2>1, <2>2 DEF Inv, TypeOK
  <1>6. RecordsNameLiveRooms'
    BY DEF Inv, RecordsNameLiveRooms, Registered, EvictOld, EvictSchedule, Leave,
           Schedule
  <1> QED BY <1>3, <1>5, <1>6 DEF Inv

\* The steps that look a room up, return, or delete a record.
LEMMA LookInv ==
    ASSUME Inv, NEW p \in Caller,
           \/ FindOld(p) \/ Info(p) \/ Rollback(p)
           \/ \E r \in RoomID : LeaveRoom(p, r)
    PROVE  Inv'
  <1>1. RoomsOK' /\ room' \in [RoomID -> RoomState]
    BY NoRoomChanged DEF FindOld, Info, Rollback, LeaveRoom
  <1>2. UNCHANGED <<status, mode>>
    BY DEF FindOld, Info, Rollback, LeaveRoom
  <1>3. \/ userSessions' = userSessions
        \/ \E u \in User, t \in Type :
              userSessions' = [userSessions EXCEPT ![u][t] = NoSession]
    <2>1. \A r \in RoomID : UserOfCaller(p) \in User /\ TypeOf[r] \in Type
      BY ClientOfAssumption, UserOfAssumption, TypeOfAssumption DEF UserOfCaller
    <2>2. CASE FindOld(p) \/ Info(p)
      BY <2>2 DEF FindOld, Info
    <2>3. CASE Rollback(p)
      <3>1. call[p].r \in RoomID
        BY <2>3 DEF Rollback, Inv, TypeOK
      <3> QED BY <2>1, <2>3, <3>1 DEF Rollback
    <2>4. CASE \E r \in RoomID : LeaveRoom(p, r)
      BY <2>1, <2>4 DEF LeaveRoom
    <2> QED BY <2>2, <2>3, <2>4
  <1>4. /\ call' \in [Caller -> CallState]
        /\ \A q \in Caller :
              /\ call'[q].pc # "idle" => call'[q].r \in RoomID
              /\ call'[q].pc \in {"find", "evict", "evicted"}
                    => call'[q].oldSess \in Session
    <2>1. CASE FindOld(p)
      BY <2>1 DEF FindOld, Inv, TypeOK, CallState
    <2>2. CASE Info(p) \/ Rollback(p)
      <3>1. call' = [call EXCEPT ![p] = IdleCall]
        BY <2>2 DEF Info, Rollback
      <3> QED BY <3>1 DEF Inv, TypeOK, CallState, IdleCall
    <2>3. CASE \E r \in RoomID : LeaveRoom(p, r)
      BY <2>3 DEF LeaveRoom, Inv, TypeOK, CallState
    <2> QED BY <2>1, <2>2, <2>3
  <1>5. /\ userSessions' \in [User -> [Type -> Session \cup {NoSession}]]
        /\ \A u \in User, t \in Type :
              userSessions'[u][t] # NoSession => userSessions'[u][t] = userSessions[u][t]
    BY <1>3 DEF Inv, TypeOK
  <1>6. TypeOK'
    BY <1>1, <1>2, <1>4, <1>5 DEF Inv, TypeOK
  <1>7. RecordsNameLiveRooms'
    BY <1>2, <1>5, RecordRoom, RecordsKept
  <1> QED BY <1>1, <1>6, <1>7 DEF Inv

-----------------------------------------------------------------------------
(* The theorems.                                                           *)

\* Every step keeps the invariant.
LEMMA NextInv ==
    ASSUME Inv, [Next]_vars
    PROVE  Inv'
  <1>1. CASE Next
    BY <1>1, CreateInv, RemoveInv, ShutdownInv, JoinRoomInv, SeatInv, LeaveInv,
       LookInv DEF Next
  <1>2. CASE UNCHANGED vars
    <2>1. RoomsOK'
      BY <1>2, NoRoomChanged DEF vars
    <2> QED BY <1>2, <2>1 DEF vars, Inv, TypeOK, RecordsNameLiveRooms, Registered
  <1> QED BY <1>1, <1>2

\* The invariant holds in every reachable state.
THEOREM ManagerInvariance == Spec => []Inv
  BY InitInv, NextInv, PTL DEF Spec

(***************************************************************************)
(* Type correctness of the manager: a call in progress has its room, and   *)
(* JoinRoom evicts only through a record it really replaced.               *)
(***************************************************************************)
THEOREM ManagerTypeCorrect == Spec => []TypeOK
  <1>1. Inv => TypeOK
    BY DEF Inv
  <1> QED BY <1>1, ManagerInvariance, PTL

(***************************************************************************)
(* A singleton record names a room in the map, of its type, that is not an *)
(* Allow room, and a client of its user, at every moment of every          *)
(* interleaving of joins, leaves, rollbacks and removals.                  *)
(***************************************************************************)
THEOREM RecordsLive == Spec => []RecordsNameLiveRooms
  <1>1. Inv => RecordsNameLiveRooms
    BY DEF Inv
  <1> QED BY <1>1, ManagerInvariance, PTL

-----------------------------------------------------------------------------
(* What the closures do to a room whose hooks only return.                 *)

\* The hook that only returns.
LEMMA PlainHook ==
    ASSUME NEW rm
    PROVE  RunHook(config, rm, "return") = rm
  BY DEF RunHook

\* A full room is not empty.
LEMMA FullHasPlayers ==
    ASSUME NEW rm \in RoomState, Full(config, rm)
    PROVE  rm.players # {}
  <1> SUFFICES ASSUME rm.players = {} PROVE FALSE
    OBVIOUS
  <1>1. Cardinality(rm.players) = 0
    BY FS_EmptySet
  <1>2. config.maxPlayers \in Nat
    BY ConfigType DEF RoomConfig, Uint16Value
  <1> QED BY <1>1, <1>2 DEF Full, Uint16

\* Setting the players and dropping the timer leaves the rest of a room.
LEMMA SetPlayers ==
    ASSUME NEW rm, RoomOK(config, rm), NEW S \in SUBSET Client
    PROVE  LET w == [rm EXCEPT !.players = S]
               k == cancelEmptyRemoval(w)
           IN  /\ w \in RoomState /\ w.players = S /\ k.players = S
               /\ w.isOpen = rm.isOpen /\ k.isOpen = rm.isOpen
               /\ w.keepOnEmpty = rm.keepOnEmpty /\ k.keepOnEmpty = rm.keepOnEmpty
               /\ w.onEmptyDue = rm.onEmptyDue /\ k.onEmptyDue = rm.onEmptyDue
  <1> DEFINE w == [rm EXCEPT !.players = S]
  <1>1. /\ w \in RoomState /\ Armed(w) /\ w.players = S /\ w.isOpen = rm.isOpen
        /\ w.keepOnEmpty = rm.keepOnEmpty /\ w.onEmptyDue = rm.onEmptyDue
    BY DEF RoomOK, RoomState, Armed
  <1> HIDE DEF w
  <1>2. /\ cancelEmptyRemoval(w).players = S
        /\ cancelEmptyRemoval(w).isOpen = rm.isOpen
        /\ cancelEmptyRemoval(w).keepOnEmpty = rm.keepOnEmpty
        /\ cancelEmptyRemoval(w).onEmptyDue = rm.onEmptyDue
    BY <1>1, CancelLemma
  <1> QED BY <1>1, <1>2 DEF w

\* What a closure leaves alone: the door, the keep flag and a removal due.
SameButPlayers(rm, rn) ==
    /\ rn.isOpen = rm.isOpen
    /\ rn.keepOnEmpty = rm.keepOnEmpty
    /\ rn.onEmptyDue = rm.onEmptyDue

\* A join seats its client, or is refused by a room that is closed or full.
LEMMA JoinEffect ==
    ASSUME NEW rm, RoomOK(config, rm), NEW c \in Client
    PROVE  LET x == JoinFn(config, rm, c, "return")
           IN  /\ x.err = "nil" => x.room.players = rm.players \cup {c}
               /\ x.err # "nil" => x.room = rm /\ (rm.isOpen => rm.players # {})
               /\ SameButPlayers(rm, x.room)
  <1> DEFINE S == rm.players \cup {c}
             k == cancelEmptyRemoval([rm EXCEPT !.players = S])
             x == JoinFn(config, rm, c, "return")
  <1>1. k.players = S /\ SameButPlayers(rm, k)
    <2>1. S \in SUBSET Client
      BY DEF RoomOK, RoomState
    <2> HIDE DEF S
    <2> QED BY <2>1, SetPlayers DEF SameButPlayers
  <1>2. x = IF ~rm.isOpen THEN Result(rm, "closed", FALSE, FALSE)
            ELSE IF Full(config, rm) THEN Result(rm, "full", FALSE, FALSE)
            ELSE IF c \in rm.players THEN Result(rm, "nil", FALSE, FALSE)
            ELSE Result(k, "nil", TRUE, FALSE)
    BY PlainHook DEF JoinFn
  <1>3. Full(config, rm) => rm.players # {}
    BY FullHasPlayers DEF RoomOK
  <1> HIDE DEF k, x
  <1> QED BY <1>1, <1>2, <1>3 DEF Result, SameButPlayers, x

\* A swap takes the old client out, and seats the new one if there is room.
LEMMA ReplaceEffect ==
    ASSUME NEW rm, RoomOK(config, rm), NEW old, NEW c \in Client
    PROVE  LET x == JoinReplaceFn(config, rm, old, c, "return", "return")
           IN  /\ x.err = "nil" => x.room.players = (rm.players \ {old}) \cup {c}
               /\ x.err # "nil" => /\ x.room.players \subseteq rm.players
                                   /\ rm.isOpen => x.room.players # {}
               /\ SameButPlayers(rm, x.room)
  <1> DEFINE v == IF old \in rm.players
                    THEN [rm EXCEPT !.players = @ \ {old}] ELSE rm
             S == v.players \cup {c}
             k == cancelEmptyRemoval([v EXCEPT !.players = S])
             x == JoinReplaceFn(config, rm, old, c, "return", "return")
  <1>1. RoomOK(config, v)
    <2>1. [rm EXCEPT !.players = @ \ {old}]
            = RunHook(config, [rm EXCEPT !.players = @ \ {old}], "return")
      BY PlainHook
    <2> QED BY <2>1, VacateOK, ConfigType
  <1>2. v.players = rm.players \ {old} /\ SameButPlayers(rm, v)
    BY DEF RoomOK, RoomState, SameButPlayers
  <1>3. x = IF ~rm.isOpen THEN Result(rm, "closed", FALSE, FALSE)
            ELSE IF Full(config, v)
              THEN Result(v, "full", FALSE, v.players = {} /\ ~v.keepOnEmpty)
            ELSE Result(k, "nil", TRUE, FALSE)
    <2>1. v = IF old \in rm.players
                THEN RunHook(config, [rm EXCEPT !.players = @ \ {old}], "return")
                ELSE rm
      BY PlainHook
    <2>2. RunHook(config, k, "return") = k
      BY PlainHook
    <2> HIDE DEF v
    <2> QED BY <2>1, <2>2, Zenon DEF JoinReplaceFn
  <1> HIDE DEF v
  <1>4. k.players = S /\ SameButPlayers(v, k)
    <2>1. S \in SUBSET Client
      BY <1>1 DEF RoomOK, RoomState
    <2> HIDE DEF S
    <2> QED BY <1>1, <2>1, SetPlayers DEF SameButPlayers
  <1>5. Full(config, v) => v.players # {}
    BY <1>1, FullHasPlayers DEF RoomOK
  <1> HIDE DEF k, x
  <1> QED BY <1>2, <1>3, <1>4, <1>5 DEF Result, SameButPlayers, x

\* A leave takes its client out and sees whether it was the last one.
LEMMA LeaveEffect ==
    ASSUME NEW rm, RoomOK(config, rm), NEW c
    PROVE  LET x == LeaveFn(config, rm, c, "return")
           IN  /\ x.room.players = rm.players \ {c}
               /\ x.empty <=> c \in rm.players /\ rm.players \ {c} = {}
               /\ SameButPlayers(rm, x.room)
  <1> DEFINE v == [rm EXCEPT !.players = @ \ {c}]
             x == LeaveFn(config, rm, c, "return")
  <1>1. v.players = rm.players \ {c} /\ SameButPlayers(rm, v)
    BY DEF RoomOK, RoomState, SameButPlayers
  <1>2. x = IF c \notin rm.players THEN Result(rm, "nil", FALSE, FALSE)
            ELSE Result(v, "nil", TRUE, v.players = {})
    BY PlainHook DEF LeaveFn
  <1> HIDE DEF v
  <1>3. CASE c \notin rm.players
    <2>1. x.room = rm /\ x.empty = FALSE
      BY <1>2, <1>3 DEF Result
    <2> QED BY <1>3, <2>1 DEF SameButPlayers
  <1>4. CASE c \in rm.players
    <2>1. x.room = v /\ x.empty = (v.players = {})
      BY <1>2, <1>4 DEF Result
    <2> QED BY <1>1, <1>4, <2>1 DEF SameButPlayers
  <1> QED BY <1>3, <1>4

\* The second closure of a leave makes the removal due, unless it is kept.
LEMMA ScheduleEffect ==
    ASSUME NEW rm, RoomOK(config, rm)
    PROVE  LET n == ScheduleFn(config, rm).room
           IN  /\ n.players = rm.players /\ n.isOpen = rm.isOpen
               /\ n.keepOnEmpty = rm.keepOnEmpty
               /\ ~rm.keepOnEmpty => n.onEmptyDue
               /\ rm.onEmptyDue => n.onEmptyDue
  <1> DEFINE k == cancelEmptyRemoval(rm)
             n == ScheduleFn(config, rm).room
  <1>1. /\ k \in RoomState /\ k.players = rm.players /\ k.isOpen = rm.isOpen
        /\ k.keepOnEmpty = rm.keepOnEmpty
    BY CancelLemma DEF RoomOK
  <1>2. n = IF rm.keepOnEmpty THEN rm ELSE [k EXCEPT !.onEmptyDue = TRUE]
    BY DEF ScheduleFn, scheduleEmptyRemoval, Result, config
  <1> HIDE DEF k, n
  <1> QED BY <1>1, <1>2 DEF RoomState, n

-----------------------------------------------------------------------------
(* Records and seats.                                                      *)

\* At most one call of client c is in flight.
OneCall(c) ==
    \A p, q \in Caller :
        /\ ClientOf[p] = c /\ call[p].pc # "idle"
        /\ ClientOf[q] = c /\ call[q].pc # "idle"
        => p = q

\* A call is about a room that was created, and replaces a record of that
\* room's type, never in a room that rejects.
CallSound(p) ==
    call[p].pc # "idle" =>
        /\ status[call[p].r] # "none"
        /\ call[p].oldSess # NoSession =>
              /\ status[call[p].oldSess.room] # "none"
              /\ TypeOf[call[p].oldSess.room] = TypeOf[call[p].r]
        /\ mode[call[p].r] = "Reject" => ~Replaced(p)
        /\ call[p].pc \in {"find", "evict", "evicted"} => Replaced(p)

CallsAreSound ==
    /\ \A r \in RoomID : status[r] = "none" => room[r].players = {}
    /\ \A p \in Caller : CallSound(p)

RecordOf(c, r) == userSessions[UserOf[c]][TypeOf[r]]
SeatIn(c, r) == [room |-> r, client |-> c]

\* A call of c about r that is at one of pcs.
CallAt(c, r, pcs) ==
    \E p \in Caller : ClientOf[p] = c /\ call[p].r = r /\ call[p].pc \in pcs

Joining(c, r) == CallAt(c, r, {"seat", "rollback"})
Leaving(c, r) == CallAt(c, r, {"leave"})

(***************************************************************************)
(* In a type whose rooms all reject: the record of a client is its seat;   *)
(* JoinRoom makes the record before the seat and takes it back if there is *)
(* none, LeaveRoom deletes it before the seat is given up; and a join      *)
(* whose room was removed finds no record it could take for its own.       *)
(***************************************************************************)
SeatRecord(c, r) ==
    OnlyRejects(TypeOf[r]) =>
        /\ Registered(r) /\ ~Joining(c, r) /\ ~Leaving(c, r)
              => (c \in room[r].players <=> RecordOf(c, r) = SeatIn(c, r))
        /\ Registered(r) /\ Joining(c, r)
              => RecordOf(c, r) = SeatIn(c, r) /\ c \notin room[r].players
        /\ Registered(r) /\ Leaving(c, r)
              => RecordOf(c, r) # SeatIn(c, r)
        /\ ~Registered(r) /\ Joining(c, r)
              => RecordOf(c, r) = NoSession \/ RecordOf(c, r).client # c

SeatRecords(c) == \A r \in RoomID : SeatRecord(c, r)

\* A room once created stays so, with its mode.
LEMMA StatusStep ==
    ASSUME Inv, Next
    PROVE  /\ \A r \in RoomID : status[r] # "none" =>
                 status'[r] # "none" /\ mode'[r] = mode[r]
           /\ \A t \in Type : OnlyRejects(t)' => OnlyRejects(t)
  <1>1. \A r \in RoomID : status[r] # "none" =>
           status'[r] # "none" /\ mode'[r] = mode[r]
    <2>1. ASSUME NEW x \in RoomID, NEW md \in Modes, Create(x, md)
          PROVE  \A r \in RoomID : status[r] # "none" =>
                    status'[r] # "none" /\ mode'[r] = mode[r]
      BY <2>1 DEF Create, Inv, TypeOK
    <2>2. ASSUME NEW x \in RoomID, Remove(x) \/ OnEmpty(x) \/ Shutdown(x)
          PROVE  \A r \in RoomID : status[r] # "none" =>
                    status'[r] # "none" /\ mode'[r] = mode[r]
      BY <2>2 DEF Remove, OnEmpty, Shutdown, Inv, TypeOK
    <2>3. CASE ShutdownAll
      BY <2>3 DEF ShutdownAll, Inv, TypeOK
    <2>4. ASSUME NEW p \in Caller,
                 \/ \E r \in RoomID : JoinRoom(p, r) \/ LeaveRoom(p, r)
                 \/ Seat(p) \/ FindOld(p) \/ EvictOld(p) \/ EvictSchedule(p)
                 \/ Rollback(p) \/ Info(p) \/ Leave(p) \/ Schedule(p)
          PROVE  UNCHANGED <<status, mode>>
      BY <2>4 DEF JoinRoom, LeaveRoom, Seat, FindOld, EvictOld, EvictSchedule,
         Rollback, Info, Leave, Schedule
    <2> QED BY <2>1, <2>2, <2>3, <2>4 DEF Next
  <1>2. ASSUME NEW t \in Type, OnlyRejects(t)' PROVE OnlyRejects(t)
    BY <1>1, <1>2 DEF OnlyRejects
  <1> QED BY <1>1, <1>2

\* The players of a room change when a call joins it, leaves it, or evicts a
\* client from it.
LEMMA PlayersStep ==
    ASSUME Inv, Next, NEW r \in RoomID, room'[r].players # room[r].players
    PROVE  \E p \in Caller :
              \/ r = call[p].r /\ (Seat(p) \/ Leave(p))
              \/ r = call[p].oldSess.room /\ EvictOld(p)
  <1>1. /\ room \in [RoomID -> RoomState]
        /\ \A q \in RoomID : RoomOK(config, room[q])
        /\ \A p \in Caller : /\ call[p].pc # "idle" => call[p].r \in RoomID
                             /\ call[p].pc \in {"evict", "evicted"}
                                   => call[p].oldSess.room \in RoomID
    BY DEF Inv, TypeOK, RoomsOK, Session
  <1>2. ASSUME NEW x \in RoomID, OnEmpty(x) PROVE FALSE
    BY <1>1, <1>2 DEF OnEmpty, RoomState
  <1>3. ASSUME NEW p \in Caller, NEW x \in RoomID,
               room' = [room EXCEPT ![x] = ScheduleFn(config, room[x]).room]
        PROVE  FALSE
    BY <1>1, <1>3, ScheduleEffect
  <1>4. ASSUME NEW p \in Caller, EvictSchedule(p) \/ Schedule(p) PROVE FALSE
    BY <1>1, <1>3, <1>4 DEF EvictSchedule, Schedule
  <1>5. ASSUME NEW p \in Caller, Seat(p) \/ Leave(p) PROVE r = call[p].r
    BY <1>1, <1>5 DEF Seat, Leave
  <1>6. ASSUME NEW p \in Caller, EvictOld(p) PROVE r = call[p].oldSess.room
    BY <1>1, <1>6 DEF EvictOld
  <1>7. room' # room
    OBVIOUS
  <1> QED BY <1>2, <1>4, <1>5, <1>6, <1>7
          DEF Next, Create, Remove, Shutdown, ShutdownAll, JoinRoom, LeaveRoom,
              FindOld, Rollback, Info

\* A call whose state is not written stays sound.
LEMMA OtherCallSound ==
    ASSUME Inv, CallsAreSound, Next, NEW p \in Caller, call'[p] = call[p]
    PROVE  CallSound(p)'
  <1>1. /\ call[p].pc # "idle" => call[p].r \in RoomID
        /\ call[p].oldSess # NoSession => call[p].oldSess.room \in RoomID
    BY DEF Inv, TypeOK, CallState, Session
  <1> QED BY <1>1, StatusStep DEF CallsAreSound, CallSound, Replaced, Mine

\* No step makes a call unsound.
LEMMA CallsStep ==
    ASSUME Inv, CallsAreSound, Next
    PROVE  CallsAreSound'
  <1>1. ASSUME NEW r \in RoomID, status'[r] = "none" PROVE room'[r].players = {}
    <2>1. status[r] = "none" /\ room[r].players = {}
      BY <1>1, StatusStep DEF CallsAreSound
    <2>2. ASSUME NEW p \in Caller PROVE ~(r = call[p].r /\ (Seat(p) \/ Leave(p)))
      BY <2>1 DEF CallsAreSound, CallSound, Seat, Leave
    <2>3. ASSUME NEW p \in Caller PROVE ~(r = call[p].oldSess.room /\ EvictOld(p))
      BY <2>1 DEF CallsAreSound, CallSound, EvictOld, Replaced
    <2> QED BY <2>1, <2>2, <2>3, PlayersStep
  <1>2. ASSUME NEW p \in Caller, NEW v, call' = [call EXCEPT ![p] = v],
               \/ v.pc = "idle"
               \/ /\ call[p].pc # "idle" /\ v.r = call[p].r
                  /\ v.oldSess = call[p].oldSess
                  /\ v.pc \in {"find", "evict", "evicted"} => Replaced(p)
        PROVE  CallSound(p)'
    <2>1. call'[p] = v
      BY <1>2 DEF Inv, TypeOK
    <2>2. /\ call[p].pc # "idle" => call[p].r \in RoomID
          /\ call[p].oldSess # NoSession => call[p].oldSess.room \in RoomID
      BY DEF Inv, TypeOK, CallState, Session
    <2> QED BY <1>2, <2>1, <2>2, StatusStep DEF CallsAreSound, CallSound, Replaced, Mine
  <1>3. ASSUME NEW p \in Caller, NEW r \in RoomID, JoinRoom(p, r)
        PROVE  CallSound(p)'
    <2> DEFINE old == IF mode[r] = "Allow" THEN NoSession
                      ELSE userSessions[UserOf[ClientOf[p]]][TypeOf[r]]
               v == [pc |-> "seat", r |-> r, oldSess |-> old]
    <2>1. call' = [call EXCEPT ![p] = v] /\ UNCHANGED <<status, mode>>
      BY <1>3 DEF JoinRoom
    <2>2. call'[p] = v
      BY <2>1 DEF Inv, TypeOK
    <2>3. old # NoSession => /\ status[old.room] = "registered"
                             /\ TypeOf[old.room] = TypeOf[r]
      BY RecordRoom, TypeOfAssumption, ClientOfAssumption, UserOfAssumption
    <2>4. mode[r] = "Reject" => old \in {NoSession, [room |-> r, client |-> ClientOf[p]]}
      BY <1>3 DEF JoinRoom
    <2>5. status[r] = "registered"
      BY <1>3 DEF JoinRoom, Registered
    <2> HIDE DEF old
    <2> QED BY <2>1, <2>2, <2>3, <2>4, <2>5 DEF CallSound, Replaced, Mine
  <1>4. ASSUME NEW p \in Caller, NEW r \in RoomID, LeaveRoom(p, r)
        PROVE  CallSound(p)'
    <2>1. /\ call'[p] = [pc |-> "leave", r |-> r, oldSess |-> NoSession]
          /\ status' = status /\ status[r] = "registered"
      BY <1>4 DEF LeaveRoom, Registered, Inv, TypeOK
    <2> QED BY <2>1 DEF CallSound, Replaced
  <1>5. ASSUME NEW p \in Caller,
               \/ Seat(p) \/ FindOld(p) \/ EvictOld(p) \/ EvictSchedule(p)
               \/ Rollback(p) \/ Info(p) \/ Leave(p) \/ Schedule(p)
        PROVE  \E v : /\ call' = [call EXCEPT ![p] = v]
                      /\ \/ v.pc = "idle"
                         \/ /\ call[p].pc # "idle" /\ v.r = call[p].r
                            /\ v.oldSess = call[p].oldSess
                            /\ v.pc \in {"find", "evict", "evicted"} => Replaced(p)
    <2>1. call[p] \in CallState /\ CallSound(p)
      BY DEF Inv, TypeOK, CallsAreSound
    <2>2. ASSUME NEW l, call' = [call EXCEPT ![p].pc = l], call[p].pc # "idle",
                 l \in {"find", "evict", "evicted"} => Replaced(p)
          PROVE  \E v : /\ call' = [call EXCEPT ![p] = v]
                        /\ call[p].pc # "idle" /\ v.r = call[p].r
                        /\ v.oldSess = call[p].oldSess
                        /\ v.pc \in {"find", "evict", "evicted"} => Replaced(p)
      <3> DEFINE v == [call[p] EXCEPT !.pc = l]
      <3>1. v.r = call[p].r /\ v.oldSess = call[p].oldSess /\ v.pc = l
        BY <2>1 DEF CallState
      <3>2. call' = [call EXCEPT ![p] = v]
        BY <2>2
      <3> HIDE DEF v
      <3> QED BY <2>2, <3>1, <3>2
    <2>3. IdleCall.pc = "idle"
      BY DEF IdleCall
    <2>4. CASE Seat(p)
      <3>1. \E l \in {"rollback", "find", "info"} :
               call' = [call EXCEPT ![p].pc = l] /\ (l = "find" => Replaced(p))
        BY <2>4 DEF Seat
      <3>2. call[p].pc # "idle"
        BY <2>4 DEF Seat
      <3> QED BY <2>2, <3>1, <3>2
    <2>5. CASE FindOld(p) \/ EvictOld(p)
      <3>1. Replaced(p) /\ call[p].pc # "idle"
        BY <2>1, <2>5 DEF FindOld, EvictOld, CallSound
      <3>2. \E l : call' = [call EXCEPT ![p].pc = l]
        BY <2>5 DEF FindOld, EvictOld
      <3> QED BY <2>2, <3>1, <3>2
    <2>6. CASE EvictSchedule(p)
      <3>1. \E l \in {"info"} : call' = [call EXCEPT ![p].pc = l]
        BY <2>6 DEF EvictSchedule
      <3>2. call[p].pc # "idle"
        BY <2>6 DEF EvictSchedule
      <3> QED BY <2>2, <3>1, <3>2
    <2>7. CASE Rollback(p) \/ Info(p) \/ Schedule(p)
      BY <2>3, <2>7 DEF Rollback, Info, Schedule
    <2>8. CASE Leave(p)
      <3>1. call[p].pc # "idle"
        BY <2>8 DEF Leave
      <3>2. \/ call' = [call EXCEPT ![p].pc = "schedule"]
            \/ call' = [call EXCEPT ![p] = IdleCall]
        BY <2>8 DEF Leave
      <3> QED BY <2>2, <2>3, <3>1, <3>2
    <2> QED BY <1>5, <2>4, <2>5, <2>6, <2>7, <2>8
  <1>6. \/ call' = call
        \/ \E p \in Caller, r \in RoomID : JoinRoom(p, r) \/ LeaveRoom(p, r)
        \/ \E p \in Caller :
             \/ Seat(p) \/ FindOld(p) \/ EvictOld(p) \/ EvictSchedule(p)
             \/ Rollback(p) \/ Info(p) \/ Leave(p) \/ Schedule(p)
    BY DEF Next, Create, Remove, OnEmpty, Shutdown, ShutdownAll
  <1>7. ASSUME NEW p \in Caller, NEW v, call' = [call EXCEPT ![p] = v], CallSound(p)'
        PROVE  \A q \in Caller : CallSound(q)'
    <2>1. ASSUME NEW q \in Caller, q # p PROVE call'[q] = call[q]
      BY <1>7, <2>1 DEF Inv, TypeOK
    <2> QED BY <1>7, <2>1, OtherCallSound
  <1>8. \A q \in Caller : CallSound(q)'
    <2>1. CASE call' = call
      BY <2>1, OtherCallSound
    <2>2. ASSUME NEW p \in Caller, NEW r \in RoomID, JoinRoom(p, r) \/ LeaveRoom(p, r)
          PROVE  \A q \in Caller : CallSound(q)'
      <3>1. \E v : call' = [call EXCEPT ![p] = v]
        BY <2>2 DEF JoinRoom, LeaveRoom
      <3> QED BY <1>3, <1>4, <1>7, <2>2, <3>1
    <2>3. ASSUME NEW p \in Caller,
                 \/ Seat(p) \/ FindOld(p) \/ EvictOld(p) \/ EvictSchedule(p)
                 \/ Rollback(p) \/ Info(p) \/ Leave(p) \/ Schedule(p)
          PROVE  \A q \in Caller : CallSound(q)'
      BY <1>2, <1>5, <1>7, <2>3
    <2> QED BY <1>6, <2>1, <2>2, <2>3
  <1> QED BY <1>1, <1>8 DEF CallsAreSound

\* A call that is not at one of pcs in r, before or after, or is another
\* client's, does not count.
LEMMA CallFrame ==
    ASSUME Inv, NEW c, NEW r, NEW pcs, NEW p \in Caller, NEW v,
           call' = [call EXCEPT ![p] = v],
           \/ ClientOf[p] # c
           \/ /\ call[p].r # r \/ call[p].pc \notin pcs
              /\ v.r # r \/ v.pc \notin pcs
    PROVE  CallAt(c, r, pcs)' <=> CallAt(c, r, pcs)
  <1>1. call'[p] = v /\ \A q \in Caller : q # p => call'[q] = call[q]
    BY DEF Inv, TypeOK
  <1> QED BY <1>1 DEF CallAt

\* No other call of p's client is in flight.
Solo(p) == \A q \in Caller : ClientOf[q] = ClientOf[p] /\ q # p => call[q].pc = "idle"

\* The only call of a client decides.
LEMMA PhaseSolo ==
    ASSUME Inv, NEW c, NEW r, NEW p \in Caller, NEW v,
           call' = [call EXCEPT ![p] = v], ClientOf[p] = c, Solo(p)
    PROVE  /\ Joining(c, r) <=> call[p].r = r /\ call[p].pc \in {"seat", "rollback"}
           /\ Joining(c, r)' <=> v.r = r /\ v.pc \in {"seat", "rollback"}
           /\ Leaving(c, r) <=> call[p].r = r /\ call[p].pc = "leave"
           /\ Leaving(c, r)' <=> v.r = r /\ v.pc \in {"leave"}
  <1>1. call'[p] = v /\ \A q \in Caller : q # p => call'[q] = call[q]
    BY DEF Inv, TypeOK
  <1> QED BY <1>1 DEF CallAt, Joining, Leaving, Solo

\* A step that changes neither the calls of c about r, nor c's seat in r, nor
\* what c's record says of r.
LEMMA SeatFrame ==
    ASSUME NEW c \in Client, NEW r \in RoomID, SeatRecords(c), OnlyRejects(TypeOf[r]),
           Registered(r)' <=> Registered(r),
           Joining(c, r)' <=> Joining(c, r),
           Leaving(c, r)' <=> Leaving(c, r),
           c \in room'[r].players <=> c \in room[r].players,
           RecordOf(c, r)' = SeatIn(c, r) <=> RecordOf(c, r) = SeatIn(c, r),
           RecordOf(c, r) = NoSession \/ RecordOf(c, r).client # c
             => (RecordOf(c, r) = NoSession \/ RecordOf(c, r).client # c)'
    PROVE  SeatRecord(c, r)'
  <1>1. SeatIn(c, r)' = SeatIn(c, r)
    BY DEF SeatIn
  <1> QED BY <1>1 DEF SeatRecords, SeatRecord

\* Creation and removal of rooms.
LEMMA SeatMap ==
    ASSUME Inv, CallsAreSound, NEW c \in Client, NEW r \in RoomID, SeatRecords(c),
           OnlyRejects(TypeOf[r]),
           \/ ShutdownAll
           \/ \E x \in RoomID : Remove(x) \/ OnEmpty(x) \/ Shutdown(x)
           \/ \E x \in RoomID, md \in Modes : Create(x, md)
    PROVE  SeatRecord(c, r)'
  <1>1. UserOf[c] \in User /\ TypeOf[r] \in Type
    BY UserOfAssumption, TypeOfAssumption
  <1>2. call' = call /\ (Joining(c, r)' <=> Joining(c, r))
                     /\ (Leaving(c, r)' <=> Leaving(c, r))
    BY DEF ShutdownAll, Remove, OnEmpty, Shutdown, Create, Joining, Leaving, CallAt
  <1>3. room'[r].players = room[r].players
    BY DEF ShutdownAll, Remove, OnEmpty, Shutdown, Create, Inv, TypeOK, RoomState
  <1>4. CASE ShutdownAll
    <2>1. ~Registered(r)' /\ RecordOf(c, r)' = NoSession
      BY <1>1, <1>4 DEF ShutdownAll, Registered, RecordOf, Inv, TypeOK
    <2> QED BY <2>1 DEF SeatRecord
  <1>5. ASSUME NEW x \in RoomID, Shutdown(x)
        PROVE  SeatRecord(c, r)'
    <2>1. /\ Registered(r)' <=> Registered(r)
          /\ RecordOf(c, r)' = RecordOf(c, r)
      BY <1>5 DEF Shutdown, Registered, RecordOf, Inv, TypeOK
    <2> QED BY <1>2, <1>3, <2>1, SeatFrame
  <1>6. ASSUME NEW x \in RoomID, NEW md \in Modes, Create(x, md)
        PROVE  SeatRecord(c, r)'
    <2>1. RecordOf(c, r)' = RecordOf(c, r)
      BY <1>6 DEF Create, RecordOf
    <2>2. CASE x # r
      <3>1. Registered(r)' <=> Registered(r)
        BY <1>6, <2>2 DEF Create, Registered, Inv, TypeOK
      <3> QED BY <1>2, <1>3, <2>1, <3>1, SeatFrame
    <2>3. CASE x = r
      <3>1. status[r] = "none" /\ room'[r].players = {}
        BY <1>3, <1>6, <2>3 DEF Create, CallsAreSound
      <3>2. RecordOf(c, r)' # SeatIn(c, r)
        <4>1. RecordOf(c, r) # NoSession => status[RecordOf(c, r).room] = "registered"
          BY <1>1, RecordRoom DEF RecordOf
        <4>2. SeatIn(c, r).room = r /\ SeatIn(c, r) \in Session
          BY DEF SeatIn, Session
        <4> QED BY <2>1, <3>1, <4>1, <4>2, NoSessionAssumption
      <3>3. ~Joining(c, r) /\ ~Leaving(c, r)
        BY <3>1 DEF CallsAreSound, CallSound, Joining, Leaving, CallAt
      <3>4. Registered(r)' /\ SeatIn(c, r)' = SeatIn(c, r)
        BY <1>6, <2>3 DEF Create, Registered, SeatIn, Inv, TypeOK
      <3> QED BY <1>2, <3>1, <3>2, <3>3, <3>4 DEF SeatRecord
    <2> QED BY <2>2, <2>3
  <1>7. ASSUME NEW x \in RoomID, Remove(x) \/ OnEmpty(x)
        PROVE  SeatRecord(c, r)'
    <2>1. CASE ~Registered(x)
      <3>1. status' = status /\ userSessions' = userSessions
        BY <1>7, <2>1 DEF Remove, OnEmpty, Inv, TypeOK
      <3>2. /\ Registered(r)' <=> Registered(r)
            /\ RecordOf(c, r)' = RecordOf(c, r)
        BY <3>1 DEF Registered, RecordOf
      <3> QED BY <1>2, <1>3, <3>2, SeatFrame
    <2>2. CASE Registered(x)
      <3>1. /\ status' = [status EXCEPT ![x] = "unregistered"]
            /\ userSessions' = cleanupSessionType(x)
        BY <1>7, <2>2 DEF Remove, OnEmpty
      <3>2. \/ RecordOf(c, r)' = RecordOf(c, r) /\ (TypeOf[x] = TypeOf[r] => RecordOf(c, r) = NoSession \/ RecordOf(c, r).room # x)
            \/ RecordOf(c, r)' = NoSession /\ RecordOf(c, r) # NoSession /\ RecordOf(c, r).room = x
        BY <1>1, <3>1 DEF cleanupSessionType, RecordOf, Inv, TypeOK
      <3>3. SeatIn(c, r).room = r /\ SeatIn(c, r).client = c /\ SeatIn(c, r) # NoSession
        BY NoSessionAssumption DEF SeatIn, Session
      <3>4. CASE x = r
        <4>1. ~Registered(r)'
          BY <3>1, <3>4 DEF Registered, Inv, TypeOK
        <4>2. Joining(c, r) => RecordOf(c, r) = SeatIn(c, r)
          BY <2>2, <3>4 DEF SeatRecords, SeatRecord
        <4> QED BY <1>2, <3>2, <3>3, <3>4, <4>1, <4>2 DEF SeatRecord
      <3>5. CASE x # r
        <4>1. Registered(r)' <=> Registered(r)
          BY <3>1, <3>5 DEF Registered, Inv, TypeOK
        <4> QED BY <1>2, <1>3, <3>2, <3>3, <3>5, <4>1, SeatFrame
      <3> QED BY <3>4, <3>5
    <2> QED BY <2>1, <2>2
  <1> QED BY <1>4, <1>5, <1>6, <1>7

\* The first critical section of JoinRoom.
LEMMA SeatJoinRoom ==
    ASSUME Inv, ~Rejoins, NEW c \in Client, NEW r \in RoomID, SeatRecords(c),
           OnlyRejects(TypeOf[r]), OneCall(c)',
           NEW p \in Caller, NEW x \in RoomID, JoinRoom(p, x)
    PROVE  SeatRecord(c, r)'
  <1> DEFINE d == ClientOf[p]
             old == IF mode[x] = "Allow" THEN NoSession
                    ELSE userSessions[UserOf[d]][TypeOf[x]]
             v == [pc |-> "seat", r |-> x, oldSess |-> old]
  <1>1. /\ d \in Client /\ UserOf[c] \in User /\ UserOf[d] \in User
        /\ TypeOf[r] \in Type /\ TypeOf[x] \in Type
    BY UserOfAssumption, TypeOfAssumption, ClientOfAssumption
  <1>2. call[p].pc = "idle" /\ call' = [call EXCEPT ![p] = v]
        /\ status' = status /\ room' = room
        /\ Registered(x) /\ d \notin room[x].players
    BY DEF JoinRoom
  <1>3. call'[p] = v /\ v.pc = "seat" /\ v.r = x
    BY <1>2 DEF Inv, TypeOK
  <1> HIDE DEF v
  <1>4. Registered(r)' <=> Registered(r)
    BY <1>2 DEF Registered
  <1>5. TypeOf[x] = TypeOf[r] => mode[x] = "Reject"
    BY <1>2 DEF OnlyRejects, Registered
  <1>6. \/ TypeOf[x] # TypeOf[r] \/ UserOf[d] # UserOf[c]
        \/ RecordOf(c, r) \in {NoSession, SeatIn(d, x)} /\ RecordOf(c, r)' = SeatIn(d, x)
    BY <1>1, <1>5 DEF JoinRoom, RecordOf, SeatIn, Inv, TypeOK
  <1>7. TypeOf[x] # TypeOf[r] \/ UserOf[d] # UserOf[c] => RecordOf(c, r)' = RecordOf(c, r)
    BY <1>1 DEF JoinRoom, RecordOf, Inv, TypeOK
  <1>8. /\ SeatIn(d, x) # NoSession /\ SeatIn(c, r) # NoSession
        /\ SeatIn(d, x) = SeatIn(c, r) <=> d = c /\ x = r
        /\ SeatIn(d, x).client = d
        /\ SeatIn(c, r)' = SeatIn(c, r)
    <2>1. SeatIn(d, x) \in Session /\ SeatIn(c, r) \in Session
      BY <1>1 DEF SeatIn, Session
    <2>2. SeatIn(c, r)' = SeatIn(c, r)
      BY DEF SeatIn
    <2>3. SeatIn(d, x) = SeatIn(c, r) <=> d = c /\ x = r
      BY DEF SeatIn
    <2>4. SeatIn(d, x).client = d
      BY DEF SeatIn
    <2> QED BY <2>1, <2>2, <2>3, <2>4, NoSessionAssumption
  <1>9. CASE d # c
    <2>1. /\ Joining(c, r)' <=> Joining(c, r)
          /\ Leaving(c, r)' <=> Leaving(c, r)
      BY <1>2, <1>9, CallFrame DEF Joining, Leaving
    <2>2. /\ RecordOf(c, r)' = SeatIn(c, r) <=> RecordOf(c, r) = SeatIn(c, r)
          /\ RecordOf(c, r) = NoSession \/ RecordOf(c, r).client # c
             => (RecordOf(c, r) = NoSession \/ RecordOf(c, r).client # c)'
      BY <1>6, <1>7, <1>8, <1>9
    <2> QED BY <1>2, <1>4, <2>1, <2>2, SeatFrame
  <1>10. CASE d = c
    <2>1. Solo(p)
      <3> SUFFICES ASSUME NEW q \in Caller, ClientOf[q] = c, q # p, call[q].pc # "idle"
                   PROVE  FALSE
        BY <1>10 DEF Solo
      <3>1. call'[q] = call[q]
        BY <1>2 DEF Inv, TypeOK
      <3> QED BY <1>3, <1>10, <3>1 DEF OneCall
    <2>2. /\ ~Joining(c, r) /\ ~Leaving(c, r) /\ ~Leaving(c, r)'
          /\ Joining(c, r)' <=> x = r
      <3>1. ClientOf[p] = c
        BY <1>10
      <3>2. /\ Joining(c, r) <=> call[p].r = r /\ call[p].pc \in {"seat", "rollback"}
            /\ Joining(c, r)' <=> v.r = r /\ v.pc \in {"seat", "rollback"}
            /\ Leaving(c, r) <=> call[p].r = r /\ call[p].pc = "leave"
            /\ Leaving(c, r)' <=> v.r = r /\ v.pc \in {"leave"}
        BY <1>2, <2>1, <3>1, PhaseSolo
      <3> QED BY <1>2, <1>3, <3>2
    <2>3. Registered(r) => (c \in room[r].players <=> RecordOf(c, r) = SeatIn(c, r))
      BY <2>2 DEF SeatRecords, SeatRecord
    <2>4. CASE x = r
      <3>1. RecordOf(c, r)' = SeatIn(c, r)
        BY <1>6, <1>10, <2>4
      <3> QED BY <1>2, <1>4, <1>8, <1>10, <2>2, <2>4, <3>1 DEF SeatRecord
    <2>5. CASE x # r
      <3>1. RecordOf(c, r)' = SeatIn(c, r) <=> RecordOf(c, r) = SeatIn(c, r)
        BY <1>6, <1>7, <1>8, <2>5
      <3> QED BY <1>2, <1>4, <1>8, <2>2, <2>3, <2>5, <3>1 DEF SeatRecord
    <2> QED BY <2>4, <2>5
  <1> QED BY <1>9, <1>10

\* The client's join closure runs in the room.
LEMMA SeatSeat ==
    ASSUME Inv, CallsAreSound, NEW c \in Client, NEW r \in RoomID, SeatRecords(c),
           OnlyRejects(TypeOf[r]), OneCall(c), NEW p \in Caller, Seat(p)
    PROVE  SeatRecord(c, r)'
  <1> DEFINE d == ClientOf[p]
             x == call[p].r
             y == SeatResult(p)
  <1>1. /\ d \in Client /\ x \in RoomID /\ call[p].pc = "seat" /\ call[p] \in CallState
        /\ status' = status /\ userSessions' = userSessions
        /\ room' = [room EXCEPT ![x] = y.room]
    BY ClientOfAssumption DEF Seat, Inv, TypeOK
  <1>2. PICK l \in {"rollback", "find", "info"} :
           /\ call' = [call EXCEPT ![p].pc = l]
           /\ l = "rollback" <=> y.err # "nil"
           /\ l = "find" => Replaced(p)
    BY DEF Seat
  <1>3. PICK v : v.pc = l /\ v.r = x /\ call' = [call EXCEPT ![p] = v]
    <2> DEFINE v == [call[p] EXCEPT !.pc = l]
    <2>1. v.pc = l /\ v.r = x
      BY <1>1 DEF CallState
    <2>2. call' = [call EXCEPT ![p] = v]
      BY <1>2
    <2> HIDE DEF v
    <2> QED BY <2>1, <2>2
  <1>4. /\ Registered(r)' <=> Registered(r)
        /\ RecordOf(c, r)' = RecordOf(c, r)
        /\ SeatIn(c, r)' = SeatIn(c, r)
    BY <1>1 DEF Registered, RecordOf, SeatIn
  <1>5. ASSUME x = r, Registered(r)
        PROVE  /\ y.err = "nil" => y.room.players = room[r].players \cup {d}
               /\ y.err # "nil" => y.room = room[r]
               /\ ~Replaced(p)
    <2>1. mode[r] = "Reject"
      BY <1>5 DEF OnlyRejects, Registered
    <2>2. ~Replaced(p)
      BY <1>1, <1>5, <2>1 DEF CallsAreSound, CallSound
    <2>3. y = JoinFn(config, room[r], d, "return")
      BY <1>5, <2>2 DEF SeatResult, InPlace, Registered
    <2>4. RoomOK(config, room[r])
      BY DEF Inv, RoomsOK
    <2> HIDE DEF y
    <2> QED BY <1>1, <2>2, <2>3, <2>4, JoinEffect
  <1>6. room'[r] = IF x = r THEN y.room ELSE room[r]
    BY <1>1 DEF Inv, TypeOK
  <1> HIDE DEF y, x, d
  <1>7. CASE x # r
    <2>1. /\ Joining(c, r)' <=> Joining(c, r)
          /\ Leaving(c, r)' <=> Leaving(c, r)
      BY <1>3, <1>7, CallFrame DEF Joining, Leaving, x
    <2> QED BY <1>4, <1>6, <1>7, <2>1, SeatFrame
  <1>8. CASE x = r /\ d # c
    <2>1. /\ Joining(c, r)' <=> Joining(c, r)
          /\ Leaving(c, r)' <=> Leaving(c, r)
      BY <1>3, <1>8, CallFrame DEF Joining, Leaving, d
    <2>2. Registered(r) => (c \in room'[r].players <=> c \in room[r].players)
      BY <1>5, <1>6, <1>8
    <2> QED BY <1>4, <2>1, <2>2 DEF SeatRecords, SeatRecord
  <1>9. CASE x = r /\ d = c
    <2>1. ClientOf[p] = c /\ Solo(p)
      BY <1>1, <1>9 DEF OneCall, Solo, d
    <2>2. /\ Joining(c, r) <=> call[p].r = r /\ call[p].pc \in {"seat", "rollback"}
          /\ Joining(c, r)' <=> v.r = r /\ v.pc \in {"seat", "rollback"}
          /\ Leaving(c, r) <=> call[p].r = r /\ call[p].pc = "leave"
          /\ Leaving(c, r)' <=> v.r = r /\ v.pc \in {"leave"}
      BY <1>3, <2>1, PhaseSolo
    <2>3. /\ Joining(c, r) /\ ~Leaving(c, r) /\ ~Leaving(c, r)'
          /\ Joining(c, r)' <=> y.err # "nil"
      BY <1>1, <1>2, <1>3, <1>9, <2>2 DEF x
    <2> QED BY <1>4, <1>5, <1>6, <1>9, <2>3 DEF SeatRecords, SeatRecord
  <1> QED BY <1>7, <1>8, <1>9

\* The eviction of a replaced client never touches a type that rejects, and
\* the last steps of the calls touch no seat.
LEMMA SeatEvict ==
    ASSUME Inv, CallsAreSound, NEW c \in Client, NEW r \in RoomID, SeatRecords(c),
           OnlyRejects(TypeOf[r]), NEW p \in Caller,
           FindOld(p) \/ EvictOld(p) \/ EvictSchedule(p) \/ Info(p) \/ Schedule(p)
    PROVE  SeatRecord(c, r)'
  <1>1. /\ call[p].pc \in {"find", "evict", "evicted", "info", "schedule"}
        /\ call[p] \in CallState
        /\ status' = status /\ userSessions' = userSessions
    BY DEF FindOld, EvictOld, EvictSchedule, Info, Schedule, Inv, TypeOK
  <1>2. /\ Registered(r)' <=> Registered(r)
        /\ RecordOf(c, r)' = RecordOf(c, r)
    BY <1>1 DEF Registered, RecordOf
  <1>3. \E v : call' = [call EXCEPT ![p] = v] /\ v.pc \in {"evict", "evicted", "info", "idle"}
    <2>1. ASSUME NEW l \in {"evict", "evicted", "info"}, call' = [call EXCEPT ![p].pc = l]
          PROVE  \E v : call' = [call EXCEPT ![p] = v] /\ v.pc \in {"evict", "evicted", "info", "idle"}
      <3> DEFINE v == [call[p] EXCEPT !.pc = l]
      <3>1. v.pc = l
        BY <1>1 DEF CallState
      <3>2. call' = [call EXCEPT ![p] = v]
        BY <2>1
      <3> HIDE DEF v
      <3> QED BY <3>1, <3>2
    <2>2. IdleCall.pc = "idle"
      BY DEF IdleCall
    <2>3. \/ call' = [call EXCEPT ![p] = IdleCall]
          \/ \E l \in {"evict", "evicted", "info"} : call' = [call EXCEPT ![p].pc = l]
      BY DEF FindOld, EvictOld, EvictSchedule, Info, Schedule
    <2> QED BY <2>1, <2>2, <2>3
  <1>4. /\ Joining(c, r)' <=> Joining(c, r)
        /\ Leaving(c, r)' <=> Leaving(c, r)
    <2>1. PICK v : call' = [call EXCEPT ![p] = v] /\ v.pc \in {"evict", "evicted", "info", "idle"}
      BY <1>3
    <2> QED BY <1>1, <2>1, CallFrame DEF Joining, Leaving
  <1>5. room'[r].players = room[r].players
    <2>1. ASSUME EvictOld(p) PROVE call[p].oldSess.room # r
      <3>1. Replaced(p) /\ mode[call[p].r] # "Reject" /\ status[call[p].r] # "none"
        BY <2>1 DEF CallsAreSound, CallSound, EvictOld
      <3>2. TypeOf[call[p].oldSess.room] = TypeOf[call[p].r] /\ call[p].r \in RoomID
        BY <2>1, <3>1 DEF CallsAreSound, CallSound, EvictOld, Replaced, Inv, TypeOK
      <3> QED BY <3>1, <3>2 DEF OnlyRejects
    <2>2. Next
      BY DEF Next
    <2>3. call[p].pc \notin {"seat", "leave"}
      BY <1>1
    <2>4. ASSUME NEW q \in Caller,
                 \/ r = call[q].r /\ (Seat(q) \/ Leave(q))
                 \/ r = call[q].oldSess.room /\ EvictOld(q)
          PROVE  q = p
      <3>1. CASE q # p
        <4>1. call'[q] = call[q]
          BY <1>3, <3>1 DEF Inv, TypeOK
        <4>2. call'[q] # call[q]
          BY <2>4 DEF Seat, Leave, EvictOld, Inv, TypeOK, CallState, IdleCall
        <4> QED BY <4>1, <4>2
      <3> QED BY <3>1
    <2> QED BY <2>1, <2>2, <2>3, <2>4, PlayersStep DEF Seat, Leave
  <1> QED BY <1>2, <1>4, <1>5, SeatFrame

\* The second critical section of a JoinRoom that failed.
LEMMA SeatRollback ==
    ASSUME Inv, CallsAreSound, NEW c \in Client, NEW r \in RoomID, SeatRecords(c),
           OnlyRejects(TypeOf[r]), OneCall(c), NEW p \in Caller, Rollback(p)
    PROVE  SeatRecord(c, r)'
  <1> DEFINE d == ClientOf[p]
             x == call[p].r
  <1>1. /\ d \in Client /\ x \in RoomID /\ call[p].pc = "rollback"
        /\ status' = status /\ room' = room /\ call' = [call EXCEPT ![p] = IdleCall]
        /\ UserOf[c] \in User /\ UserOf[d] \in User /\ TypeOf[x] \in Type
        /\ TypeOf[r] \in Type /\ IdleCall.pc = "idle"
    BY ClientOfAssumption, UserOfAssumption, TypeOfAssumption
       DEF Rollback, Inv, TypeOK, IdleCall
  <1>2. /\ Registered(r)' <=> Registered(r)
        /\ SeatIn(c, r)' = SeatIn(c, r)
    BY <1>1 DEF Registered, SeatIn
  <1>3. /\ TypeOf[x] # TypeOf[r] \/ UserOf[d] # UserOf[c] => RecordOf(c, r)' = RecordOf(c, r)
        /\ \/ RecordOf(c, r)' = RecordOf(c, r)
           \/ /\ RecordOf(c, r)' = NoSession /\ RecordOf(c, r) # NoSession
              /\ RecordOf(c, r).client = d
        /\ /\ TypeOf[x] = TypeOf[r] /\ UserOf[d] = UserOf[c] /\ mode[x] # "Allow"
           /\ RecordOf(c, r) # NoSession /\ RecordOf(c, r).client = d
           => RecordOf(c, r)' = NoSession
    BY <1>1 DEF Rollback, Record, UserOfCaller, RecordOf, Inv, TypeOK
  <1>4. /\ SeatIn(c, r).client = c /\ SeatIn(c, r).room = r /\ SeatIn(c, r) # NoSession
        /\ SeatIn(c, x).client = c /\ SeatIn(c, x).room = x /\ SeatIn(c, x) # NoSession
    BY <1>1, NoSessionAssumption DEF SeatIn, Session
  <1>5. /\ TypeOf[x] = TypeOf[r] => OnlyRejects(TypeOf[x]) /\ RecordOf(c, x) = RecordOf(c, r)
        /\ TypeOf[x] = TypeOf[r] => mode[x] = "Reject"
    BY <1>1 DEF OnlyRejects, RecordOf, CallsAreSound, CallSound
  <1> HIDE DEF d, x
  <1>6. CASE d # c
    <2>1. /\ Joining(c, r)' <=> Joining(c, r)
          /\ Leaving(c, r)' <=> Leaving(c, r)
      BY <1>1, <1>6, CallFrame DEF Joining, Leaving, d
    <2> QED BY <1>1, <1>2, <1>3, <1>4, <1>6, <2>1, SeatFrame
  <1>7. CASE d = c
    <2>1. ClientOf[p] = c /\ Solo(p)
      BY <1>1, <1>7 DEF OneCall, Solo, d
    <2>2. ASSUME NEW z \in RoomID
          PROVE  /\ Joining(c, z) <=> z = x
                 /\ ~Leaving(c, z) /\ ~Leaving(c, z)' /\ ~Joining(c, z)'
      <3>1. /\ Joining(c, z) <=> call[p].r = z /\ call[p].pc \in {"seat", "rollback"}
            /\ Joining(c, z)' <=> IdleCall.r = z /\ IdleCall.pc \in {"seat", "rollback"}
            /\ Leaving(c, z) <=> call[p].r = z /\ call[p].pc = "leave"
            /\ Leaving(c, z)' <=> IdleCall.r = z /\ IdleCall.pc \in {"leave"}
        BY <1>1, <2>1, PhaseSolo
      <3> QED BY <1>1, <3>1 DEF x
    <2>3. Registered(r) => (c \in room[r].players <=> RecordOf(c, r)' = SeatIn(c, r))
      <3>1. CASE x = r
        BY <1>3, <1>4, <1>5, <1>7, <2>2, <3>1 DEF SeatRecords, SeatRecord
      <3>2. CASE x # r
        <4>1. Registered(r) => (c \in room[r].players <=> RecordOf(c, r) = SeatIn(c, r))
          BY <2>2, <3>2 DEF SeatRecords, SeatRecord
        <4>2. TypeOf[x] = TypeOf[r] =>
                 \/ RecordOf(c, r) = SeatIn(c, x)
                 \/ RecordOf(c, r) = NoSession \/ RecordOf(c, r).client # c
          BY <1>1, <1>5, <2>2 DEF SeatRecords, SeatRecord
        <4> QED BY <1>3, <1>4, <1>7, <3>2, <4>1, <4>2
      <3> QED BY <3>1, <3>2
    <2> QED BY <1>1, <1>2, <2>2, <2>3 DEF SeatRecord
  <1> QED BY <1>6, <1>7

\* LeaveRoom deletes the record, then its client's seat is given up.
LEMMA SeatLeave ==
    ASSUME Inv, NEW c \in Client, NEW r \in RoomID, SeatRecords(c),
           OnlyRejects(TypeOf[r]), OneCall(c), OneCall(c)', NEW p \in Caller,
           Leave(p) \/ \E x \in RoomID : LeaveRoom(p, x)
    PROVE  SeatRecord(c, r)'
  <1> DEFINE d == ClientOf[p]
  <1>1. /\ d \in Client /\ UserOf[c] \in User /\ UserOf[d] \in User
        /\ TypeOf[r] \in Type /\ status' = status
    BY ClientOfAssumption, UserOfAssumption, TypeOfAssumption DEF Leave, LeaveRoom
  <1>2. /\ Registered(r)' <=> Registered(r)
        /\ SeatIn(c, r)' = SeatIn(c, r)
    BY <1>1 DEF Registered, SeatIn
  <1>3. ASSUME NEW x \in RoomID, LeaveRoom(p, x)
        PROVE  SeatRecord(c, r)'
    <2> DEFINE v == [pc |-> "leave", r |-> x, oldSess |-> NoSession]
    <2>1. /\ call[p].pc = "idle" /\ room' = room /\ call' = [call EXCEPT ![p] = v]
          /\ Registered(x)
      BY <1>3 DEF LeaveRoom
    <2>2. call'[p] = v /\ v.pc = "leave" /\ v.r = x
      BY <2>1 DEF Inv, TypeOK
    <2> HIDE DEF v
    <2>3. /\ \/ RecordOf(c, r)' = RecordOf(c, r)
             \/ RecordOf(c, r)' = NoSession /\ RecordOf(c, r) = SeatIn(d, x)
          /\ d = c /\ x = r => RecordOf(c, r)' # SeatIn(c, r)
      <3>1. x = r => mode[x] # "Allow"
        BY <2>1 DEF OnlyRejects, Registered
      <3>2. SeatIn(c, r) # NoSession
        BY NoSessionAssumption DEF SeatIn, Session
      <3>3. TypeOf[x] \in Type
        BY TypeOfAssumption
      <3> QED BY <1>1, <1>3, <3>1, <3>2, <3>3
              DEF LeaveRoom, RecordOf, SeatIn, UserOfCaller, Inv, TypeOK
    <2>4. /\ SeatIn(c, r).client = c /\ SeatIn(c, r).room = r /\ SeatIn(c, r) # NoSession
          /\ SeatIn(d, x).client = d /\ SeatIn(d, x).room = x
      BY <1>1, NoSessionAssumption DEF SeatIn, Session
    <2> HIDE DEF d
    <2>5. CASE d # c
      <3>1. /\ Joining(c, r)' <=> Joining(c, r)
            /\ Leaving(c, r)' <=> Leaving(c, r)
        BY <2>1, <2>5, CallFrame DEF Joining, Leaving, d
      <3> QED BY <1>2, <2>1, <2>3, <2>4, <2>5, <3>1, SeatFrame
    <2>6. CASE d = c
      <3>1. ClientOf[p] = c
        BY <2>6 DEF d
      <3>2. Solo(p)
        <4> SUFFICES ASSUME NEW q \in Caller, ClientOf[q] = c, q # p, call[q].pc # "idle"
                     PROVE  FALSE
          BY <3>1 DEF Solo
        <4>1. call'[q] = call[q]
          BY <2>1 DEF Inv, TypeOK
        <4> QED BY <2>2, <3>1, <4>1 DEF OneCall
      <3>3. /\ Joining(c, r) <=> call[p].r = r /\ call[p].pc \in {"seat", "rollback"}
            /\ Joining(c, r)' <=> v.r = r /\ v.pc \in {"seat", "rollback"}
            /\ Leaving(c, r) <=> call[p].r = r /\ call[p].pc = "leave"
            /\ Leaving(c, r)' <=> v.r = r /\ v.pc \in {"leave"}
        BY <2>1, <3>1, <3>2, PhaseSolo
      <3>4. /\ ~Joining(c, r) /\ ~Joining(c, r)' /\ ~Leaving(c, r)
            /\ Leaving(c, r)' <=> x = r
        BY <2>1, <2>2, <3>3
      <3>5. CASE x = r
        BY <1>2, <2>3, <2>6, <3>4, <3>5 DEF SeatRecord
      <3>6. CASE x # r
        BY <1>2, <2>1, <2>3, <2>4, <3>4, <3>6, SeatFrame
      <3> QED BY <3>5, <3>6
    <2> QED BY <2>5, <2>6
  <1>4. CASE Leave(p)
    <2> DEFINE x == call[p].r
               y == LeaveFn(config, room[x], d, "return")
    <2>1. /\ x \in RoomID /\ call[p].pc = "leave" /\ call[p] \in CallState
          /\ userSessions' = userSessions
      BY <1>4 DEF Leave, Inv, TypeOK
    <2>2. PICK v : /\ call' = [call EXCEPT ![p] = v]
                   /\ v.pc \in {"idle", "schedule"}
      <3>1. [call[p] EXCEPT !.pc = "schedule"].pc = "schedule" /\ IdleCall.pc = "idle"
        BY <2>1 DEF CallState, IdleCall
      <3>2. \/ call' = [call EXCEPT ![p] = IdleCall]
            \/ call' = [call EXCEPT ![p] = [call[p] EXCEPT !.pc = "schedule"]]
        BY <1>4 DEF Leave
      <3> QED BY <3>1, <3>2
    <2>3. RecordOf(c, r)' = RecordOf(c, r)
      BY <2>1 DEF RecordOf
    <2>4. room'[r].players =
            IF x = r /\ status[r] # "shutdown" THEN room[r].players \ {d} ELSE room[r].players
      <3>1. y.room.players = room[x].players \ {d}
        BY <2>1, LeaveEffect DEF Inv, RoomsOK
      <3>2. room' = IF status[x] = "shutdown" THEN room ELSE [room EXCEPT ![x] = y.room]
        BY <1>4 DEF Leave
      <3> HIDE DEF y
      <3> QED BY <2>1, <3>1, <3>2 DEF Inv, TypeOK
    <2> HIDE DEF x, d
    <2>5. CASE d # c \/ x # r
      <3>1. /\ Joining(c, r)' <=> Joining(c, r)
        <4>1. call[p].pc \notin {"seat", "rollback"} /\ v.pc \notin {"seat", "rollback"}
          BY <2>1, <2>2
        <4> QED BY <2>2, <4>1, CallFrame DEF Joining
      <3>2. Leaving(c, r)' <=> Leaving(c, r)
        <4>1. v.pc \notin {"leave"} /\ (ClientOf[p] # c \/ call[p].r # r)
          BY <2>2, <2>5 DEF d, x
        <4> QED BY <2>2, <4>1, CallFrame DEF Leaving
      <3>3. c \in room'[r].players <=> c \in room[r].players
        BY <2>4, <2>5
      <3> QED BY <1>2, <2>3, <3>1, <3>2, <3>3, SeatFrame
    <2>6. CASE d = c /\ x = r
      <3>1. ClientOf[p] = c /\ Solo(p)
        BY <2>1, <2>6 DEF OneCall, Solo, d
      <3>2. /\ Joining(c, r) <=> call[p].r = r /\ call[p].pc \in {"seat", "rollback"}
            /\ Joining(c, r)' <=> v.r = r /\ v.pc \in {"seat", "rollback"}
            /\ Leaving(c, r) <=> call[p].r = r /\ call[p].pc = "leave"
            /\ Leaving(c, r)' <=> v.r = r /\ v.pc \in {"leave"}
        BY <2>2, <3>1, PhaseSolo
      <3>3. ~Joining(c, r)' /\ Leaving(c, r) /\ ~Leaving(c, r)'
        BY <2>1, <2>2, <2>6, <3>2 DEF x
      <3>4. Registered(r) => status[r] # "shutdown"
        BY DEF Registered
      <3> QED BY <1>2, <2>3, <2>4, <2>6, <3>3, <3>4 DEF SeatRecords, SeatRecord
    <2> QED BY <2>5, <2>6
  <1> QED BY <1>3, <1>4

(***************************************************************************)
(* Every step keeps the records of client c its seats, as long as c asks   *)
(* for no seat it has and has one call in flight at a time; what the other *)
(* clients do is free.                                                     *)
(***************************************************************************)
LEMMA SeatRecordsStep ==
    ASSUME Inv, CallsAreSound, ~Rejoins, Next, NEW c \in Client, SeatRecords(c),
           OneCall(c), OneCall(c)'
    PROVE  SeatRecords(c)'
  <1> SUFFICES ASSUME NEW r \in RoomID, OnlyRejects(TypeOf[r])'
               PROVE  SeatRecord(c, r)'
    BY DEF SeatRecords, SeatRecord
  <1>1. OnlyRejects(TypeOf[r])
    BY StatusStep, TypeOfAssumption
  <1> QED BY <1>1, SeatMap, SeatJoinRoom, SeatSeat, SeatEvict, SeatRollback, SeatLeave
          DEF Next

\* Nobody has a record or a seat in the beginning.
LEMMA SeatsInit ==
    ASSUME Init
    PROVE  CallsAreSound /\ \A c \in Client : SeatRecords(c)
  <1>1. \A r \in RoomID : room[r].players = {} /\ status[r] = "none"
    BY DEF Init, newRoom, RunHook
  <1>2. \A p \in Caller : call[p].pc = "idle"
    BY DEF Init, IdleCall
  <1>3. CallsAreSound
    BY <1>1, <1>2 DEF CallsAreSound, CallSound
  <1>4. \A c \in Client : SeatRecords(c)
    BY <1>1, <1>2 DEF SeatRecords, SeatRecord, Registered, Joining, CallAt
  <1> QED BY <1>3, <1>4

\* No two goroutines act for the same client.
OneCallerPerClient == \A p, q \in Caller : ClientOf[p] = ClientOf[q] => p = q

(***************************************************************************)
(* Singleton enforcement for every number of rooms, users, clients and     *)
(* callers: in a type whose rooms all reject, the records and the seats    *)
(* are the same whenever no call is in flight (manager.go:178-287), if no  *)
(* client makes two calls at a time or asks for a seat it has.             *)
(***************************************************************************)
THEOREM SingletonEnforced ==
    ASSUME ~Rejoins, OneCallerPerClient
    PROVE  Spec => []RecordsAreSeats
  <1> DEFINE AllSeats == \A c \in Client : SeatRecords(c)
             J == Inv /\ CallsAreSound /\ AllSeats
  <1>1. Init => J
    BY InitInv, SeatsInit
  <1>2. J /\ [Next]_vars => J'
    <2> SUFFICES ASSUME J, [Next]_vars PROVE J'
      OBVIOUS
    <2>1. Inv'
      BY NextInv
    <2>2. CASE UNCHANGED vars
      <3>1. CallsAreSound'
        BY <2>2 DEF vars, CallsAreSound, CallSound, Replaced, Mine
      <3>2. AllSeats'
        BY <2>2 DEF vars, SeatRecords, SeatRecord, OnlyRejects, Registered, Joining,
           Leaving, CallAt, RecordOf, SeatIn
      <3> QED BY <2>1, <3>1, <3>2
    <2>3. CASE Next
      <3>1. CallsAreSound'
        BY <2>3, CallsStep
      <3>2. ASSUME NEW c \in Client PROVE OneCall(c) /\ OneCall(c)'
        BY DEF OneCall, OneCallerPerClient
      <3>3. AllSeats'
        BY <2>3, <3>2, SeatRecordsStep
      <3> QED BY <2>1, <3>1, <3>3
    <2> QED BY <2>2, <2>3
  <1>3. J => RecordsAreSeats
    <2> SUFFICES ASSUME J, \A p \in Caller : call[p].pc = "idle",
                        NEW r \in RoomID, NEW c \in Client, Registered(r),
                        OnlyRejects(TypeOf[r])
                 PROVE  c \in room[r].players
                          <=> userSessions[UserOf[c]][TypeOf[r]] = [room |-> r, client |-> c]
      BY DEF RecordsAreSeats
    <2>1. ~Joining(c, r) /\ ~Leaving(c, r)
      BY DEF Joining, Leaving, CallAt
    <2> QED BY <2>1 DEF SeatRecords, SeatRecord, RecordOf, SeatIn
  <1> HIDE DEF J
  <1> QED BY <1>1, <1>2, <1>3, PTL DEF Spec
=============================================================================
