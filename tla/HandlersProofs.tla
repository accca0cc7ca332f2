--------------------------- MODULE HandlersProofs ---------------------------
(***************************************************************************)
(* Safety of the built-in handlers and OnDisconnect over the room manager, *)
(* for any number of connections, rooms, types and users.                  *)
(***************************************************************************)
EXTENDS Handlers, RoomManagerProofs

-----------------------------------------------------------------------------
(* The inductive invariants.                                               *)

Joins == {"seat", "find", "evict", "evicted", "rollback", "info"}
Leaves == {"leave", "schedule"}

\* Where a connection and its two goroutines stand, relative to each other.
Phase(c) ==
    /\ handler[c].pc = "joining" <=> call[HandleLoop[c]].pc \in Joins
    /\ handler[c].pc = "leaving" <=> call[HandleLoop[c]].pc \in Leaves
    /\ handler[c].pc \in {"joining", "leaving"} => call[HandleLoop[c]].r = handler[c].r
    /\ call[ReadLoop[c]].pc \in {"idle", "leave", "schedule"}
    /\ call[ReadLoop[c]].pc # "idle" \/ reader[c].todo # {} => reader[c].pc = "leave"
    /\ handler[c].pc \notin {"idle", "reply"} =>
          handler[c].r \in RoomID /\ status[handler[c].r] # "none"
    /\ \A r \in roomIDs[c] : status[r] # "none"

\* Nobody but the connections' goroutines calls the manager.
OnlyLoopsCall ==
    \A p \in Caller : call[p].pc # "idle" =>
        \E c \in Client : p = HandleLoop[c] \/ p = ReadLoop[c]

\* No hook closes a room or keeps it.
PlainRooms == \A r \in RoomID : room[r].isOpen /\ ~room[r].keepOnEmpty

(***************************************************************************)
(* An empty room in the map is accounted for: its removal is due, or the   *)
(* goroutine that emptied it is about to make it due, or the request that  *)
(* created it has not given it its first player and will remove it.        *)
(***************************************************************************)
Creating(c, r) ==
    /\ handler[c].op = "create" /\ handler[c].r = r
    /\ \/ handler[c].pc \in {"join", "unsub", "remove"}
       \/ handler[c].pc = "joining" /\ call[HandleLoop[c]].pc = "seat"

Scheduling(p, r) ==
    \/ call[p].pc = "schedule" /\ call[p].r = r
    \/ call[p].pc = "evicted" /\ call[p].oldSess.room = r

Accounted(r) ==
    Registered(r) /\ room[r].players = {} =>
        \/ room[r].onEmptyDue
        \/ \E c \in Client : Creating(c, r)
        \/ \E p \in Caller : Scheduling(p, r)

Types ==
    /\ roomIDs \in [Client -> SUBSET RoomID]
    /\ handler \in [Client -> HandlerState]
    /\ reader \in [Client -> ReaderState]

HInv ==
    /\ Inv
    /\ CallsAreSound
    /\ Types
    /\ \A c \in Client : Phase(c)
    /\ OnlyLoopsCall
    /\ PlainRooms
    /\ \A r \in RoomID : Accounted(r)

\* Before c has its seat, or after it has given it up.
Seatless(c) ==
    \/ handler[c].pc \in {"join", "unsub"}
    \/ handler[c].pc = "joining" /\ call[HandleLoop[c]].pc \in {"seat", "rollback"}
    \/ handler[c].pc = "leaving" /\ call[HandleLoop[c]].pc = "schedule"

SeatedIn(c, r) == Registered(r) /\ c \in room[r].players

\* What a connection tracks and where its client sits.
Tracks(c) ==
    /\ Seatless(c) => ~SeatedIn(c, handler[c].r)
    /\ reader[c].pc # "exited" =>
          /\ handler[c].pc \in {"join", "joining"} => handler[c].r \in roomIDs[c]
          /\ \A r \in RoomID : SeatedIn(c, r) => r \in roomIDs[c]

\* A request about r that has not ended.
Moving(c, r) ==
    /\ handler[c].r = r
    /\ \/ handler[c].pc \in {"join", "unsub", "leaving"}
       \/ handler[c].pc = "joining" /\ call[HandleLoop[c]].pc \in {"seat", "rollback"}

\* In a type whose rooms all reject, a connection tracks no room but the one
\* its client sits in.
Placed(c) ==
    \A r \in roomIDs[c] :
        Registered(r) /\ OnlyRejects(TypeOf[r]) => c \in room[r].players \/ Moving(c, r)

\* The message of a client that sits in a room of its type goes there.
Heard(c) ==
    handler[c].pc \in {"handle", "reply"} =>
        \A r \in RoomID :
            SeatedIn(c, r) /\ TypeOf[r] = handler[c].typ /\ OnlyRejects(TypeOf[r])
            => /\ handler[c].r = r
               /\ handler[c].pc = "reply" => handler[c].err = "nil"

Hears(c) == reader[c].pc = "read" => SeatRecords(c) /\ Placed(c) /\ Heard(c)

-----------------------------------------------------------------------------
(* What a call of the manager does, step by step.                          *)

\* The call of p moves from one of the pcs from to one of to; while it is not
\* over it keeps its room and its record, and the other calls stay.
CallGoes(p, from, to) ==
    /\ call[p].pc \in from
    /\ call'[p].pc \in to
    /\ call'[p].pc # "idle" => /\ call'[p].r = call[p].r
                               /\ call'[p].oldSess = call[p].oldSess
    /\ \A q \in Caller : q # p => call'[q] = call[q]

\* The steps of JoinRoom and of LeaveRoom, after the first.
LEMMA CallSteps ==
    ASSUME Inv, NEW p \in Caller
    PROVE  /\ Seat(p) => CallGoes(p, {"seat"}, {"rollback", "find", "info"})
           /\ FindOld(p) => CallGoes(p, {"find"}, {"evict", "info"})
           /\ EvictOld(p) => CallGoes(p, {"evict"}, {"evicted", "info"})
           /\ EvictSchedule(p) => CallGoes(p, {"evicted"}, {"info"})
           /\ Rollback(p) => CallGoes(p, {"rollback"}, {"idle"})
           /\ Info(p) => CallGoes(p, {"info"}, {"idle"})
           /\ Leave(p) => CallGoes(p, {"leave"}, {"schedule", "idle"})
           /\ Schedule(p) => CallGoes(p, {"schedule"}, {"idle"})
  <1>1. call \in [Caller -> CallState]
    BY DEF Inv, TypeOK
  <1>2. ASSUME NEW from, NEW to, NEW l \in to, call[p].pc \in from,
               call' = [call EXCEPT ![p].pc = l]
        PROVE  CallGoes(p, from, to)
    BY <1>1, <1>2 DEF CallGoes, CallState
  <1>3. ASSUME NEW from, NEW to, "idle" \in to, call[p].pc \in from,
               call' = [call EXCEPT ![p] = IdleCall]
        PROVE  CallGoes(p, from, to)
    BY <1>1, <1>3 DEF CallGoes, IdleCall
  <1>4. ASSUME Seat(p) PROVE CallGoes(p, {"seat"}, {"rollback", "find", "info"})
    <2>1. \E l \in {"rollback", "find", "info"} : call' = [call EXCEPT ![p].pc = l]
      BY <1>4 DEF Seat
    <2>2. call[p].pc \in {"seat"}
      BY <1>4 DEF Seat
    <2> QED BY <1>2, <2>1, <2>2
  <1>5. ASSUME FindOld(p) PROVE CallGoes(p, {"find"}, {"evict", "info"})
    <2>1. \E l \in {"evict", "info"} : call' = [call EXCEPT ![p].pc = l]
      BY <1>5 DEF FindOld
    <2>2. call[p].pc \in {"find"}
      BY <1>5 DEF FindOld
    <2> QED BY <1>2, <2>1, <2>2
  <1>6. ASSUME EvictOld(p) PROVE CallGoes(p, {"evict"}, {"evicted", "info"})
    <2>1. \E l \in {"evicted", "info"} : call' = [call EXCEPT ![p].pc = l]
      BY <1>6 DEF EvictOld
    <2>2. call[p].pc \in {"evict"}
      BY <1>6 DEF EvictOld
    <2> QED BY <1>2, <2>1, <2>2
  <1>7. ASSUME EvictSchedule(p) PROVE CallGoes(p, {"evicted"}, {"info"})
    <2>1. \E l \in {"info"} : call' = [call EXCEPT ![p].pc = l]
      BY <1>7 DEF EvictSchedule
    <2>2. call[p].pc \in {"evicted"}
      BY <1>7 DEF EvictSchedule
    <2> QED BY <1>2, <2>1, <2>2
  <1>8. ASSUME Leave(p) PROVE CallGoes(p, {"leave"}, {"schedule", "idle"})
    <2>1. \/ \E l \in {"schedule", "idle"} : call' = [call EXCEPT ![p].pc = l]
          \/ call' = [call EXCEPT ![p] = IdleCall]
      BY <1>8 DEF Leave
    <2>2. call[p].pc \in {"leave"} /\ "idle" \in {"schedule", "idle"}
      BY <1>8 DEF Leave
    <2> QED BY <1>2, <1>3, <2>1, <2>2
  <1>9. ASSUME Rollback(p) PROVE CallGoes(p, {"rollback"}, {"idle"})
    <2>1. /\ call' = [call EXCEPT ![p] = IdleCall]
          /\ call[p].pc \in {"rollback"} /\ "idle" \in {"idle"}
      BY <1>9 DEF Rollback
    <2> QED BY <1>3, <2>1
  <1>10. ASSUME Info(p) PROVE CallGoes(p, {"info"}, {"idle"})
    <2>1. /\ call' = [call EXCEPT ![p] = IdleCall]
          /\ call[p].pc \in {"info"} /\ "idle" \in {"idle"}
      BY <1>10 DEF Info
    <2> QED BY <1>3, <2>1
  <1>11. ASSUME Schedule(p) PROVE CallGoes(p, {"schedule"}, {"idle"})
    <2>1. /\ call' = [call EXCEPT ![p] = IdleCall]
          /\ call[p].pc \in {"schedule"} /\ "idle" \in {"idle"}
      BY <1>11 DEF Schedule
    <2> QED BY <1>3, <2>1
  <1> QED BY <1>4, <1>5, <1>6, <1>7, <1>8, <1>9, <1>10, <1>11

\* The first steps of JoinRoom and of LeaveRoom.
LEMMA CallBegins ==
    ASSUME Inv, NEW p \in Caller, NEW r \in RoomID
    PROVE  /\ JoinRoom(p, r) => /\ call[p].pc = "idle"
                                /\ call'[p].pc = "seat" /\ call'[p].r = r
           /\ LeaveRoom(p, r) => /\ call[p].pc = "idle"
                                 /\ call'[p].pc = "leave" /\ call'[p].r = r
           /\ JoinRoom(p, r) \/ LeaveRoom(p, r) =>
                 /\ Registered(r) /\ UNCHANGED <<status, mode, room>>
                 /\ \A q \in Caller : q # p => call'[q] = call[q]
  BY DEF Inv, TypeOK, JoinRoom, LeaveRoom

-----------------------------------------------------------------------------
(* What a call of the manager does to the rooms.                           *)

\* All rooms but r are as they were, and r but for its players.
Touches(r) ==
    /\ r \in RoomID
    /\ \A q \in RoomID : q # r => room'[q] = room[q]
    /\ room'[r].isOpen = room[r].isOpen
    /\ room'[r].keepOnEmpty = room[r].keepOnEmpty
    /\ room[r].onEmptyDue => room'[r].onEmptyDue

\* A join that succeeds has its seat, and one that fails takes none; nobody
\* but a replaced client loses a seat, and an open room is not left empty.
LEMMA SeatOutcome ==
    ASSUME Inv, NEW p \in Caller, Seat(p)
    PROVE  LET r == call[p].r
               d == ClientOf[p]
           IN  /\ Touches(r)
               /\ room'[r].players \subseteq room[r].players \cup {d}
               /\ IF call'[p].pc = "rollback"
                    THEN room'[r].players \subseteq room[r].players
                    ELSE d \in room'[r].players
               /\ ~Replaced(p) => room[r].players \subseteq room'[r].players
               /\ status[r] # "shutdown" /\ room[r].isOpen => room'[r].players # {}
  <1> DEFINE r == call[p].r
             d == ClientOf[p]
             x == SeatResult(p)
  <1>1. /\ r \in RoomID /\ d \in Client /\ call[p].pc = "seat"
        /\ room \in [RoomID -> RoomState] /\ call \in [Caller -> CallState]
        /\ RoomOK(config, room[r])
    BY ClientOfAssumption DEF Inv, TypeOK, RoomsOK, Seat
  <1>2. /\ SameButPlayers(room[r], x.room)
        /\ x.room.players \subseteq room[r].players \cup {d}
        /\ x.err # "nil" => x.room.players \subseteq room[r].players
        /\ x.err = "nil" => d \in x.room.players
        /\ ~Replaced(p) => room[r].players \subseteq x.room.players
        /\ status[r] # "shutdown" /\ room[r].isOpen => x.room.players # {}
    <2>1. CASE status[r] = "shutdown"
      <3>1. x = Result(room[r], "closed", FALSE, FALSE)
        BY <2>1 DEF SeatResult
      <3>2. x.room = room[r] /\ x.err = "closed"
        BY <3>1 DEF Result
      <3> QED BY <2>1, <3>2 DEF SameButPlayers
    <2>2. CASE status[r] # "shutdown" /\ InPlace(p)
      <3>1. x = JoinReplaceFn(config, room[r], call[p].oldSess.client, d, "return", "return")
        BY <2>2 DEF SeatResult
      <3>2. Replaced(p)
        BY <2>2 DEF InPlace
      <3> HIDE DEF x, r, d
      <3>3. /\ x.err = "nil" => x.room.players = (room[r].players \ {call[p].oldSess.client}) \cup {d}
            /\ x.err # "nil" => /\ x.room.players \subseteq room[r].players
                                /\ room[r].isOpen => x.room.players # {}
            /\ SameButPlayers(room[r], x.room)
        BY <1>1, <3>1, ReplaceEffect
      <3> QED BY <3>2, <3>3
    <2>3. CASE status[r] # "shutdown" /\ ~InPlace(p)
      <3>1. x = JoinFn(config, room[r], d, "return")
        BY <2>3 DEF SeatResult
      <3> HIDE DEF x, r, d
      <3>2. /\ x.err = "nil" => x.room.players = room[r].players \cup {d}
            /\ x.err # "nil" => x.room = room[r] /\ (room[r].isOpen => room[r].players # {})
            /\ SameButPlayers(room[r], x.room)
        BY <1>1, <3>1, JoinEffect
      <3> QED BY <3>2
    <2> QED BY <2>1, <2>2, <2>3
  <1>3. room'[r] = x.room /\ \A q \in RoomID : q # r => room'[q] = room[q]
    BY <1>1 DEF Seat
  <1>4. call'[p].pc = "rollback" <=> x.err # "nil"
    BY <1>1 DEF Seat, CallState
  <1> HIDE DEF x
  <1> QED BY <1>1, <1>2, <1>3, <1>4 DEF Touches, SameButPlayers

\* A leave, and an eviction, takes one client out, and whoever takes the last
\* one out goes on to schedule the removal.
LEMMA LeaveOutcome ==
    ASSUME Inv, NEW p \in Caller, Leave(p)
    PROVE  LET r == call[p].r
           IN  /\ Touches(r)
               /\ room'[r].players = IF status[r] = "shutdown" THEN room[r].players
                                     ELSE room[r].players \ {ClientOf[p]}
               /\ room[r].players # {} /\ room'[r].players = {} =>
                     call'[p].pc = "schedule" /\ call'[p].r = r
  <1> DEFINE r == call[p].r
             x == LeaveFn(config, room[r], ClientOf[p], "return")
  <1>1. /\ r \in RoomID /\ call[p].pc = "leave" /\ call[p] \in CallState
        /\ room \in [RoomID -> RoomState] /\ call \in [Caller -> CallState]
        /\ RoomOK(config, room[r])
    BY DEF Inv, TypeOK, RoomsOK, Leave
  <1>2. /\ x.room.players = room[r].players \ {ClientOf[p]}
        /\ x.empty <=> ClientOf[p] \in room[r].players /\ room[r].players \ {ClientOf[p]} = {}
        /\ SameButPlayers(room[r], x.room)
    BY <1>1, LeaveEffect
  <1>3. IF status[r] = "shutdown" THEN room' = room
        ELSE /\ room' = [room EXCEPT ![r] = x.room]
             /\ x.empty => call' = [call EXCEPT ![p] = [@ EXCEPT !.pc = "schedule"]]
    BY DEF Leave
  <1>4. status[r] # "shutdown" /\ x.empty => call'[p].pc = "schedule" /\ call'[p].r = r
    BY <1>1, <1>3 DEF CallState
  <1> HIDE DEF x
  <1>5. CASE status[r] = "shutdown"
    BY <1>1, <1>3, <1>5 DEF Touches
  <1>6. CASE status[r] # "shutdown"
    <2>1. room'[r] = x.room /\ \A q \in RoomID : q # r => room'[q] = room[q]
      BY <1>1, <1>3, <1>6
    <2>2. Touches(r)
      BY <1>1, <1>2, <2>1 DEF Touches, SameButPlayers
    <2> QED BY <1>2, <1>4, <1>6, <2>1, <2>2
  <1> QED BY <1>5, <1>6

\* Leave of an evicted client: it goes, nobody comes.
LEMMA EvictOutcome ==
    ASSUME Inv, NEW p \in Caller, EvictOld(p)
    PROVE  LET r == call[p].oldSess.room
           IN  /\ Touches(r)
               /\ room'[r].players \subseteq room[r].players
               /\ room[r].players # {} /\ room'[r].players = {} =>
                     call'[p].pc = "evicted" /\ call'[p].oldSess.room = r
  <1> DEFINE r == call[p].oldSess.room
             e == call[p].oldSess.client
             x == LeaveFn(config, room[r], e, "return")
  <1>1. /\ r \in RoomID /\ call[p].pc = "evict" /\ call[p] \in CallState
        /\ room \in [RoomID -> RoomState] /\ call \in [Caller -> CallState]
        /\ RoomOK(config, room[r])
    BY DEF Inv, TypeOK, RoomsOK, EvictOld, Session
  <1>2. /\ x.room.players = room[r].players \ {e}
        /\ x.empty <=> e \in room[r].players /\ room[r].players \ {e} = {}
        /\ SameButPlayers(room[r], x.room)
    BY <1>1, LeaveEffect
  <1>3. IF status[r] = "shutdown" THEN room' = room
        ELSE /\ room' = [room EXCEPT ![r] = x.room]
             /\ x.empty => call' = [call EXCEPT ![p].pc = "evicted"]
    BY DEF EvictOld
  <1>4. status[r] # "shutdown" /\ x.empty =>
           call'[p].pc = "evicted" /\ call'[p].oldSess.room = r
    BY <1>1, <1>3 DEF CallState
  <1> HIDE DEF x, e
  <1>5. CASE status[r] = "shutdown"
    BY <1>1, <1>3, <1>5 DEF Touches
  <1>6. CASE status[r] # "shutdown"
    <2>1. room'[r] = x.room /\ \A q \in RoomID : q # r => room'[q] = room[q]
      BY <1>1, <1>3, <1>6
    <2>2. Touches(r)
      BY <1>1, <1>2, <2>1 DEF Touches, SameButPlayers
    <2> QED BY <1>2, <1>4, <1>6, <2>1, <2>2
  <1> QED BY <1>5, <1>6

\* The second closure of a leave or an eviction makes the removal due.
LEMMA ScheduleOutcome ==
    ASSUME Inv, NEW p \in Caller, NEW r,
           \/ Schedule(p) /\ r = call[p].r
           \/ EvictSchedule(p) /\ r = call[p].oldSess.room
    PROVE  /\ Touches(r)
           /\ room'[r].players = room[r].players
           /\ status[r] # "shutdown" /\ ~room[r].keepOnEmpty => room'[r].onEmptyDue
  <1> DEFINE n == ScheduleFn(config, room[r]).room
  <1>1. /\ r \in RoomID /\ room \in [RoomID -> RoomState]
        /\ RoomOK(config, room[r])
    BY DEF Inv, TypeOK, RoomsOK, Schedule, EvictSchedule, Session
  <1>2. /\ n.players = room[r].players /\ n.isOpen = room[r].isOpen
        /\ n.keepOnEmpty = room[r].keepOnEmpty
        /\ ~room[r].keepOnEmpty => n.onEmptyDue
        /\ room[r].onEmptyDue => n.onEmptyDue
    BY <1>1, ScheduleEffect
  <1>3. room' = IF status[r] = "shutdown" THEN room ELSE [room EXCEPT ![r] = n]
    BY DEF Schedule, EvictSchedule
  <1> HIDE DEF n
  <1> QED BY <1>1, <1>2, <1>3 DEF Touches

-----------------------------------------------------------------------------
(* Steps of one connection.                                                *)

ConnectionStep(c) ==
    \/ \E r \in RoomID :
          \/ \E md \in Modes : CreateRoom(c, r, md)
          \/ AskToJoin(c, r) \/ BeginLeave(c, r)
    \/ \E t \in Type : DispatchRoomMessage(c, t)
    \/ HandlerStep(c)
    \/ Disconnect(c) \/ OnDisconnectStep(c)

\* What holds of every step of connection c: it is a step of the manager, or
\* leaves the manager alone; and nobody else's goroutines or state move.
Local(c) ==
    /\ Next \/ UNCHANGED manager
    /\ \A p \in Caller : p # HandleLoop[c] /\ p # ReadLoop[c] => call'[p] = call[p]
    /\ \A d \in Client : d # c => /\ handler'[d] = handler[d]
                                  /\ reader'[d] = reader[d]
                                  /\ roomIDs'[d] = roomIDs[d]

\* The goroutines of the connections are all different.
LEMMA Loops ==
    ASSUME NEW c \in Client
    PROVE  /\ HandleLoop[c] \in Caller /\ ReadLoop[c] \in Caller
           /\ ClientOf[HandleLoop[c]] = c /\ ClientOf[ReadLoop[c]] = c
           /\ HandleLoop[c] # ReadLoop[c]
           /\ \A d \in Client : d # c =>
                 /\ HandleLoop[d] # HandleLoop[c] /\ HandleLoop[d] # ReadLoop[c]
                 /\ ReadLoop[d] # HandleLoop[c] /\ ReadLoop[d] # ReadLoop[c]
  BY LoopsAssumption

\* A request that is made is one.
LEMMA RequestType ==
    ASSUME NEW pc, NEW op, NEW r, NEW typ
    PROVE  /\ Request(pc, op, r, typ).pc = pc /\ Request(pc, op, r, typ).op = op
           /\ Request(pc, op, r, typ).r = r /\ Request(pc, op, r, typ).typ = typ
           /\ /\ pc \in {"idle", "join", "joining", "unsub", "remove", "await",
                          "leaving", "handle", "reply"}
              /\ op \in {"none", "create", "join", "leave", "message"}
              /\ r \in RoomID \cup {NoRoom} /\ typ \in Type \cup {NoRoom}
              => Request(pc, op, r, typ) \in HandlerState
  BY DEF Request, HandlerState, Err

\* Taking a request, or none.
LEMMA TakeLemma ==
    ASSUME handler \in [Client -> HandlerState], NEW c \in Client,
           NEW q \in HandlerState, Take(c, q)
    PROVE  /\ handler' \in [Client -> HandlerState] /\ handler'[c] = q
           /\ \A d \in Client : d # c => handler'[d] = handler[d]
  BY DEF Take

\* Ending a request.
LEMMA FinishLemma ==
    ASSUME handler \in [Client -> HandlerState], NEW c \in Client, Finish(c)
    PROVE  /\ handler' \in [Client -> HandlerState]
           /\ handler'[c].pc = "idle" /\ handler'[c].op = "none"
           /\ handler'[c].r = NoRoom
           /\ \A d \in Client : d # c => handler'[d] = handler[d]
  <1>1. /\ NoRequest \in HandlerState /\ NoRequest.pc = "idle"
        /\ NoRequest.op = "none" /\ NoRequest.r = NoRoom
    BY RequestType DEF NoRequest
  <1> QED BY <1>1, TakeLemma DEF Finish

\* Going on with a request.
LEMMA GotoLemma ==
    ASSUME handler \in [Client -> HandlerState], NEW c \in Client,
           NEW l \in {"joining", "unsub", "remove", "await"}, Goto(c, l)
    PROVE  /\ handler' \in [Client -> HandlerState]
           /\ handler'[c].pc = l /\ handler'[c].op = handler[c].op
           /\ handler'[c].r = handler[c].r
           /\ \A d \in Client : d # c => handler'[d] = handler[d]
  BY DEF Goto, HandlerState

\* A room that was created stays so, whatever the step.
LEMMA CreatedStays ==
    ASSUME Inv, Next \/ UNCHANGED manager
    PROVE  \A r \in RoomID : status[r] # "none" => status'[r] # "none"
  BY StatusStep DEF manager

\* The requests that call nothing: a new room or a new topic, and messages.
LEMMA RequestStep ==
    ASSUME HInv, NEW c \in Client,
           \/ \E r \in RoomID :
                 (\E md \in Modes : CreateRoom(c, r, md)) \/ AskToJoin(c, r)
           \/ \E t \in Type : DispatchRoomMessage(c, t)
           \/ HandleMessage(c) \/ Reply(c)
    PROVE  Local(c) /\ Types' /\ Phase(c)'
  <1>1. Inv /\ Types /\ Phase(c) /\ call' = call /\ reader' = reader
    BY DEF HInv, CreateRoom, Create, AskToJoin, DispatchRoomMessage, HandleMessage, Reply,
       manager
  <1>2. ASSUME NEW r \in RoomID, NEW op \in {"create", "join"}, Idle(c), Subscribe(c, r),
               Take(c, Request("join", op, r, NoRoom)), status'[r] # "none",
               Next \/ UNCHANGED manager
        PROVE  Local(c) /\ Types' /\ Phase(c)'
    <2> DEFINE q == Request("join", op, r, NoRoom)
    <2>1. q \in HandlerState /\ q.pc = "join" /\ q.r = r
      BY RequestType
    <2> HIDE DEF q
    <2>2. /\ handler' \in [Client -> HandlerState] /\ handler'[c] = q
          /\ \A d \in Client : d # c => handler'[d] = handler[d]
      BY <1>1, <1>2, <2>1, TakeLemma DEF Types, q
    <2>3. /\ roomIDs' \in [Client -> SUBSET RoomID] /\ roomIDs'[c] = roomIDs[c] \cup {r}
          /\ \A d \in Client : d # c => roomIDs'[d] = roomIDs[d]
      BY <1>1, <1>2 DEF Types, Subscribe
    <2>4. \A x \in RoomID : status[x] # "none" => status'[x] # "none"
      BY <1>1, <1>2, CreatedStays
    <2>5. Local(c) /\ Types'
      BY <1>1, <1>2, <2>2, <2>3 DEF Local, Types
    <2>6. Phase(c)'
      BY <1>1, <1>2, <2>1, <2>2, <2>3, <2>4 DEF Phase, Idle, Joins, Leaves, Types
    <2> QED BY <2>5, <2>6
  <1>3. ASSUME NEW r \in RoomID, NEW md \in Modes, CreateRoom(c, r, md)
        PROVE  Local(c) /\ Types' /\ Phase(c)'
    <2>1. Next /\ status'[r] # "none"
      BY <1>1, <1>3 DEF CreateRoom, Next, Create, Inv, TypeOK
    <2> QED BY <1>2, <1>3, <2>1 DEF CreateRoom
  <1>4. ASSUME NEW r \in RoomID, AskToJoin(c, r)
        PROVE  Local(c) /\ Types' /\ Phase(c)'
    <2>1. UNCHANGED manager /\ status'[r] # "none"
      BY <1>4 DEF AskToJoin, Registered, manager
    <2> QED BY <1>2, <1>4, <2>1 DEF AskToJoin
  <1>5. ASSUME NEW q \in HandlerState, Take(c, q), UNCHANGED <<manager, roomIDs>>,
               q.pc \in {"idle", "reply"} \/ (q.pc = "handle" /\ q.r \in roomIDs[c]),
               handler[c].pc \notin {"joining", "leaving"}
        PROVE  Local(c) /\ Types' /\ Phase(c)'
    <2>1. /\ handler' \in [Client -> HandlerState] /\ handler'[c] = q
          /\ \A d \in Client : d # c => handler'[d] = handler[d]
      BY <1>1, <1>5, TakeLemma DEF Types
    <2>2. Local(c) /\ Types'
      BY <1>1, <1>5, <2>1 DEF Local, Types
    <2>3. Phase(c)'
      BY <1>1, <1>5, <2>1 DEF Phase, Joins, Leaves, Types, manager
    <2> QED BY <2>2, <2>3
  <1>6. ASSUME NEW t \in Type, DispatchRoomMessage(c, t)
        PROVE  Local(c) /\ Types' /\ Phase(c)'
    <2> DEFINE req == Request("reply", "message", NoRoom, t)
    <2>1. req \in HandlerState
      BY RequestType
    <2> HIDE DEF req
    <2>2. \E q \in HandlerState :
             /\ Take(c, q)
             /\ q.pc \in {"idle", "reply"} \/ (q.pc = "handle" /\ q.r \in roomIDs[c])
      <3>1. /\ [req EXCEPT !.err = "notInRoom"] \in HandlerState
            /\ [req EXCEPT !.err = "notInRoom"].pc = "reply"
            /\ [req EXCEPT !.err = "ambiguous"] \in HandlerState
            /\ [req EXCEPT !.err = "ambiguous"].pc = "reply"
        <4>1. req.pc = "reply"
          BY RequestType DEF req
        <4> QED BY <2>1, <4>1 DEF HandlerState, Err
      <3>2. ASSUME NEW r \in RoomID, Matches(c, t) = {r}
            PROVE  /\ [req EXCEPT !.pc = "handle", !.r = r] \in HandlerState
                   /\ [req EXCEPT !.pc = "handle", !.r = r].pc = "handle"
                   /\ [req EXCEPT !.pc = "handle", !.r = r].r \in roomIDs[c]
        <4>1. r \in roomIDs[c]
          BY <3>2 DEF Matches
        <4> QED BY <2>1, <4>1 DEF HandlerState
      <3>3. \/ Take(c, [req EXCEPT !.err = "notInRoom"])
            \/ \E r \in RoomID : /\ Matches(c, t) = {r}
                                  /\ Take(c, [req EXCEPT !.pc = "handle", !.r = r])
            \/ Take(c, [req EXCEPT !.err = "ambiguous"])
        BY <1>6 DEF DispatchRoomMessage, req
      <3> QED BY <3>1, <3>2, <3>3
    <2>3. handler[c].pc \notin {"joining", "leaving"} /\ UNCHANGED <<manager, roomIDs>>
      BY <1>6 DEF DispatchRoomMessage, Idle
    <2> QED BY <1>5, <2>2, <2>3
  <1>7. CASE HandleMessage(c)
    <2> DEFINE e == IF status[handler[c].r] = "shutdown" THEN "closed"
                    ELSE HandleMessageFn(config, room[handler[c].r], c, "return").err
               q == [handler[c] EXCEPT !.pc = "reply", !.err = e]
    <2>1. Take(c, q) /\ UNCHANGED <<manager, roomIDs>> /\ handler[c].pc = "handle"
      BY <1>7 DEF HandleMessage
    <2>2. e \in Err
      BY DEF HandleMessageFn, Result, Err
    <2> HIDE DEF e
    <2>3. q \in HandlerState /\ q.pc = "reply"
      BY <1>1, <2>2 DEF Types, HandlerState
    <2> HIDE DEF q
    <2> QED BY <1>5, <2>1, <2>3
  <1>8. CASE Reply(c)
    <2>1. NoRequest \in HandlerState /\ NoRequest.pc = "idle"
      BY RequestType DEF NoRequest
    <2> QED BY <1>5, <1>8, <2>1 DEF Reply, Finish
  <1> QED BY <1>3, <1>4, <1>6, <1>7, <1>8

\* The handle loop's way through JoinRoom and back.
LEMMA JoinSteps ==
    ASSUME HInv, NEW c \in Client,
           \/ BeginJoin(c) \/ JoinRefused(c) \/ JoinStep(c) \/ JoinFails(c)
           \/ JoinReturns(c)
    PROVE  Local(c) /\ Types' /\ Phase(c)'
  <1> DEFINE p == HandleLoop[c]
  <1>1. /\ Inv /\ Types /\ Phase(c)
        /\ p \in Caller /\ ReadLoop[c] \in Caller /\ ReadLoop[c] # p
        /\ roomIDs' = roomIDs /\ reader' = reader
        /\ handler[c].r \in RoomID /\ status[handler[c].r] # "none"
    BY Loops DEF HInv, Phase, BeginJoin, JoinRefused, JoinStep, JoinFails, JoinReturns
  <1> HIDE DEF p
  \* What is left to show of each step.
  <1>2. ASSUME handler' \in [Client -> HandlerState],
               \A d \in Client : d # c => handler'[d] = handler[d],
               Next \/ UNCHANGED manager,
               \A q \in Caller : q # p => call'[q] = call[q],
               handler'[c].pc = "joining" <=> call'[p].pc \in Joins,
               call'[p].pc \notin Leaves, handler'[c].pc # "leaving",
               handler'[c].pc \notin {"idle", "reply"} => handler'[c].r = handler[c].r,
               handler'[c].pc = "joining" => call'[p].r = handler[c].r
        PROVE  Local(c) /\ Types' /\ Phase(c)'
    <2>1. \A x \in RoomID : status[x] # "none" => status'[x] # "none"
      BY <1>1, <1>2, CreatedStays
    <2>2. Local(c) /\ Types'
      BY <1>1, <1>2 DEF Local, Types, p
    <2>3. /\ call'[ReadLoop[c]] = call[ReadLoop[c]]
          /\ handler'[c].pc \notin {"idle", "reply"} =>
                handler'[c].r \in RoomID /\ status'[handler'[c].r] # "none"
          /\ \A r \in roomIDs[c] : status'[r] # "none"
      BY <1>1, <1>2, <2>1 DEF Phase, Types
    <2>4. Phase(c)'
      BY <1>1, <1>2, <2>3 DEF Phase, p
    <2> QED BY <2>2, <2>4
  <1>3. CASE BeginJoin(c)
    <2>1. /\ call'[p].pc = "seat" /\ call'[p].r = handler[c].r
          /\ \A q \in Caller : q # p => call'[q] = call[q]
      BY <1>1, <1>3, CallBegins DEF BeginJoin, p
    <2>2. /\ handler' \in [Client -> HandlerState]
          /\ handler'[c].pc = "joining" /\ handler'[c].r = handler[c].r
          /\ \A d \in Client : d # c => handler'[d] = handler[d]
      BY <1>1, <1>3, GotoLemma DEF BeginJoin, Types
    <2>3. Next
      BY <1>1, <1>3 DEF BeginJoin, Next, p
    <2> QED BY <1>2, <2>1, <2>2, <2>3 DEF Joins, Leaves
  <1>4. CASE JoinRefused(c)
    <2>1. /\ handler[c].pc = "join" /\ Goto(c, "unsub") /\ UNCHANGED manager
          /\ call' = call
      BY <1>4 DEF JoinRefused, manager
    <2>2. /\ handler' \in [Client -> HandlerState]
          /\ handler'[c].pc = "unsub" /\ handler'[c].r = handler[c].r
          /\ \A d \in Client : d # c => handler'[d] = handler[d]
      BY <1>1, <2>1, GotoLemma DEF Types
    <2>3. call[p].pc \notin Joins /\ call[p].pc \notin Leaves
      BY <1>1, <2>1 DEF Phase, p
    <2> QED BY <1>2, <2>1, <2>2, <2>3
  <1>5. CASE JoinStep(c)
    <2>1. /\ handler[c].pc = "joining" /\ handler' = handler
          /\ Seat(p) \/ FindOld(p) \/ EvictOld(p) \/ EvictSchedule(p)
      BY <1>5 DEF JoinStep, p
    <2>2. CallGoes(p, Joins, {"rollback", "find", "info", "evict", "evicted"})
      BY <1>1, <2>1, CallSteps DEF CallGoes, Joins
    <2>3. Next
      BY <1>1, <2>1 DEF Next
    <2>4. /\ call'[p].pc \in Joins /\ call'[p].pc \notin Leaves
          /\ call'[p].r = call[p].r
          /\ \A q \in Caller : q # p => call'[q] = call[q]
      BY <2>2 DEF CallGoes, Joins, Leaves
    <2>5. call[p].r = handler[c].r
      BY <1>1, <2>1 DEF Phase, p
    <2>6. handler \in [Client -> HandlerState]
      BY <1>1 DEF Types
    <2> QED BY <1>2, <2>1, <2>3, <2>4, <2>5, <2>6
  <1>6. CASE JoinFails(c) \/ JoinReturns(c)
    <2>1. (Rollback(p) \/ Info(p)) /\ (Goto(c, "unsub") \/ Finish(c))
      BY <1>6 DEF JoinFails, JoinReturns, p
    <2>2. CallGoes(p, Joins, {"idle"})
      BY <1>1, <2>1, CallSteps DEF CallGoes, Joins
    <2>3. /\ handler' \in [Client -> HandlerState]
          /\ \/ handler'[c].pc = "idle"
             \/ handler'[c].pc = "unsub" /\ handler'[c].r = handler[c].r
          /\ \A d \in Client : d # c => handler'[d] = handler[d]
      BY <1>1, <2>1, GotoLemma, FinishLemma DEF Types
    <2>4. Next
      BY <1>1, <2>1 DEF Next
    <2>5. /\ call'[p].pc = "idle"
          /\ \A q \in Caller : q # p => call'[q] = call[q]
      BY <2>2 DEF CallGoes
    <2> QED BY <1>2, <2>3, <2>4, <2>5 DEF Joins, Leaves
  <1> QED BY <1>3, <1>4, <1>5, <1>6

\* The end of a request that changed the topics: Unsub, and the removal of a
\* room that could not be joined.
LEMMA UnsubSteps ==
    ASSUME HInv, NEW c \in Client, Unsub(c) \/ RemoveRoom(c) \/ Removed(c)
    PROVE  Local(c) /\ Types' /\ Phase(c)'
  <1>1. /\ Inv /\ Types /\ Phase(c) /\ call' = call /\ reader' = reader
        /\ handler[c].pc \in {"unsub", "remove", "await"}
        /\ handler[c].r \in RoomID /\ status[handler[c].r] # "none"
    BY DEF HInv, Phase, Unsub, RemoveRoom, Remove, Removed, manager
  <1>2. Next \/ UNCHANGED manager
    BY <1>1 DEF Unsub, RemoveRoom, Removed, Next
  <1>3. \A x \in RoomID : status[x] # "none" => status'[x] # "none"
    BY <1>1, <1>2, CreatedStays
  <1>4. /\ roomIDs' \in [Client -> SUBSET RoomID] /\ roomIDs'[c] \subseteq roomIDs[c]
        /\ \A d \in Client : d # c => roomIDs'[d] = roomIDs[d]
    BY <1>1 DEF Types, Unsub, RemoveRoom, Removed
  <1>5. /\ handler' \in [Client -> HandlerState]
        /\ \/ handler'[c].pc = "idle"
           \/ handler'[c].pc \in {"remove", "await"} /\ handler'[c].r = handler[c].r
        /\ \A d \in Client : d # c => handler'[d] = handler[d]
    <2>1. Finish(c) \/ Goto(c, "remove") \/ Goto(c, "await")
      BY DEF Unsub, RemoveRoom, Removed
    <2> QED BY <1>1, <2>1, GotoLemma, FinishLemma DEF Types
  <1>6. Local(c) /\ Types'
    BY <1>1, <1>2, <1>4, <1>5 DEF Local, Types
  <1>7. Phase(c)'
    <2>1. call[HandleLoop[c]].pc \notin Joins /\ call[HandleLoop[c]].pc \notin Leaves
      BY <1>1 DEF Phase
    <2>2. \A r \in roomIDs'[c] : status'[r] # "none"
      BY <1>1, <1>3, <1>4 DEF Phase, Types
    <2>3. handler'[c].pc \notin {"idle", "reply"} =>
             handler'[c].r \in RoomID /\ status'[handler'[c].r] # "none"
      BY <1>1, <1>3, <1>5
    <2> QED BY <1>1, <1>5, <2>1, <2>2, <2>3 DEF Phase
  <1> QED BY <1>6, <1>7

\* The handle loop's way through LeaveRoom and back.
LEMMA LeaveSteps ==
    ASSUME HInv, NEW c \in Client,
           LeaveStep(c) \/ \E r \in RoomID : BeginLeave(c, r)
    PROVE  Local(c) /\ Types' /\ Phase(c)'
  <1> DEFINE p == HandleLoop[c]
  <1>1. /\ Inv /\ Types /\ Phase(c)
        /\ p \in Caller /\ ReadLoop[c] \in Caller /\ ReadLoop[c] # p
        /\ roomIDs' = roomIDs /\ reader' = reader
    BY Loops DEF HInv, Phase, LeaveStep, BeginLeave
  <1> HIDE DEF p
  <1>2. ASSUME handler' \in [Client -> HandlerState],
               \A d \in Client : d # c => handler'[d] = handler[d],
               Next \/ UNCHANGED manager,
               \A q \in Caller : q # p => call'[q] = call[q],
               handler'[c].pc = "leaving" <=> call'[p].pc \in Leaves,
               call'[p].pc \notin Joins, handler'[c].pc \in {"leaving", "unsub"},
               handler'[c].r \in RoomID, status[handler'[c].r] # "none",
               handler'[c].pc = "leaving" => call'[p].r = handler'[c].r
        PROVE  Local(c) /\ Types' /\ Phase(c)'
    <2>1. \A x \in RoomID : status[x] # "none" => status'[x] # "none"
      BY <1>1, <1>2, CreatedStays
    <2>2. Local(c) /\ Types'
      BY <1>1, <1>2 DEF Local, Types, p
    <2>3. /\ call'[ReadLoop[c]] = call[ReadLoop[c]]
          /\ status'[handler'[c].r] # "none"
          /\ \A r \in roomIDs[c] : status'[r] # "none"
      BY <1>1, <1>2, <2>1 DEF Phase, Types
    <2>4. Phase(c)'
      BY <1>1, <1>2, <2>3 DEF Phase, p
    <2> QED BY <2>2, <2>4
  <1>3. ASSUME NEW r \in RoomID, BeginLeave(c, r)
        PROVE  Local(c) /\ Types' /\ Phase(c)'
    <2> DEFINE l == Request("leaving", "leave", r, NoRoom)
               u == Request("unsub", "leave", r, NoRoom)
    <2>1. /\ l \in HandlerState /\ l.pc = "leaving" /\ l.r = r
          /\ u \in HandlerState /\ u.pc = "unsub" /\ u.r = r
      BY RequestType
    <2>2. IF Registered(r) THEN LeaveRoom(p, r) /\ Take(c, l)
                           ELSE UNCHANGED manager /\ Take(c, u)
      BY <1>3 DEF BeginLeave, p
    <2> HIDE DEF l, u
    <2>3. status[r] # "none" /\ handler[c].pc = "idle"
      BY <1>1, <1>3 DEF BeginLeave, Idle, Phase
    <2>4. CASE Registered(r)
      <3>1. /\ call'[p].pc = "leave" /\ call'[p].r = r
            /\ \A q \in Caller : q # p => call'[q] = call[q]
        BY <1>1, <2>2, <2>4, CallBegins
      <3>2. /\ handler' \in [Client -> HandlerState] /\ handler'[c] = l
            /\ \A d \in Client : d # c => handler'[d] = handler[d]
        BY <1>1, <2>1, <2>2, <2>4, TakeLemma DEF Types
      <3>3. Next
        BY <1>1, <2>2, <2>4 DEF Next
      <3> QED BY <1>2, <2>1, <2>3, <3>1, <3>2, <3>3 DEF Joins, Leaves
    <2>5. CASE ~Registered(r)
      <3>1. /\ handler' \in [Client -> HandlerState] /\ handler'[c] = u
            /\ \A d \in Client : d # c => handler'[d] = handler[d]
        BY <1>1, <2>1, <2>2, <2>5, TakeLemma DEF Types
      <3>2. call' = call /\ UNCHANGED manager
        BY <2>2, <2>5 DEF manager
      <3>3. call[p].pc \notin Joins /\ call[p].pc \notin Leaves
        BY <1>1, <2>3 DEF Phase, p
      <3> QED BY <1>2, <2>1, <2>3, <3>1, <3>2, <3>3
    <2> QED BY <2>4, <2>5
  <1>4. CASE LeaveStep(c)
    <2>1. /\ handler[c].pc = "leaving" /\ (Leave(p) \/ Schedule(p))
          /\ IF call'[p].pc = "idle" THEN Goto(c, "unsub") ELSE handler' = handler
      BY <1>4 DEF LeaveStep, p
    <2>2. CallGoes(p, Leaves, {"schedule", "idle"})
      BY <1>1, <2>1, CallSteps DEF CallGoes, Leaves
    <2>3. Next
      BY <1>1, <2>1 DEF Next
    <2>4. /\ handler' \in [Client -> HandlerState] /\ handler'[c].r = handler[c].r
          /\ handler'[c].pc = IF call'[p].pc = "idle" THEN "unsub" ELSE "leaving"
          /\ \A d \in Client : d # c => handler'[d] = handler[d]
      BY <1>1, <2>1, GotoLemma DEF Types
    <2>5. /\ call[p].r = handler[c].r /\ handler[c].r \in RoomID
          /\ status[handler[c].r] # "none"
      BY <1>1, <2>1 DEF Phase, p
    <2>6. /\ call'[p].pc \in {"schedule", "idle"}
          /\ call'[p].pc # "idle" => call'[p].r = call[p].r
          /\ \A q \in Caller : q # p => call'[q] = call[q]
      BY <2>2 DEF CallGoes
    <2> QED BY <1>2, <2>3, <2>4, <2>5, <2>6 DEF Joins, Leaves
  <1> QED BY <1>3, <1>4

\* The read loop in OnDisconnect.
LEMMA ReaderSteps ==
    ASSUME HInv, NEW c \in Client, Disconnect(c) \/ OnDisconnectStep(c)
    PROVE  Local(c) /\ Types' /\ Phase(c)'
  <1> DEFINE p == ReadLoop[c]
  <1>1. /\ Inv /\ Types /\ Phase(c)
        /\ p \in Caller /\ HandleLoop[c] \in Caller /\ HandleLoop[c] # p
        /\ handler' = handler
    BY Loops DEF HInv, Disconnect, OnDisconnectStep, LeaveNext, DisconnectStep, UnsubAll
  <1> HIDE DEF p
  <1>2. ASSUME reader' \in [Client -> ReaderState],
               roomIDs' \in [Client -> SUBSET RoomID],
               roomIDs'[c] \subseteq roomIDs[c],
               \A d \in Client : d # c => reader'[d] = reader[d] /\ roomIDs'[d] = roomIDs[d],
               Next \/ UNCHANGED manager,
               \A q \in Caller : q # p => call'[q] = call[q],
               call'[p].pc \in {"idle", "leave", "schedule"},
               call'[p].pc # "idle" \/ reader'[c].todo # {} => reader'[c].pc = "leave"
        PROVE  Local(c) /\ Types' /\ Phase(c)'
    <2>1. \A x \in RoomID : status[x] # "none" => status'[x] # "none"
      BY <1>1, <1>2, CreatedStays
    <2>2. Local(c) /\ Types'
      BY <1>1, <1>2 DEF Local, Types, p
    <2>3. /\ call'[HandleLoop[c]] = call[HandleLoop[c]]
          /\ handler[c].pc \notin {"idle", "reply"} =>
                handler[c].r \in RoomID /\ status'[handler[c].r] # "none"
          /\ \A r \in roomIDs'[c] : status'[r] # "none"
      BY <1>1, <1>2, <2>1 DEF Phase, Types
    <2>4. Phase(c)'
      BY <1>1, <1>2, <2>3 DEF Phase, p
    <2> QED BY <2>2, <2>4
  <1>3. /\ reader \in [Client -> ReaderState] /\ roomIDs \in [Client -> SUBSET RoomID]
        /\ call[p].pc \in {"idle", "leave", "schedule"}
        /\ call[p].pc # "idle" \/ reader[c].todo # {} => reader[c].pc = "leave"
    BY <1>1 DEF Types, Phase, p
  <1>4. CASE Disconnect(c)
    <2>1. /\ reader' \in [Client -> ReaderState] /\ roomIDs' = roomIDs
          /\ \A d \in Client : d # c => reader'[d] = reader[d]
          /\ reader'[c].pc = "leave" /\ call' = call /\ UNCHANGED manager
      BY <1>3, <1>4 DEF Disconnect, ReaderState, manager
    <2> QED BY <1>2, <1>3, <2>1
  <1>5. CASE LeaveNext(c)
    <2>1. PICK r \in reader[c].todo :
             /\ reader' = [reader EXCEPT ![c].todo = @ \ {r}]
             /\ IF Registered(r) THEN LeaveRoom(p, r) ELSE UNCHANGED manager
      BY <1>5 DEF LeaveNext, p
    <2>2. r \in RoomID /\ reader[c].pc = "leave" /\ roomIDs' = roomIDs
      BY <1>3, <1>5 DEF ReaderState, LeaveNext
    <2>3. /\ reader' \in [Client -> ReaderState]
          /\ \A d \in Client : d # c => reader'[d] = reader[d]
          /\ reader'[c].pc = "leave"
      BY <1>3, <2>1, <2>2 DEF ReaderState
    <2>4. CASE Registered(r)
      <3>1. /\ call'[p].pc = "leave"
            /\ \A q \in Caller : q # p => call'[q] = call[q]
        BY <1>1, <2>1, <2>2, <2>4, CallBegins
      <3>2. Next
        BY <1>1, <2>1, <2>2, <2>4 DEF Next
      <3> QED BY <1>2, <1>3, <2>2, <2>3, <3>1, <3>2
    <2>5. CASE ~Registered(r)
      <3>1. call' = call /\ UNCHANGED manager
        BY <2>1, <2>5 DEF manager
      <3> QED BY <1>2, <1>3, <2>2, <2>3, <3>1
    <2> QED BY <2>4, <2>5
  <1>6. CASE DisconnectStep(c)
    <2>1. (Leave(p) \/ Schedule(p)) /\ UNCHANGED <<roomIDs, reader>>
      BY <1>6 DEF DisconnectStep, p
    <2>2. CallGoes(p, Leaves, {"schedule", "idle"})
      BY <1>1, <2>1, CallSteps DEF CallGoes, Leaves
    <2>3. Next
      BY <1>1, <2>1 DEF Next
    <2>4. /\ call[p].pc # "idle" /\ call'[p].pc \in {"schedule", "idle"}
          /\ \A q \in Caller : q # p => call'[q] = call[q]
      BY <2>2 DEF CallGoes, Leaves
    <2> QED BY <1>2, <1>3, <2>1, <2>3, <2>4
  <1>7. CASE UnsubAll(c)
    <2>1. /\ reader' \in [Client -> ReaderState] /\ reader'[c].todo = {}
          /\ roomIDs' \in [Client -> SUBSET RoomID] /\ roomIDs'[c] = {}
          /\ \A d \in Client : d # c => reader'[d] = reader[d] /\ roomIDs'[d] = roomIDs[d]
      BY <1>3, <1>7 DEF UnsubAll, ReaderState
    <2>2. call' = call /\ UNCHANGED manager /\ call[p].pc = "idle"
      BY <1>7 DEF UnsubAll, manager, p
    <2> QED BY <1>2, <1>3, <2>1, <2>2
  <1> QED BY <1>4, <1>5, <1>6, <1>7 DEF OnDisconnectStep

\* Every step of a connection is local, and keeps its goroutines in phase.
LEMMA LocalStep ==
    ASSUME HInv, NEW c \in Client, ConnectionStep(c)
    PROVE  Local(c) /\ Types' /\ Phase(c)'
  BY RequestStep, JoinSteps, UnsubSteps, LeaveSteps, ReaderSteps
     DEF ConnectionStep, HandlerStep

-----------------------------------------------------------------------------
(* No room leaks.                                                          *)

\* No step of the manager closes a room or has it kept.
LEMMA PlainStep ==
    ASSUME Inv, PlainRooms, Next \/ UNCHANGED manager
    PROVE  PlainRooms'
  <1>1. room \in [RoomID -> RoomState]
    BY DEF Inv, TypeOK
  <1>2. ASSUME NEW r, Touches(r) PROVE PlainRooms'
    BY <1>2 DEF Touches, PlainRooms
  <1>3. ASSUME NEW r \in RoomID, OnEmpty(r) PROVE PlainRooms'
    BY <1>1, <1>3 DEF OnEmpty, RoomState, PlainRooms
  <1>4. ASSUME NEW p \in Caller,
               Seat(p) \/ Leave(p) \/ EvictOld(p) \/ Schedule(p) \/ EvictSchedule(p)
        PROVE  PlainRooms'
    BY <1>2, <1>4, SeatOutcome, LeaveOutcome, EvictOutcome, ScheduleOutcome
  <1>5. CASE room' = room
    BY <1>5 DEF PlainRooms
  <1> QED BY <1>3, <1>4, <1>5
          DEF Next, Create, Remove, Shutdown, ShutdownAll, JoinRoom, LeaveRoom,
              FindOld, Rollback, Info, manager

\* A room that was accounted for is, when it was as empty before the step and
\* what accounted for it still does.
LEMMA AccountFrame ==
    ASSUME NEW r \in RoomID, Accounted(r),
           Registered(r)' /\ room'[r].players = {} =>
              /\ Registered(r) /\ room[r].players = {}
              /\ room[r].onEmptyDue => room'[r].onEmptyDue,
           \A c \in Client : Creating(c, r) => Creating(c, r)',
           \A p \in Caller : Scheduling(p, r) => Scheduling(p, r)'
    PROVE  Accounted(r)'
  BY DEF Accounted

\* The same for a step of connection c.
LEMMA OwnAccountFrame ==
    ASSUME HInv, NEW c \in Client, Local(c), NEW r \in RoomID,
           Registered(r)' /\ room'[r].players = {} =>
              /\ Registered(r) /\ room[r].players = {}
              /\ room[r].onEmptyDue => room'[r].onEmptyDue,
           Creating(c, r) => Creating(c, r)',
           Scheduling(HandleLoop[c], r) => Scheduling(HandleLoop[c], r)',
           Scheduling(ReadLoop[c], r) => Scheduling(ReadLoop[c], r)'
    PROVE  Accounted(r)'
  <1>1. ASSUME NEW d \in Client, Creating(d, r) PROVE Creating(d, r)'
    <2>1. CASE d # c
      <3>1. handler'[d] = handler[d] /\ call'[HandleLoop[d]] = call[HandleLoop[d]]
        BY <2>1, Loops DEF Local
      <3> QED BY <1>1, <3>1 DEF Creating
    <2> QED BY <1>1, <2>1
  <1>2. ASSUME NEW p \in Caller, Scheduling(p, r) PROVE Scheduling(p, r)'
    <2>1. CASE p # HandleLoop[c] /\ p # ReadLoop[c]
      <3>1. call'[p] = call[p]
        BY <2>1 DEF Local
      <3> QED BY <1>2, <3>1 DEF Scheduling
    <2> QED BY <1>2, <2>1
  <1>3. Accounted(r)
    BY DEF HInv
  <1> QED BY <1>1, <1>2, <1>3, AccountFrame

\* Whoever takes the last client out of a room is about to schedule its
\* removal, and whoever schedules it makes it due.
LEMMA LeaveAccounted ==
    ASSUME HInv, NEW c \in Client, Local(c), NEW r \in RoomID, handler' = handler
             \/ handler[c].pc = "leaving",
           NEW p \in {HandleLoop[c], ReadLoop[c]}, Leave(p) \/ Schedule(p)
    PROVE  Accounted(r)'
  <1>1. /\ p \in Caller /\ Inv /\ PlainRooms /\ status' = status
        /\ call[p].pc \in {"leave", "schedule"}
        /\ HandleLoop[c] \in Caller /\ ReadLoop[c] \in Caller
        /\ HandleLoop[c] # ReadLoop[c] /\ Phase(c)
    BY Loops DEF HInv, Leave, Schedule
  <1>2. \A q \in Caller : q # p => call'[q] = call[q]
    BY <1>1, CallSteps DEF CallGoes
  <1>3. Creating(c, r) => Creating(c, r)'
    <2>1. call[HandleLoop[c]].pc = "seat" => call'[HandleLoop[c]] = call[HandleLoop[c]]
      BY <1>1, <1>2
    <2>2. handler[c].pc = "leaving" => ~Creating(c, r)
      BY DEF Creating
    <2> QED BY <2>1, <2>2 DEF Creating
  <1>4. ASSUME NEW q \in Caller, Scheduling(q, r), q # p PROVE Scheduling(q, r)'
    BY <1>2, <1>4 DEF Scheduling
  <1>5. CASE Leave(p)
    <2> DEFINE x == call[p].r
    <2>1. /\ Touches(x) /\ room'[x].players \subseteq room[x].players
          /\ room[x].players # {} /\ room'[x].players = {} =>
                call'[p].pc = "schedule" /\ call'[p].r = x
      BY <1>1, <1>5, LeaveOutcome
    <2>2. ~Scheduling(p, r)
      BY <1>5 DEF Leave, Scheduling
    <2> HIDE DEF x
    <2>3. CASE x = r /\ room[r].players # {} /\ room'[r].players = {}
      <3>1. Scheduling(p, r)'
        BY <2>1, <2>3 DEF Scheduling
      <3> QED BY <1>1, <3>1 DEF Accounted
    <2>4. CASE ~(x = r /\ room[r].players # {} /\ room'[r].players = {})
      <3>1. Registered(r)' /\ room'[r].players = {} =>
               /\ Registered(r) /\ room[r].players = {}
               /\ room[r].onEmptyDue => room'[r].onEmptyDue
        BY <1>1, <2>1, <2>4 DEF Touches, Registered
      <3> QED BY <1>1, <1>3, <1>4, <2>2, <3>1, OwnAccountFrame
    <2> QED BY <2>3, <2>4
  <1>6. CASE Schedule(p)
    <2> DEFINE x == call[p].r
    <2>1. /\ Touches(x) /\ room'[x].players = room[x].players
          /\ status[x] # "shutdown" /\ ~room[x].keepOnEmpty => room'[x].onEmptyDue
      BY <1>1, <1>6, ScheduleOutcome
    <2>2. Scheduling(p, r) => r = x
      BY <1>6 DEF Schedule, Scheduling
    <2> HIDE DEF x
    <2>3. CASE x = r
      <3>1. Registered(r)' => room'[r].onEmptyDue
        BY <1>1, <2>1, <2>3 DEF Registered, PlainRooms
      <3> QED BY <3>1 DEF Accounted
    <2>4. CASE x # r
      <3>1. Registered(r)' /\ room'[r].players = {} =>
               /\ Registered(r) /\ room[r].players = {}
               /\ room[r].onEmptyDue => room'[r].onEmptyDue
        BY <1>1, <2>1, <2>4 DEF Touches, Registered
      <3> QED BY <1>1, <1>3, <1>4, <2>2, <2>4, <3>1, OwnAccountFrame
    <2> QED BY <2>3, <2>4
  <1> QED BY <1>5, <1>6

\* The steps of JoinRoom: a join that succeeds fills the room, and one that
\* evicts the last client of another room goes on to schedule its removal.
LEMMA JoinAccounted ==
    ASSUME HInv, NEW c \in Client, Local(c), NEW r \in RoomID, JoinStep(c)
    PROVE  Accounted(r)'
  <1> DEFINE p == HandleLoop[c]
             x == call[p].oldSess.room
  <1>1. /\ p \in Caller /\ Inv /\ PlainRooms /\ status' = status /\ handler' = handler
        /\ ReadLoop[c] \in Caller /\ p # ReadLoop[c] /\ call[p].r = handler[c].r
        /\ handler[c].pc = "joining"
        /\ Seat(p) \/ FindOld(p) \/ EvictOld(p) \/ EvictSchedule(p)
    BY Loops DEF HInv, Phase, JoinStep, Seat, FindOld, EvictOld, EvictSchedule
  <1>2. Scheduling(ReadLoop[c], r) => Scheduling(ReadLoop[c], r)'
    BY <1>1, CallSteps DEF CallGoes, Scheduling
  <1>3. ASSUME /\ Registered(r)' /\ room'[r].players = {} =>
                  /\ Registered(r) /\ room[r].players = {}
                  /\ room[r].onEmptyDue => room'[r].onEmptyDue,
               Creating(c, r) => FALSE,
               Scheduling(p, r) => Scheduling(p, r)'
        PROVE  Accounted(r)'
    BY <1>1, <1>2, <1>3, OwnAccountFrame
  <1>4. Creating(c, r) => call[p].pc = "seat" /\ call[p].r = r
    BY <1>1 DEF Creating
  <1>5. CASE Seat(p)
    <2>1. /\ Touches(call[p].r)
          /\ status[call[p].r] # "shutdown" /\ room[call[p].r].isOpen
                => room'[call[p].r].players # {}
      BY <1>1, <1>5, SeatOutcome
    <2>2. CASE call[p].r = r
      BY <1>1, <2>1, <2>2 DEF Accounted, Registered, PlainRooms
    <2>3. CASE call[p].r # r
      <3>1. ~Scheduling(p, r)
        BY <1>5 DEF Seat, Scheduling
      <3>2. room'[r] = room[r] /\ (Registered(r)' => Registered(r))
        BY <1>1, <2>1, <2>3 DEF Touches, Registered
      <3> QED BY <1>3, <1>4, <2>3, <3>1, <3>2
    <2> QED BY <2>2, <2>3
  <1>6. CASE FindOld(p)
    <2>1. ~Scheduling(p, r) /\ ~Creating(c, r)
      BY <1>4, <1>6 DEF FindOld, Scheduling
    <2>2. room' = room
      BY <1>6 DEF FindOld
    <2> QED BY <1>1, <1>3, <2>1, <2>2 DEF Registered
  <1>7. CASE EvictOld(p)
    <2>1. /\ Touches(x) /\ room'[x].players \subseteq room[x].players
          /\ room[x].players # {} /\ room'[x].players = {} =>
                call'[p].pc = "evicted" /\ call'[p].oldSess.room = x
      BY <1>1, <1>7, EvictOutcome
    <2>2. ~Scheduling(p, r) /\ ~Creating(c, r)
      BY <1>4, <1>7 DEF EvictOld, Scheduling
    <2> HIDE DEF x
    <2>3. CASE x = r /\ room[r].players # {} /\ room'[r].players = {}
      <3>1. Scheduling(p, r)'
        BY <2>1, <2>3 DEF Scheduling
      <3> QED BY <1>1, <3>1 DEF Accounted
    <2>4. CASE ~(x = r /\ room[r].players # {} /\ room'[r].players = {})
      <3>1. Registered(r)' /\ room'[r].players = {} =>
               /\ Registered(r) /\ room[r].players = {}
               /\ room[r].onEmptyDue => room'[r].onEmptyDue
        BY <1>1, <2>1, <2>4 DEF Touches, Registered
      <3> QED BY <1>3, <2>2, <3>1
    <2> QED BY <2>3, <2>4
  <1>8. CASE EvictSchedule(p)
    <2>1. /\ Touches(x) /\ room'[x].players = room[x].players
          /\ status[x] # "shutdown" /\ ~room[x].keepOnEmpty => room'[x].onEmptyDue
      BY <1>1, <1>8, ScheduleOutcome
    <2>2. ~Creating(c, r) /\ (Scheduling(p, r) => r = x)
      BY <1>4, <1>8 DEF EvictSchedule, Scheduling
    <2> HIDE DEF x
    <2>3. CASE x = r
      <3>1. Registered(r)' => room'[r].onEmptyDue
        BY <1>1, <2>1, <2>3 DEF Registered, PlainRooms
      <3> QED BY <3>1 DEF Accounted
    <2>4. CASE x # r
      <3>1. Registered(r)' /\ room'[r].players = {} =>
               /\ Registered(r) /\ room[r].players = {}
               /\ room[r].onEmptyDue => room'[r].onEmptyDue
        BY <1>1, <2>1, <2>4 DEF Touches, Registered
      <3> QED BY <1>3, <2>2, <2>4, <3>1
    <2> QED BY <2>3, <2>4
  <1> QED BY <1>1, <1>5, <1>6, <1>7, <1>8

\* Every step of a connection accounts for every empty room.
LEMMA AccountedStep ==
    ASSUME HInv, NEW c \in Client, ConnectionStep(c), NEW r \in RoomID
    PROVE  Accounted(r)'
  <1> DEFINE p == HandleLoop[c]
             q == ReadLoop[c]
             h == handler[c].r
  <1>1. /\ Local(c) /\ Inv /\ Types /\ Phase(c) /\ p \in Caller /\ q \in Caller /\ p # q
        /\ handler[c].pc \notin {"joining", "leaving"} => call[p].pc = "idle"
    <2>1. call[p].pc \in Joins \cup Leaves \cup {"idle"}
      BY Loops DEF HInv, Inv, TypeOK, CallState, Joins, Leaves
    <2> QED BY <2>1, LocalStep, Loops DEF HInv, Phase
  <1> HIDE DEF p, q
  \* A step that leaves the rooms alone.
  <1>2. ASSUME room' = room, status' = status, Creating(c, r) => Creating(c, r)',
               \/ call' = call
               \/ \E o \in {p, q} : /\ call[o].pc = "idle"
                                    /\ \A z \in Caller : z # o => call'[z] = call[z]
        PROVE  Accounted(r)'
    <2>1. /\ Scheduling(p, r) => Scheduling(p, r)'
          /\ Scheduling(q, r) => Scheduling(q, r)'
      BY <1>1, <1>2 DEF Scheduling
    <2> QED BY <1>1, <1>2, <2>1, OwnAccountFrame DEF Registered, p, q
  <1>3. handler[c].pc \notin {"join", "unsub", "remove", "joining"} => ~Creating(c, r)
    BY DEF Creating
  <1>4. ASSUME NEW x \in RoomID, NEW md \in Modes, CreateRoom(c, x, md)
        PROVE  Accounted(r)'
    <2>1. /\ Take(c, Request("join", "create", x, NoRoom)) /\ handler[c].pc = "idle"
          /\ status' = [status EXCEPT ![x] = "registered"]
          /\ room' = room /\ call' = call
      BY <1>4 DEF CreateRoom, Create, Idle
    <2>2. handler'[c].pc = "join" /\ handler'[c].op = "create" /\ handler'[c].r = x
      <3>1. Request("join", "create", x, NoRoom) \in HandlerState
        BY RequestType
      <3> QED BY <1>1, <2>1, <3>1, RequestType, TakeLemma DEF Types
    <2>3. CASE x = r
      <3>1. Creating(c, r)'
        BY <2>2, <2>3 DEF Creating
      <3> QED BY <3>1 DEF Accounted
    <2>4. CASE x # r
      <3>1. Registered(r)' => Registered(r)
        BY <1>1, <2>1, <2>4 DEF Registered, Inv, TypeOK
      <3>2. /\ Scheduling(p, r) => Scheduling(p, r)'
            /\ Scheduling(q, r) => Scheduling(q, r)'
        BY <2>1 DEF Scheduling
      <3> QED BY <1>1, <1>3, <2>1, <3>1, <3>2, OwnAccountFrame DEF p, q
    <2> QED BY <2>3, <2>4
  <1>5. ASSUME \/ \E x \in RoomID : AskToJoin(c, x)
               \/ \E t \in Type : DispatchRoomMessage(c, t)
               \/ Removed(c) \/ HandleMessage(c) \/ Reply(c)
        PROVE  Accounted(r)'
    <2>1. /\ room' = room /\ status' = status /\ call' = call
          /\ handler[c].pc \in {"idle", "await", "handle", "reply"}
      BY <1>5 DEF AskToJoin, DispatchRoomMessage, Removed, HandleMessage, Reply, Idle, manager
    <2> QED BY <1>2, <1>3, <2>1
  <1>6. CASE Disconnect(c) \/ UnsubAll(c)
    <2>1. room' = room /\ status' = status /\ call' = call /\ handler' = handler
      BY <1>6 DEF Disconnect, UnsubAll, manager
    <2>2. Creating(c, r) => Creating(c, r)'
      BY <2>1 DEF Creating
    <2> QED BY <1>2, <2>1, <2>2
  <1>7. CASE JoinRefused(c)
    <2>1. /\ room' = room /\ status' = status /\ call' = call
          /\ handler[c].pc = "join" /\ Goto(c, "unsub")
      BY <1>7 DEF JoinRefused, manager
    <2>2. /\ handler'[c].pc = "unsub" /\ handler'[c].op = handler[c].op
          /\ handler'[c].r = handler[c].r
      BY <1>1, <2>1, GotoLemma DEF Types
    <2>3. Creating(c, r) => Creating(c, r)'
      BY <2>1, <2>2 DEF Creating
    <2> QED BY <1>2, <2>1, <2>3
  <1>8. CASE Unsub(c)
    <2>1. /\ room' = room /\ status' = status /\ call' = call /\ handler[c].pc = "unsub"
          /\ handler[c].op = "create" => Goto(c, "remove")
      BY <1>8 DEF Unsub, manager
    <2>2. handler[c].op = "create" =>
             /\ handler'[c].pc = "remove" /\ handler'[c].op = handler[c].op
             /\ handler'[c].r = handler[c].r
      BY <1>1, <2>1, GotoLemma DEF Types
    <2>3. Creating(c, r) => Creating(c, r)'
      BY <2>1, <2>2 DEF Creating
    <2> QED BY <1>2, <2>1, <2>3
  <1>9. CASE BeginJoin(c)
    <2>1. h \in RoomID /\ handler[c].pc = "join" /\ JoinRoom(p, h) /\ Goto(c, "joining")
      BY <1>1, <1>9 DEF BeginJoin, Phase, p
    <2>2. /\ room' = room /\ status' = status /\ call[p].pc = "idle"
          /\ call'[p].pc = "seat" /\ \A z \in Caller : z # p => call'[z] = call[z]
      BY <1>1, <2>1, CallBegins
    <2>3. /\ handler'[c].pc = "joining" /\ handler'[c].op = handler[c].op
          /\ handler'[c].r = handler[c].r
      BY <1>1, <2>1, GotoLemma DEF Types
    <2>4. Creating(c, r) => Creating(c, r)'
      BY <2>1, <2>2, <2>3 DEF Creating, p
    <2> QED BY <1>2, <2>2, <2>4
  <1>10. CASE JoinFails(c) \/ JoinReturns(c)
    <2>1. /\ room' = room /\ status' = status /\ handler[c].pc = "joining"
          /\ Rollback(p) \/ Info(p)
      BY <1>10 DEF JoinFails, JoinReturns, Rollback, Info, p
    <2>2. /\ call[p].pc \in {"rollback", "info"}
          /\ \A z \in Caller : z # p => call'[z] = call[z]
      BY <1>1, <2>1, CallSteps DEF CallGoes
    <2>3. ~Creating(c, r)
      BY <2>1, <2>2 DEF Creating, p
    <2>4. ~Scheduling(p, r) /\ (Scheduling(q, r) => Scheduling(q, r)')
      BY <1>1, <2>2 DEF Scheduling
    <2> QED BY <1>1, <2>1, <2>3, <2>4, OwnAccountFrame DEF Registered, p, q
  <1>11. CASE RemoveRoom(c)
    <2>1. /\ handler[c].pc = "remove" /\ room' = room /\ call' = call /\ h \in RoomID
          /\ IF Registered(h) THEN status' = [status EXCEPT ![h] = "unregistered"]
                              ELSE status' = status
      BY <1>1, <1>11 DEF RemoveRoom, Remove, manager, Phase
    <2>2. Registered(r)' => Registered(r) /\ r # h
      BY <1>1, <2>1 DEF Registered, Inv, TypeOK
    <2>3. CASE r = h
      BY <2>2, <2>3 DEF Accounted
    <2>4. CASE r # h
      <3>1. /\ ~Creating(c, r)
            /\ Scheduling(p, r) => Scheduling(p, r)'
            /\ Scheduling(q, r) => Scheduling(q, r)'
        BY <2>1, <2>4 DEF Creating, Scheduling
      <3> QED BY <1>1, <2>1, <2>2, <3>1, OwnAccountFrame DEF p, q
    <2> QED BY <2>3, <2>4
  <1>12. ASSUME NEW x \in RoomID, BeginLeave(c, x) PROVE Accounted(r)'
    <2>1. handler[c].pc = "idle" /\ (LeaveRoom(p, x) \/ UNCHANGED manager)
      BY <1>12 DEF BeginLeave, Idle, p
    <2>2. /\ room' = room /\ status' = status
          /\ \A z \in Caller : z # p => call'[z] = call[z]
      BY <1>1, <2>1, CallBegins DEF manager
    <2> QED BY <1>1, <1>2, <1>3, <2>1, <2>2
  <1>13. CASE LeaveNext(c)
    <2>1. PICK x \in RoomID : LeaveRoom(q, x) \/ UNCHANGED manager
      BY <1>1, <1>13 DEF LeaveNext, Types, ReaderState, q
    <2>2. /\ room' = room /\ status' = status /\ handler' = handler
          /\ \A z \in Caller : z # q => call'[z] = call[z]
      BY <1>1, <1>13, <2>1, CallBegins DEF manager, LeaveNext
    <2>3. call[q].pc = "idle"
      BY <1>13 DEF LeaveNext, q
    <2>4. Creating(c, r) => Creating(c, r)'
      BY <1>1, <2>2 DEF Creating, p
    <2> QED BY <1>2, <2>2, <2>3, <2>4
  <1>14. CASE LeaveStep(c)
    <2>1. handler[c].pc = "leaving" /\ (Leave(p) \/ Schedule(p))
      BY <1>14 DEF LeaveStep, p
    <2> QED BY <1>1, <2>1, LeaveAccounted DEF p
  <1>15. CASE DisconnectStep(c)
    <2>1. handler' = handler /\ (Leave(q) \/ Schedule(q))
      BY <1>15 DEF DisconnectStep, q
    <2> QED BY <1>1, <2>1, LeaveAccounted DEF q
  <1>16. CASE JoinStep(c)
    BY <1>1, <1>16, JoinAccounted
  <1> QED BY <1>4, <1>5, <1>6, <1>7, <1>8, <1>9, <1>10, <1>11, <1>12, <1>13, <1>14,
             <1>15, <1>16
          DEF ConnectionStep, HandlerStep, OnDisconnectStep

\* The removal of a room takes an empty room out of the map.
LEMMA RemovalAccounted ==
    ASSUME HInv, NEW x \in RoomID, RemovalStep(x), NEW r \in RoomID
    PROVE  Accounted(r)'
  <1>1. /\ Inv /\ Accounted(r) /\ call' = call /\ handler' = handler
        /\ room \in [RoomID -> RoomState]
    BY DEF HInv, Inv, TypeOK, RemovalStep, OnEmpty, Shutdown
  <1>2. Registered(r)' =>
           Registered(r) /\ (OnEmpty(x) => r # x) /\ room'[r] = room[r]
    BY <1>1 DEF RemovalStep, OnEmpty, Shutdown, Registered, Inv, TypeOK
  <1>3. /\ \A c \in Client : Creating(c, r) => Creating(c, r)'
        /\ \A p \in Caller : Scheduling(p, r) => Scheduling(p, r)'
    BY <1>1 DEF Creating, Scheduling
  <1> QED BY <1>1, <1>2, <1>3, AccountFrame

-----------------------------------------------------------------------------
(* The first invariant, and what follows from it.                          *)

\* HandlersNext, seen as steps of connections and removals.
LEMMA StepsOfNext ==
    ASSUME HandlersNext
    PROVE  \/ \E c \in Client : ConnectionStep(c)
           \/ \E r \in RoomID : RemovalStep(r)
  BY DEF HandlersNext, ConnectionStep

\* Nothing has happened in the beginning.
LEMMA HandlersInitInv == HandlersInit => HInv
  <1> SUFFICES ASSUME HandlersInit PROVE HInv
    OBVIOUS
  <1>1. Inv /\ CallsAreSound
    BY InitInv, SeatsInit DEF HandlersInit
  <1>2. Types
    <2>1. NoRequest \in HandlerState
      BY RequestType DEF NoRequest
    <2> QED BY <2>1 DEF HandlersInit, Types, ReaderState
  <1>3. \A p \in Caller : call[p].pc = "idle"
    BY DEF HandlersInit, Init, IdleCall
  <1>4. ASSUME NEW c \in Client PROVE Phase(c)
    <2>1. /\ handler[c].pc = "idle" /\ roomIDs[c] = {}
          /\ reader[c].todo = {}
      BY RequestType DEF HandlersInit, NoRequest
    <2> QED BY <1>3, <2>1, Loops DEF Phase, Joins, Leaves
  <1>5. PlainRooms /\ \A r \in RoomID : Accounted(r)
    BY DEF HandlersInit, Init, newRoom, RunHook, PlainRooms, Accounted, Registered
  <1> QED BY <1>1, <1>2, <1>3, <1>4, <1>5 DEF HInv, OnlyLoopsCall

\* Every step keeps the first invariant.
LEMMA HandlersNextInv ==
    ASSUME HInv, HandlersNext
    PROVE  HInv'
  <1>1. Next \/ UNCHANGED manager
    <2>1. ASSUME NEW c \in Client, ConnectionStep(c) PROVE Next \/ UNCHANGED manager
      BY <2>1, LocalStep DEF Local
    <2>2. ASSUME NEW r \in RoomID, RemovalStep(r) PROVE Next
      BY <2>2 DEF RemovalStep, Next
    <2> QED BY <2>1, <2>2, StepsOfNext
  <1>2. Inv'
    BY <1>1, NextInv DEF HInv, manager, vars
  <1>3. CallsAreSound'
    <2>1. CASE Next
      BY <2>1, CallsStep DEF HInv
    <2>2. CASE UNCHANGED manager
      BY <2>2 DEF HInv, manager, CallsAreSound, CallSound, Replaced, Mine
    <2> QED BY <1>1, <2>1, <2>2
  <1>4. PlainRooms'
    BY <1>1, PlainStep DEF HInv
  <1>5. \A x \in RoomID : status[x] # "none" => status'[x] # "none"
    BY <1>1, CreatedStays DEF HInv
  <1>6. ASSUME NEW d \in Client, handler'[d] = handler[d], reader'[d] = reader[d],
               roomIDs'[d] = roomIDs[d], call'[HandleLoop[d]] = call[HandleLoop[d]],
               call'[ReadLoop[d]] = call[ReadLoop[d]]
        PROVE  Phase(d)'
    <2>1. Phase(d) /\ roomIDs[d] \subseteq RoomID
      BY DEF HInv, Types
    <2>2. /\ \A r \in roomIDs[d] : status'[r] # "none"
          /\ handler[d].pc \notin {"idle", "reply"} =>
                handler[d].r \in RoomID /\ status'[handler[d].r] # "none"
      BY <1>5, <2>1 DEF Phase
    <2> QED BY <1>6, <2>1, <2>2 DEF Phase
  <1>7. Types' /\ (\A d \in Client : Phase(d)') /\ OnlyLoopsCall'
    <2>1. ASSUME NEW c \in Client, ConnectionStep(c)
          PROVE  Types' /\ (\A d \in Client : Phase(d)') /\ OnlyLoopsCall'
      <3>1. Local(c) /\ Types' /\ Phase(c)'
        BY <2>1, LocalStep
      <3>2. ASSUME NEW d \in Client, d # c PROVE Phase(d)'
        <4>1. /\ call'[HandleLoop[d]] = call[HandleLoop[d]]
              /\ call'[ReadLoop[d]] = call[ReadLoop[d]]
          BY <3>1, <3>2, Loops DEF Local
        <4> QED BY <1>6, <3>1, <3>2, <4>1 DEF Local
      <3>3. OnlyLoopsCall'
        BY <3>1 DEF Local, HInv, OnlyLoopsCall
      <3> QED BY <3>1, <3>2, <3>3
    <2>2. ASSUME NEW r \in RoomID, RemovalStep(r)
          PROVE  Types' /\ (\A d \in Client : Phase(d)') /\ OnlyLoopsCall'
      <3>1. UNCHANGED <<roomIDs, handler, reader, call>>
        BY <2>2 DEF RemovalStep, OnEmpty, Shutdown
      <3> QED BY <1>6, <3>1 DEF HInv, Types, OnlyLoopsCall
    <2> QED BY <2>1, <2>2, StepsOfNext
  <1>8. \A r \in RoomID : Accounted(r)'
    BY StepsOfNext, AccountedStep, RemovalAccounted
  <1> QED BY <1>2, <1>3, <1>4, <1>7, <1>8 DEF HInv

\* A step that changes nothing.
LEMMA HandlersStutter ==
    ASSUME HInv, UNCHANGED handlerVars
    PROVE  HInv'
  <1>1. UNCHANGED <<status, mode, room, userSessions, call, roomIDs, handler, reader>>
    BY DEF handlerVars, manager
  <1>2. Inv' /\ CallsAreSound'
    <2>1. Inv'
      BY <1>1, NextInv DEF HInv, vars
    <2> QED BY <1>1, <2>1 DEF HInv, CallsAreSound, CallSound, Replaced, Mine
  <1>3. Types' /\ OnlyLoopsCall' /\ PlainRooms' /\ \A c \in Client : Phase(c)'
    BY <1>1 DEF HInv, Types, OnlyLoopsCall, PlainRooms, Phase
  <1>4. \A r \in RoomID : Accounted(r)'
    BY <1>1 DEF HInv, Accounted, Registered, Creating, Scheduling
  <1> QED BY <1>2, <1>3, <1>4 DEF HInv

\* The first invariant holds in every reachable state.
THEOREM HandlersInvariance == HandlersSpec => []HInv
  <1>1. HInv /\ [HandlersNext]_handlerVars => HInv'
    BY HandlersNextInv, HandlersStutter
  <1> QED BY <1>1, HandlersInitInv, PTL DEF HandlersSpec

(***************************************************************************)
(* Handlers and OnDisconnect, of any number of connections, use the        *)
(* manager as its own specification allows: what is proved of the manager  *)
(* holds below them (handlers/room.go:28-98, dispatcher.go:143-161).       *)
(***************************************************************************)
THEOREM HandlersUseManager == HandlersSpec => Spec
  <1>1. HandlersInit => Init
    BY DEF HandlersInit
  <1>2. HInv /\ [HandlersNext]_handlerVars => [Next]_vars
    <2> SUFFICES ASSUME HInv, [HandlersNext]_handlerVars PROVE Next \/ UNCHANGED vars
      OBVIOUS
    <2>1. ASSUME NEW c \in Client, ConnectionStep(c) PROVE Next \/ UNCHANGED vars
      BY <2>1, LocalStep DEF Local, manager, vars
    <2>2. ASSUME NEW r \in RoomID, RemovalStep(r) PROVE Next
      BY <2>2 DEF RemovalStep, Next
    <2>3. CASE UNCHANGED handlerVars
      BY <2>3 DEF handlerVars, manager, vars
    <2> QED BY <2>1, <2>2, <2>3, StepsOfNext
  <1> QED BY <1>1, <1>2, HandlersInvariance, PTL DEF HandlersSpec, Spec

(***************************************************************************)
(* Type correctness of the connections; in particular a goroutine is in a  *)
(* call of the manager exactly when its handler waits for one, and the     *)
(* read loop is in one only during OnDisconnect.                           *)
(***************************************************************************)
THEOREM HandlersTypeCorrect == HandlersSpec => []HandlersTypeOK
  <1>1. HInv => HandlersTypeOK
    <2> SUFFICES ASSUME HInv PROVE HandlersTypeOK
      OBVIOUS
    <2>1. ASSUME NEW c \in Client
          PROVE  /\ call[HandleLoop[c]].pc # "idle" <=> handler[c].pc \in {"joining", "leaving"}
                 /\ call[ReadLoop[c]].pc # "idle" => reader[c].pc = "leave"
      <3>1. Phase(c) /\ call[HandleLoop[c]].pc \in Joins \cup Leaves \cup {"idle"}
        BY Loops DEF HInv, Inv, TypeOK, CallState, Joins, Leaves
      <3> QED BY <3>1 DEF Phase, Joins, Leaves
    <2> QED BY <2>1 DEF HInv, Types, HandlersTypeOK
  <1> QED BY <1>1, HandlersInvariance, PTL

(***************************************************************************)
(* No room leaks, for any number of connections, rooms and types and every *)
(* mix of modes: an empty room in the map is about to be removed, or the   *)
(* create that made it is not over (handlers/room.go:38-53).               *)
(***************************************************************************)
THEOREM RoomsDoNotLeak == HandlersSpec => []NoRoomLeaks
  <1>1. HInv => NoRoomLeaks
    BY DEF HInv, NoRoomLeaks, Accounted, Creating, Scheduling
  <1> QED BY <1>1, HandlersInvariance, PTL

-----------------------------------------------------------------------------
(* Seats are tracked.                                                      *)

\* A room gets into the map only when it is created.
LEMMA RegisteredStep ==
    ASSUME Inv, Next \/ UNCHANGED manager, NEW r \in RoomID, Registered(r)'
    PROVE  Registered(r) \/ status[r] = "none"
  <1>1. status \in [RoomID -> {"none", "registered", "unregistered", "shutdown"}]
    BY DEF Inv, TypeOK
  <1>2. CASE status' = status
    BY <1>2 DEF Registered
  <1>3. ASSUME NEW x \in RoomID, NEW md \in Modes, Create(x, md)
        PROVE  Registered(r) \/ status[r] = "none"
    BY <1>1, <1>3 DEF Create, Registered
  <1>4. ASSUME NEW x \in RoomID, Remove(x) \/ OnEmpty(x) \/ Shutdown(x)
        PROVE  Registered(r) \/ status[r] = "none"
    BY <1>1, <1>4 DEF Remove, OnEmpty, Shutdown, Registered
  <1>5. CASE ShutdownAll
    BY <1>1, <1>5 DEF ShutdownAll, Registered
  <1> QED BY <1>2, <1>3, <1>4, <1>5
          DEF Next, JoinRoom, LeaveRoom, Seat, FindOld, EvictOld, EvictSchedule,
              Rollback, Info, Leave, Schedule, manager

\* A client gets a seat only by a call of its own that succeeds.
LEMMA GainSeat ==
    ASSUME Inv, CallsAreSound, Next \/ UNCHANGED manager, NEW c \in Client,
           NEW r \in RoomID, SeatedIn(c, r)', ~SeatedIn(c, r)
    PROVE  \E p \in Caller : /\ Seat(p) /\ ClientOf[p] = c /\ call[p].r = r
                             /\ call'[p].pc # "rollback"
  <1>1. Registered(r) \/ status[r] = "none"
    BY RegisteredStep DEF SeatedIn
  <1>2. c \notin room[r].players
    BY <1>1 DEF SeatedIn, CallsAreSound
  <1>3. c \in room'[r].players
    BY DEF SeatedIn
  <1>4. Next
    BY <1>2, <1>3 DEF manager
  <1>5. PICK p \in Caller : \/ r = call[p].r /\ (Seat(p) \/ Leave(p))
                            \/ r = call[p].oldSess.room /\ EvictOld(p)
    BY <1>2, <1>3, <1>4, PlayersStep
  <1>6. ~(r = call[p].r /\ Leave(p))
    BY <1>2, <1>3, LeaveOutcome
  <1>7. ~(r = call[p].oldSess.room /\ EvictOld(p))
    BY <1>2, <1>3, EvictOutcome
  <1>8. Seat(p) /\ call[p].r = r
    BY <1>5, <1>6, <1>7
  <1>9. ClientOf[p] = c /\ call'[p].pc # "rollback"
    BY <1>2, <1>3, <1>8, SeatOutcome
  <1> QED BY <1>8, <1>9

\* In a type whose rooms all reject, a client loses its seat only by a call of
\* its own.
LEMMA LoseSeat ==
    ASSUME Inv, CallsAreSound, Next \/ UNCHANGED manager, NEW c \in Client,
           NEW r \in RoomID, status[r] # "none", OnlyRejects(TypeOf[r]),
           c \in room[r].players, c \notin room'[r].players
    PROVE  \E p \in Caller : Leave(p) /\ ClientOf[p] = c /\ call[p].r = r
  <1>1. Next
    BY DEF manager
  <1>2. PICK p \in Caller : \/ r = call[p].r /\ (Seat(p) \/ Leave(p))
                            \/ r = call[p].oldSess.room /\ EvictOld(p)
    BY <1>1, PlayersStep
  <1>3. ~(r = call[p].r /\ Seat(p))
    <2> SUFFICES ASSUME r = call[p].r, Seat(p) PROVE FALSE
      OBVIOUS
    <2>1. mode[r] = "Reject"
      BY DEF OnlyRejects
    <2>2. ~Replaced(p)
      BY <2>1 DEF CallsAreSound, CallSound, Seat
    <2> QED BY <2>2, SeatOutcome
  <1>4. ~(r = call[p].oldSess.room /\ EvictOld(p))
    <2> SUFFICES ASSUME r = call[p].oldSess.room, EvictOld(p) PROVE FALSE
      OBVIOUS
    <2>1. Replaced(p) /\ mode[call[p].r] # "Reject" /\ status[call[p].r] # "none"
      BY DEF CallsAreSound, CallSound, EvictOld
    <2>2. TypeOf[r] = TypeOf[call[p].r] /\ call[p].r \in RoomID
      BY <2>1 DEF CallsAreSound, CallSound, EvictOld, Replaced, Inv, TypeOK
    <2> QED BY <2>1, <2>2 DEF OnlyRejects
  <1>5. Leave(p) /\ call[p].r = r
    BY <1>2, <1>3, <1>4
  <1>6. ClientOf[p] = c
    BY <1>5, LeaveOutcome
  <1> QED BY <1>5, <1>6

\* A caller that acts for c is one of its two loops; only the handle loop joins.
LEMMA LoopsOfClient ==
    ASSUME HInv, NEW p \in Caller, NEW c \in Client, ClientOf[p] = c, call[p].pc # "idle"
    PROVE  /\ p = HandleLoop[c] \/ p = ReadLoop[c]
           /\ call[p].pc = "seat" => p = HandleLoop[c]
           /\ reader[c].pc # "leave" => p = HandleLoop[c]
  <1>1. PICK d \in Client : p = HandleLoop[d] \/ p = ReadLoop[d]
    BY DEF HInv, OnlyLoopsCall
  <1>2. d = c
    BY <1>1, Loops
  <1> QED BY <1>1, <1>2 DEF HInv, Phase

\* A connection whose handle loop is not taking a seat gains none.
LEMMA NoGain ==
    ASSUME HInv, NEW c \in Client, Next \/ UNCHANGED manager, NEW r \in RoomID,
           \/ call[HandleLoop[c]].pc # "seat"
           \/ call'[HandleLoop[c]] = call[HandleLoop[c]]
           \/ call'[HandleLoop[c]].pc = "rollback"
           \/ call[HandleLoop[c]].r # r,
           SeatedIn(c, r)'
    PROVE  SeatedIn(c, r)
  <1> SUFFICES ASSUME ~SeatedIn(c, r) PROVE FALSE
    OBVIOUS
  <1>1. PICK p \in Caller : /\ Seat(p) /\ ClientOf[p] = c /\ call[p].r = r
                            /\ call'[p].pc # "rollback"
    BY GainSeat DEF HInv
  <1>2. call[p].pc = "seat" /\ call'[p].pc # "seat"
    BY <1>1, CallSteps DEF HInv, CallGoes
  <1>3. p = HandleLoop[c]
    BY <1>1, <1>2, LoopsOfClient
  <1> QED BY <1>1, <1>2, <1>3

\* What a step must not do to keep Tracks(c).
LEMMA TracksFrame ==
    ASSUME NEW c \in Client, Tracks(c),
           \A r \in RoomID : SeatedIn(c, r)' =>
              SeatedIn(c, r) \/ (handler[c].pc = "joining" /\ r = handler[c].r),
           Seatless(c)' => ~SeatedIn(c, handler[c].r)',
           reader'[c].pc # "exited" =>
              /\ reader[c].pc # "exited"
              /\ handler'[c].pc \in {"join", "joining"} => handler'[c].r \in roomIDs'[c]
              /\ \A r \in RoomID : SeatedIn(c, r)' /\ r \in roomIDs[c] => r \in roomIDs'[c]
    PROVE  Tracks(c)'
  BY DEF Tracks

\* What others do takes no seat for c.
LEMMA TracksOther ==
    ASSUME HInv, NEW c \in Client, Next \/ UNCHANGED manager, Tracks(c),
           handler'[c] = handler[c], reader'[c] = reader[c], roomIDs'[c] = roomIDs[c],
           call'[HandleLoop[c]] = call[HandleLoop[c]]
    PROVE  Tracks(c)'
  <1>1. \A r \in RoomID : SeatedIn(c, r)' => SeatedIn(c, r)
    BY NoGain
  <1>2. Seatless(c)' => Seatless(c) /\ handler[c].r \in RoomID
    <2>1. Seatless(c)' => Seatless(c)
      BY DEF Seatless
    <2> QED BY <2>1 DEF Seatless, HInv, Phase
  <1>3. Seatless(c)' => ~SeatedIn(c, handler[c].r)'
    <2>1. PICK h : h = handler[c].r
      OBVIOUS
    <2>2. SeatedIn(c, handler[c].r)' <=> SeatedIn(c, h)'
      BY <2>1 DEF SeatedIn
    <2> QED BY <1>1, <1>2, <2>1, <2>2 DEF Tracks
  <1> QED BY <1>1, <1>3, TracksFrame DEF Tracks

\* A step of the handle loop outside JoinRoom and LeaveRoom.
LEMMA TracksRequest ==
    ASSUME HInv, ~Rejoins, NEW c \in Client, Local(c), Tracks(c),
           \/ \E r \in RoomID :
                 (\E md \in Modes : CreateRoom(c, r, md)) \/ AskToJoin(c, r)
           \/ \E t \in Type : DispatchRoomMessage(c, t)
           \/ HandleMessage(c) \/ Reply(c) \/ Unsub(c) \/ RemoveRoom(c) \/ Removed(c)
    PROVE  Tracks(c)'
  <1>1. /\ call' = call /\ reader' = reader /\ Types /\ Phase(c)
        /\ handler \in [Client -> HandlerState] /\ roomIDs \in [Client -> SUBSET RoomID]
    BY DEF HInv, Types, CreateRoom, Create, AskToJoin, DispatchRoomMessage, HandleMessage,
       Reply, Unsub, RemoveRoom, Remove, Removed, manager
  <1>2. \A r \in RoomID : SeatedIn(c, r)' => SeatedIn(c, r)
    BY <1>1, NoGain DEF Local
  <1>3. ASSUME NEW r \in RoomID, NEW op, Take(c, Request("join", op, r, NoRoom)),
               op \in {"create", "join"}, Subscribe(c, r), ~SeatedIn(c, r)
        PROVE  Tracks(c)'
    <2>1. handler'[c].pc = "join" /\ handler'[c].r = r
      <3>1. Request("join", op, r, NoRoom) \in HandlerState
        BY <1>3, RequestType
      <3> QED BY <1>1, <1>3, <3>1, RequestType, TakeLemma
    <2>2. roomIDs'[c] = roomIDs[c] \cup {r}
      BY <1>1, <1>3 DEF Subscribe
    <2>3. ~SeatedIn(c, handler[c].r)'
      <3>1. ~SeatedIn(c, r)'
        BY <1>2, <1>3
      <3> QED BY <2>1, <3>1 DEF SeatedIn
    <2> QED BY <1>1, <1>2, <2>1, <2>2, <2>3, TracksFrame
  <1>4. ASSUME NEW r \in RoomID, NEW md \in Modes, CreateRoom(c, r, md)
        PROVE  Tracks(c)'
    <2>1. ~SeatedIn(c, r)
      BY <1>4 DEF CreateRoom, Create, SeatedIn, Registered
    <2> QED BY <1>3, <1>4, <2>1 DEF CreateRoom
  <1>5. ASSUME NEW r \in RoomID, AskToJoin(c, r)
        PROVE  Tracks(c)'
    <2>1. ~SeatedIn(c, r)
      BY <1>5 DEF AskToJoin, SeatedIn
    <2> QED BY <1>3, <1>5, <2>1 DEF AskToJoin
  \* The handler goes where it is not about to take a seat.
  <1>6. ASSUME handler'[c].pc \in {"idle", "handle", "reply", "remove", "await"},
               roomIDs'[c] = roomIDs[c] \/ Unsub(c)
        PROVE  Tracks(c)'
    <2>1. ~Seatless(c)'
      BY <1>6 DEF Seatless
    <2>2. ASSUME NEW r \in RoomID, SeatedIn(c, r), r \in roomIDs[c] PROVE r \in roomIDs'[c]
      <3>1. CASE Unsub(c)
        <4>1. /\ roomIDs'[c] = roomIDs[c] \ {handler[c].r} /\ handler[c].pc = "unsub"
          BY <1>1, <3>1 DEF Unsub
        <4>2. r # handler[c].r
          BY <2>2, <4>1 DEF Tracks, Seatless
        <4> QED BY <2>2, <4>1, <4>2
      <3> QED BY <1>6, <2>2, <3>1
    <2> QED BY <1>1, <1>2, <1>6, <2>1, <2>2, TracksFrame
  <1>7. CASE Unsub(c) \/ RemoveRoom(c) \/ Removed(c) \/ Reply(c)
    <2>1. Finish(c) \/ Goto(c, "remove") \/ Goto(c, "await")
      BY <1>7 DEF Unsub, RemoveRoom, Removed, Reply
    <2>2. handler'[c].pc \in {"idle", "remove", "await"}
      BY <1>1, <2>1, GotoLemma, FinishLemma
    <2>3. roomIDs'[c] = roomIDs[c] \/ Unsub(c)
      BY <1>7 DEF RemoveRoom, Removed, Reply
    <2> QED BY <1>6, <2>2, <2>3
  <1>8. ASSUME HandleMessage(c) \/ \E t \in Type : DispatchRoomMessage(c, t)
        PROVE  Tracks(c)'
    <2>1. handler'[c].pc \in {"handle", "reply"}
      <3>1. CASE HandleMessage(c)
        BY <1>1, <3>1 DEF HandleMessage, Take, HandlerState
      <3>2. ASSUME NEW t \in Type, DispatchRoomMessage(c, t)
            PROVE  handler'[c].pc \in {"handle", "reply"}
        BY <1>1, <3>2 DEF DispatchRoomMessage, Take, Request
      <3> QED BY <1>8, <3>1, <3>2
    <2>2. roomIDs' = roomIDs
      BY <1>8 DEF HandleMessage, DispatchRoomMessage
    <2> QED BY <1>6, <2>1, <2>2
  <1> QED BY <1>4, <1>5, <1>7, <1>8

\* JoinRoom and LeaveRoom: a seat is taken in a room whose topic is there, and
\* is given up, or was not taken, when the topic is about to go.
LEMMA TracksCall ==
    ASSUME HInv, NEW c \in Client, Local(c), Tracks(c),
           \/ BeginJoin(c) \/ JoinRefused(c) \/ JoinStep(c) \/ JoinFails(c)
           \/ JoinReturns(c) \/ LeaveStep(c) \/ \E r \in RoomID : BeginLeave(c, r)
    PROVE  Tracks(c)'
  <1> DEFINE p == HandleLoop[c]
  <1>0. PICK h : h = handler[c].r
    OBVIOUS
  <1>1. /\ h = handler[c].r /\ reader' = reader /\ roomIDs' = roomIDs
        /\ Types /\ Phase(c) /\ Inv
        /\ handler \in [Client -> HandlerState] /\ p \in Caller /\ ClientOf[p] = c
        /\ Next \/ UNCHANGED manager
    BY <1>0, Loops DEF HInv, Types, Local, BeginJoin, JoinRefused, JoinStep, JoinFails,
       JoinReturns, LeaveStep, BeginLeave
  <1>2. ASSUME NEW r \in RoomID, call[p].pc # "seat" \/ call'[p].pc = "rollback" \/ call[p].r # r,
               SeatedIn(c, r)'
        PROVE  SeatedIn(c, r)
    BY <1>1, <1>2, NoGain
  <1> HIDE DEF p
  \* What is left to show of each step.
  <1>3. ASSUME handler'[c].r = h,
               handler[c].pc # "join" => handler'[c].pc # "joining" \/ handler[c].pc = "joining",
               handler'[c].pc # "join",
               call[p].pc # "seat" \/ call'[p].pc = "rollback" \/ handler[c].pc = "joining",
               Seatless(c)' => ~SeatedIn(c, h)'
        PROVE  Tracks(c)'
    <2>1. handler[c].pc = "joining" => call[p].r = h
      BY <1>1 DEF Phase, p
    <2>2. ASSUME NEW r \in RoomID, SeatedIn(c, r)'
          PROVE  SeatedIn(c, r) \/ (handler[c].pc = "joining" /\ r = h)
      BY <1>2, <1>3, <2>1, <2>2
    <2>3. Seatless(c)' => ~SeatedIn(c, handler[c].r)'
      BY <1>3 DEF SeatedIn
    <2> QED BY <1>1, <1>3, <2>2, <2>3, TracksFrame DEF Tracks
  <1>4. CASE BeginJoin(c)
    <2>1. handler[c].pc = "join" /\ h \in RoomID /\ JoinRoom(p, h) /\ Goto(c, "joining")
      BY <1>1, <1>4 DEF BeginJoin, Phase, p
    <2>2. handler'[c].r = h /\ handler'[c].pc = "joining"
      BY <1>1, <2>1, GotoLemma
    <2>3. call[p].pc = "idle"
      BY <1>1, <2>1, CallBegins
    <2>4. ~SeatedIn(c, h)'
      BY <1>1, <1>2, <2>1, <2>3 DEF Tracks, Seatless
    <2> QED BY <1>3, <2>1, <2>2, <2>3, <2>4
  <1>5. CASE JoinRefused(c)
    <2>1. handler[c].pc = "join" /\ h \in RoomID /\ call' = call /\ Goto(c, "unsub")
      BY <1>1, <1>5 DEF JoinRefused, Phase, manager
    <2>2. handler'[c].r = h /\ handler'[c].pc = "unsub"
      BY <1>1, <2>1, GotoLemma
    <2>3. call[p].pc # "seat"
      BY <1>1, <2>1 DEF Phase, Joins, p
    <2>4. ~SeatedIn(c, h)'
      BY <1>1, <1>2, <2>1, <2>3 DEF Tracks, Seatless
    <2> QED BY <1>3, <2>1, <2>2, <2>3, <2>4
  <1>6. CASE JoinStep(c)
    <2>1. /\ handler[c].pc = "joining" /\ h \in RoomID /\ handler' = handler
          /\ Seat(p) \/ FindOld(p) \/ EvictOld(p) \/ EvictSchedule(p)
      BY <1>1, <1>6 DEF JoinStep, Phase, p
    <2>2. /\ call'[p].pc # "seat"
          /\ call'[p].pc = "rollback" => call[p].pc = "seat"
      BY <1>1, <2>1, CallSteps DEF CallGoes
    <2>3. Seatless(c)' => call'[p].pc = "rollback"
      BY <2>1, <2>2 DEF Seatless, p
    <2>4. Seatless(c)' => ~SeatedIn(c, h)'
      <3> SUFFICES ASSUME call'[p].pc = "rollback" PROVE ~SeatedIn(c, h)'
        BY <2>3
      <3>1. ~SeatedIn(c, h)
        BY <1>1, <2>1, <2>2 DEF Tracks, Seatless, p
      <3> QED BY <1>2, <2>1, <3>1
    <2> QED BY <1>1, <1>3, <2>1, <2>4
  <1>7. CASE JoinFails(c)
    <2>1. handler[c].pc = "joining" /\ h \in RoomID /\ Rollback(p) /\ Goto(c, "unsub")
      BY <1>1, <1>7 DEF JoinFails, Phase, p
    <2>2. call[p].pc = "rollback" /\ call'[p].pc = "idle"
      BY <1>1, <2>1, CallSteps DEF CallGoes
    <2>3. handler'[c].r = h /\ handler'[c].pc = "unsub"
      BY <1>1, <2>1, GotoLemma
    <2>4. ~SeatedIn(c, h)
      BY <1>1, <2>1, <2>2 DEF Tracks, Seatless, p
    <2>5. ~SeatedIn(c, h)'
      BY <1>2, <2>1, <2>2, <2>4
    <2> QED BY <1>3, <2>1, <2>3, <2>5
  <1>8. CASE JoinReturns(c)
    <2>1. /\ handler[c].pc = "joining" /\ h \in RoomID /\ Info(p)
          /\ IF status[h] = "shutdown" THEN Goto(c, "unsub") ELSE Finish(c)
      BY <1>1, <1>8 DEF JoinReturns, Phase, p
    <2>2. call[p].pc = "info" /\ status' = status
      BY <1>1, <2>1 DEF Info
    <2>3. \A r \in RoomID : SeatedIn(c, r)' => SeatedIn(c, r)
      BY <1>2, <2>2
    <2>4. CASE status[h] = "shutdown"
      <3>1. handler'[c].r = h /\ handler'[c].pc = "unsub"
        BY <1>1, <2>1, <2>4, GotoLemma
      <3>2. ~SeatedIn(c, h)'
        BY <2>2, <2>4 DEF SeatedIn, Registered
      <3> QED BY <1>3, <2>1, <3>1, <3>2
    <2>5. CASE status[h] # "shutdown"
      <3>1. handler'[c].pc = "idle"
        BY <1>1, <2>1, <2>5, FinishLemma
      <3>2. ~Seatless(c)'
        BY <3>1 DEF Seatless
      <3> QED BY <1>1, <2>3, <3>1, <3>2, TracksFrame
    <2> QED BY <2>4, <2>5
  <1>9. CASE LeaveStep(c)
    <2>1. /\ handler[c].pc = "leaving" /\ h \in RoomID /\ call[p].r = h
          /\ Leave(p) \/ Schedule(p)
          /\ IF call'[p].pc = "idle" THEN Goto(c, "unsub") ELSE handler' = handler
      BY <1>1, <1>9 DEF LeaveStep, Phase, p
    <2>2. handler'[c].r = h /\ handler'[c].pc \in {"unsub", "leaving"}
      BY <1>1, <2>1, GotoLemma
    <2>3. call[p].pc \in {"leave", "schedule"}
      BY <1>1, <2>1, CallSteps DEF CallGoes
    <2>4. ~SeatedIn(c, h)'
      <3>1. CASE Leave(p)
        <4>1. /\ room'[h].players = IF status[h] = "shutdown" THEN room[h].players
                                    ELSE room[h].players \ {c}
              /\ status' = status
          BY <1>1, <2>1, <3>1, LeaveOutcome DEF Leave
        <4> QED BY <4>1 DEF SeatedIn, Registered
      <3>2. CASE Schedule(p)
        <4>1. call[p].pc = "schedule"
          BY <3>2 DEF Schedule
        <4>2. ~SeatedIn(c, h)
          BY <1>1, <2>1, <4>1 DEF Tracks, Seatless, p
        <4> QED BY <1>2, <2>1, <2>3, <4>2
      <3> QED BY <2>1, <3>1, <3>2
    <2> QED BY <1>3, <2>1, <2>2, <2>3, <2>4
  <1>10. ASSUME NEW r \in RoomID, BeginLeave(c, r) PROVE Tracks(c)'
    <2>1. /\ handler[c].pc = "idle" /\ call[p].pc \notin Joins
          /\ IF Registered(r)
               THEN /\ LeaveRoom(p, r)
                    /\ Take(c, Request("leaving", "leave", r, NoRoom))
               ELSE /\ UNCHANGED manager
                    /\ Take(c, Request("unsub", "leave", r, NoRoom))
      BY <1>1, <1>10 DEF BeginLeave, Idle, Phase, p
    <2>2. \A x \in RoomID : SeatedIn(c, x)' => SeatedIn(c, x)
      BY <1>2, <2>1 DEF Joins
    <2>3. CASE Registered(r)
      <3>1. handler'[c].pc = "leaving"
        <4>1. Request("leaving", "leave", r, NoRoom) \in HandlerState
          BY RequestType
        <4> QED BY <1>1, <2>1, <2>3, <4>1, RequestType, TakeLemma
      <3>2. call'[p].pc = "leave"
        BY <1>1, <2>1, <2>3, CallBegins
      <3>3. ~Seatless(c)'
        BY <3>1, <3>2 DEF Seatless, p
      <3> QED BY <1>1, <2>2, <3>1, <3>3, TracksFrame
    <2>4. CASE ~Registered(r)
      <3>1. handler'[c].pc = "unsub" /\ handler'[c].r = r
        <4>1. Request("unsub", "leave", r, NoRoom) \in HandlerState
          BY RequestType
        <4> QED BY <1>1, <2>1, <2>4, <4>1, RequestType, TakeLemma
      <3>2. ~SeatedIn(c, handler[c].r)'
        BY <2>1, <2>4, <3>1 DEF SeatedIn, Registered, manager
      <3> QED BY <1>1, <2>2, <3>1, <3>2, TracksFrame
    <2> QED BY <2>3, <2>4
  <1> QED BY <1>4, <1>5, <1>6, <1>7, <1>8, <1>9, <1>10

\* OnDisconnect drops topics only when the connection is over.
LEMMA TracksReader ==
    ASSUME HInv, NEW c \in Client, Local(c), Tracks(c), Disconnect(c) \/ OnDisconnectStep(c)
    PROVE  Tracks(c)'
  <1>1. /\ handler' = handler /\ Types /\ Phase(c) /\ Inv
        /\ reader \in [Client -> ReaderState]
        /\ HandleLoop[c] \in Caller /\ ReadLoop[c] \in Caller
        /\ HandleLoop[c] # ReadLoop[c]
    BY Loops DEF HInv, Types, Disconnect, OnDisconnectStep, LeaveNext, DisconnectStep, UnsubAll
  <1>2. call'[HandleLoop[c]] = call[HandleLoop[c]]
    <2>1. CASE Disconnect(c) \/ UnsubAll(c)
      BY <2>1 DEF Disconnect, UnsubAll, manager
    <2>2. CASE LeaveNext(c)
      <3>1. PICK x \in RoomID : LeaveRoom(ReadLoop[c], x) \/ UNCHANGED manager
        BY <1>1, <2>2 DEF LeaveNext, ReaderState
      <3> QED BY <1>1, <3>1, CallBegins DEF manager
    <2>3. CASE DisconnectStep(c)
      BY <1>1, <2>3, CallSteps DEF DisconnectStep, CallGoes
    <2> QED BY <2>1, <2>2, <2>3 DEF OnDisconnectStep
  <1>3. \A r \in RoomID : SeatedIn(c, r)' => SeatedIn(c, r)
    BY <1>2, NoGain DEF Local
  <1>4. Seatless(c)' => ~SeatedIn(c, handler[c].r)'
    <2> SUFFICES ASSUME Seatless(c)' PROVE ~SeatedIn(c, handler[c].r)'
      OBVIOUS
    <2>1. PICK h : h = handler[c].r
      OBVIOUS
    <2>2. Seatless(c)
      BY <1>1, <1>2 DEF Seatless
    <2>3. h \in RoomID /\ ~SeatedIn(c, h)
      BY <1>1, <2>1, <2>2 DEF Seatless, Phase, Tracks
    <2> QED BY <1>1, <1>3, <2>1, <2>3 DEF SeatedIn
  <1>5. reader'[c].pc # "exited" => reader[c].pc # "exited" /\ roomIDs'[c] = roomIDs[c]
    <2>1. CASE Disconnect(c)
      BY <2>1 DEF Disconnect
    <2>2. CASE LeaveNext(c)
      <3>1. reader'[c].pc = reader[c].pc
        BY <1>1, <2>2 DEF LeaveNext, ReaderState
      <3> QED BY <2>2, <3>1 DEF LeaveNext
    <2>3. CASE DisconnectStep(c)
      BY <2>3 DEF DisconnectStep
    <2>4. CASE UnsubAll(c)
      BY <1>1, <2>4 DEF UnsubAll, ReaderState
    <2> QED BY <2>1, <2>2, <2>3, <2>4 DEF OnDisconnectStep
  <1> QED BY <1>1, <1>3, <1>4, <1>5, TracksFrame DEF Tracks

\* Every step keeps what a connection tracks.
LEMMA TracksStep ==
    ASSUME HInv, ~Rejoins, HandlersNext, NEW c \in Client, Tracks(c)
    PROVE  Tracks(c)'
  <1>1. ASSUME NEW d \in Client, ConnectionStep(d) PROVE Tracks(c)'
    <2>1. Local(d)
      BY <1>1, LocalStep
    <2>2. CASE d = c
      BY <1>1, <2>1, <2>2, TracksRequest, TracksCall, TracksReader
         DEF ConnectionStep, HandlerStep
    <2>3. CASE d # c
      <3>1. call'[HandleLoop[c]] = call[HandleLoop[c]]
        BY <2>1, <2>3, Loops DEF Local
      <3> QED BY <2>1, <2>3, <3>1, TracksOther DEF Local
    <2> QED BY <2>2, <2>3
  <1>2. ASSUME NEW r \in RoomID, RemovalStep(r) PROVE Tracks(c)'
    <2>1. /\ Next /\ handler' = handler /\ reader' = reader /\ roomIDs' = roomIDs
          /\ call' = call
      BY <1>2 DEF RemovalStep, Next, OnEmpty, Shutdown
    <2> QED BY <2>1, TracksOther
  <1> QED BY <1>1, <1>2, StepsOfNext

(***************************************************************************)
(* For any number of connections, rooms and types: a connection between    *)
(* two requests tracks every room that seats its client, so OnDisconnect   *)
(* leaves them all (handlers/room.go:47-52, 70-74, 91-92), if no client    *)
(* asks for a seat it has.                                                 *)
(***************************************************************************)
THEOREM SeatsTracked ==
    ASSUME ~Rejoins
    PROVE  HandlersSpec => []SeatsAreTracked
  <1> DEFINE AllTrack == \A c \in Client : Tracks(c)
             J == HInv /\ AllTrack
  <1>1. HandlersInit => J
    <2> SUFFICES ASSUME HandlersInit PROVE AllTrack
      BY HandlersInitInv
    <2>1. \A c \in Client : handler[c].pc = "idle"
      BY RequestType DEF HandlersInit, NoRequest
    <2>2. \A r \in RoomID : status[r] = "none"
      BY DEF HandlersInit, Init
    <2> QED BY <2>1, <2>2 DEF Tracks, Seatless, SeatedIn, Registered
  <1>2. J /\ [HandlersNext]_handlerVars => J'
    <2> SUFFICES ASSUME J, [HandlersNext]_handlerVars PROVE J'
      OBVIOUS
    <2>1. HInv'
      BY HandlersNextInv, HandlersStutter
    <2>2. CASE HandlersNext
      BY <2>1, <2>2, TracksStep
    <2>3. CASE UNCHANGED handlerVars
      <3>1. AllTrack'
        BY <2>3, TracksOther DEF handlerVars, manager
      <3> QED BY <2>1, <3>1
    <2> QED BY <2>2, <2>3
  <1>3. J => SeatsAreTracked
    BY DEF SeatsAreTracked, Tracks, SeatedIn, Idle
  <1> HIDE DEF J
  <1> QED BY <1>1, <1>2, <1>3, PTL DEF HandlersSpec

-----------------------------------------------------------------------------
(* Players are heard.                                                      *)

\* An open connection has one call in flight at most.
LEMMA RecordsStay ==
    ASSUME HInv, HInv', ~Rejoins, Next \/ UNCHANGED manager, NEW c \in Client,
           reader[c].pc = "read", reader'[c].pc = "read", SeatRecords(c)
    PROVE  SeatRecords(c)'
  <1>1. OneCall(c)
    <2>1. ASSUME NEW p \in Caller, ClientOf[p] = c, call[p].pc # "idle"
          PROVE  p = HandleLoop[c]
      BY <2>1, LoopsOfClient
    <2> QED BY <2>1 DEF OneCall
  <1>2. OneCall(c)'
    <2>1. ASSUME NEW p \in Caller, ClientOf[p] = c, call'[p].pc # "idle"
          PROVE  p = HandleLoop[c]
      <3>1. PICK d \in Client : p = HandleLoop[d] \/ p = ReadLoop[d]
        BY <2>1 DEF HInv, OnlyLoopsCall
      <3>2. d = c
        BY <2>1, <3>1, Loops
      <3>3. call'[ReadLoop[c]].pc = "idle"
        BY DEF HInv, Phase
      <3> QED BY <2>1, <3>1, <3>2, <3>3
    <2> QED BY <2>1 DEF OneCall
  <1>3. CASE Next
    BY <1>1, <1>2, <1>3, SeatRecordsStep DEF HInv
  <1>4. CASE UNCHANGED manager
    BY <1>4 DEF manager, SeatRecords, SeatRecord, OnlyRejects, Registered, Joining,
       Leaving, CallAt, RecordOf, SeatIn
  <1> QED BY <1>3, <1>4

\* A type whose rooms all reject did so before the step.
LEMMA RejectsStep ==
    ASSUME Inv, Next \/ UNCHANGED manager, NEW r \in RoomID, OnlyRejects(TypeOf[r])'
    PROVE  OnlyRejects(TypeOf[r])
  <1>1. CASE Next
    BY <1>1, StatusStep, TypeOfAssumption
  <1>2. CASE UNCHANGED manager
    BY <1>2 DEF manager, OnlyRejects
  <1> QED BY <1>1, <1>2

\* What a step must do for a connection that tracks no room but its client's.
LEMMA PlacedFrame ==
    ASSUME HInv, NEW c \in Client, Next \/ UNCHANGED manager, reader[c].pc = "read",
           Placed(c), roomIDs'[c] \subseteq RoomID,
           \A r \in roomIDs'[c] :
              /\ r \in roomIDs[c] \/ Moving(c, r)'
              /\ Moving(c, r) => Moving(c, r)' \/ (Registered(r)' => c \in room'[r].players)
              /\ Leave(HandleLoop[c]) /\ call[HandleLoop[c]].r = r => Moving(c, r)'
    PROVE  Placed(c)'
  <1> SUFFICES ASSUME NEW r \in roomIDs'[c], Registered(r)', OnlyRejects(TypeOf[r])',
                      ~Moving(c, r)'
               PROVE  c \in room'[r].players
    BY DEF Placed
  <1>1. r \in RoomID /\ r \in roomIDs[c] /\ status[r] # "none" /\ OnlyRejects(TypeOf[r])
    BY RejectsStep DEF HInv, Phase
  <1>2. Registered(r)
    BY <1>1, RegisteredStep DEF HInv
  <1>3. CASE Moving(c, r)
    BY <1>3
  <1>4. CASE c \in room[r].players
    <2> SUFFICES ASSUME c \notin room'[r].players PROVE FALSE
      OBVIOUS
    <2>1. PICK p \in Caller : Leave(p) /\ ClientOf[p] = c /\ call[p].r = r
      BY <1>1, <1>4, LoseSeat DEF HInv
    <2>2. p = HandleLoop[c]
      BY <2>1, LoopsOfClient DEF Leave
    <2> QED BY <2>1, <2>2
  <1> QED BY <1>1, <1>2, <1>3, <1>4 DEF Placed

\* What others do neither moves c nor answers it.
LEMMA HearsOther ==
    ASSUME HInv, HInv', ~Rejoins, NEW c \in Client, Next \/ UNCHANGED manager, Hears(c),
           handler'[c] = handler[c], reader'[c] = reader[c], roomIDs'[c] = roomIDs[c],
           call'[HandleLoop[c]] = call[HandleLoop[c]]
    PROVE  Hears(c)'
  <1> SUFFICES ASSUME reader[c].pc = "read", SeatRecords(c), Placed(c), Heard(c)
               PROVE  SeatRecords(c)' /\ Placed(c)' /\ Heard(c)'
    BY DEF Hears
  <1>1. SeatRecords(c)'
    BY RecordsStay
  <1>2. Placed(c)'
    <2>1. \A r : Moving(c, r)' <=> Moving(c, r)
      BY DEF Moving
    <2>2. ~Leave(HandleLoop[c])
      BY Loops, CallSteps DEF HInv, CallGoes
    <2>3. roomIDs[c] \subseteq RoomID
      BY DEF HInv, Types
    <2> QED BY <2>1, <2>2, <2>3, PlacedFrame
  <1>3. Heard(c)'
    <2>1. ASSUME NEW r \in RoomID, SeatedIn(c, r)', OnlyRejects(TypeOf[r])'
          PROVE  SeatedIn(c, r) /\ OnlyRejects(TypeOf[r])
      BY <2>1, NoGain, RejectsStep DEF HInv
    <2> QED BY <2>1 DEF Heard
  <1> QED BY <1>1, <1>2, <1>3

\* A message of a seated client finds its room, and no other.
LEMMA DispatchFinds ==
    ASSUME HInv, NEW c \in Client, Tracks(c), SeatRecords(c), Placed(c), Idle(c),
           NEW r \in RoomID, SeatedIn(c, r), OnlyRejects(TypeOf[r])
    PROVE  Matches(c, TypeOf[r]) = {r}
  <1>1. r \in Matches(c, TypeOf[r])
    BY DEF Tracks, Idle, SeatedIn, Matches
  <1>2. ASSUME NEW x \in roomIDs[c], Registered(x), TypeOf[x] = TypeOf[r] PROVE x = r
    <2>1. x \in RoomID
      BY DEF HInv, Types
    <2>2. ~Moving(c, x)
      BY DEF Idle, Moving
    <2>3. c \in room[x].players
      BY <1>2, <2>2 DEF Placed
    <2>4. ASSUME NEW y \in RoomID PROVE ~Joining(c, y) /\ ~Leaving(c, y)
      <3>1. ASSUME NEW p \in Caller, ClientOf[p] = c PROVE call[p].pc = "idle"
        <4> SUFFICES ASSUME call[p].pc # "idle" PROVE FALSE
          OBVIOUS
        <4>1. p = HandleLoop[c]
          BY <3>1, LoopsOfClient DEF Idle
        <4>2. call[p].pc \in Joins \cup Leaves
          BY DEF HInv, Inv, TypeOK, CallState, Joins, Leaves
        <4> QED BY <4>1, <4>2 DEF HInv, Phase, Idle
      <3> QED BY <3>1 DEF Joining, Leaving, CallAt
    <2>5. RecordOf(c, x) = SeatIn(c, x) /\ RecordOf(c, r) = SeatIn(c, r)
      BY <1>2, <2>1, <2>3, <2>4 DEF SeatRecords, SeatRecord, SeatedIn
    <2>6. RecordOf(c, x) = RecordOf(c, r) /\ SeatIn(c, x).room = x /\ SeatIn(c, r).room = r
      BY <1>2 DEF RecordOf, SeatIn
    <2> QED BY <2>5, <2>6
  <1> QED BY <1>1, <1>2 DEF Matches

\* Messages.
LEMMA HearsMessage ==
    ASSUME HInv, NEW c \in Client, Tracks(c), reader[c].pc = "read",
           SeatRecords(c), Placed(c), Heard(c),
           HandleMessage(c) \/ Reply(c) \/ \E t \in Type : DispatchRoomMessage(c, t)
    PROVE  Heard(c)'
  <1>1. /\ status' = status /\ room' = room /\ mode' = mode /\ Types
        /\ handler \in [Client -> HandlerState]
    BY DEF HInv, Types, HandleMessage, Reply, DispatchRoomMessage, manager
  <1>2. ASSUME NEW r \in RoomID
        PROVE  /\ SeatedIn(c, r)' => SeatedIn(c, r)
               /\ OnlyRejects(TypeOf[r])' => OnlyRejects(TypeOf[r])
    BY <1>1 DEF SeatedIn, Registered, OnlyRejects
  <1>3. CASE Reply(c)
    <2>1. handler'[c].pc = "idle"
      BY <1>1, <1>3, FinishLemma DEF Reply
    <2> QED BY <2>1 DEF Heard
  <1>4. CASE HandleMessage(c)
    <2> DEFINE h == handler[c].r
               e == IF status[h] = "shutdown" THEN "closed"
                    ELSE HandleMessageFn(config, room[h], c, "return").err
    <2>1. handler[c].pc = "handle" /\ Take(c, [handler[c] EXCEPT !.pc = "reply", !.err = e])
      BY <1>4 DEF HandleMessage
    <2>2. SeatedIn(c, h) => e = "nil"
      BY DEF SeatedIn, Registered, HandleMessageFn, Result
    <2> HIDE DEF e
    <2>3. handler'[c].typ = handler[c].typ /\ handler'[c].r = handler[c].r /\ handler'[c].err = e
      BY <1>1, <2>1 DEF Take, HandlerState
    <2> QED BY <1>2, <2>1, <2>2, <2>3 DEF Heard
  <1>5. ASSUME NEW t \in Type, DispatchRoomMessage(c, t) PROVE Heard(c)'
    <2> DEFINE req == Request("reply", "message", NoRoom, t)
    <2>1. req \in HandlerState /\ req.typ = t
      BY RequestType
    <2> SUFFICES ASSUME NEW r \in RoomID, SeatedIn(c, r)', TypeOf[r] = handler'[c].typ,
                        OnlyRejects(TypeOf[r])'
                 PROVE  handler'[c].r = r /\ handler'[c].pc = "handle"
      BY DEF Heard
    <2>2. Idle(c)
      BY <1>5 DEF DispatchRoomMessage
    <2>3. Matches(c, TypeOf[r]) = {r}
      BY <1>2, <2>2, DispatchFinds
    <2>4. \/ Matches(c, t) = {} /\ Take(c, [req EXCEPT !.err = "notInRoom"])
          \/ \E x \in RoomID : /\ Matches(c, t) = {x}
                               /\ Take(c, [req EXCEPT !.pc = "handle", !.r = x])
          \/ Cardinality(Matches(c, t)) > 1 /\ Take(c, [req EXCEPT !.err = "ambiguous"])
      BY <1>5 DEF DispatchRoomMessage
    <2> HIDE DEF req
    <2>5. handler'[c].typ = t
      <3>1. ASSUME NEW q, Take(c, q), q.typ = t PROVE handler'[c].typ = t
        BY <1>1, <3>1 DEF Take
      <3>2. /\ [req EXCEPT !.err = "notInRoom"].typ = t
            /\ [req EXCEPT !.err = "ambiguous"].typ = t
            /\ \A x \in RoomID : [req EXCEPT !.pc = "handle", !.r = x].typ = t
        BY <2>1 DEF HandlerState
      <3> QED BY <2>4, <3>1, <3>2
    <2>6. Matches(c, t) = {r} /\ Cardinality({r}) = 1
      BY <2>3, <2>5, FS_Singleton
    <2>7. Take(c, [req EXCEPT !.pc = "handle", !.r = r])
      <3>1. Matches(c, t) # {}
        BY <2>6
      <3>2. ~(Cardinality(Matches(c, t)) > 1)
        BY <2>6
      <3>3. PICK x \in RoomID : /\ Matches(c, t) = {x}
                                /\ Take(c, [req EXCEPT !.pc = "handle", !.r = x])
        BY <2>4, <3>1, <3>2
      <3>4. x = r
        BY <2>6, <3>3
      <3> QED BY <3>3, <3>4
    <2> QED BY <1>1, <2>1, <2>7 DEF Take, HandlerState
  <1> QED BY <1>3, <1>4, <1>5

\* An open connection's own steps leave it tracking no room but its client's.
LEMMA PlacedStep ==
    ASSUME HInv, HInv', NEW c \in Client, Local(c), ConnectionStep(c), Placed(c),
           reader[c].pc = "read", reader'[c].pc = "read"
    PROVE  /\ Placed(c)'
           /\ \/ HandleMessage(c) \/ Reply(c) \/ \E t \in Type : DispatchRoomMessage(c, t)
              \/ handler'[c].pc \notin {"handle", "reply"}
  <1> DEFINE p == HandleLoop[c]
             Silent == handler'[c].pc \notin {"handle", "reply"}
  <1>1. /\ Types /\ Phase(c) /\ Inv /\ handler \in [Client -> HandlerState]
        /\ roomIDs \in [Client -> SUBSET RoomID] /\ roomIDs'[c] \subseteq RoomID
        /\ reader \in [Client -> ReaderState]
        /\ p \in Caller /\ ClientOf[p] = c
        /\ Next \/ UNCHANGED manager
    BY Loops DEF HInv, Types, Local
  <1>2. handler[c].pc # "leaving" => ~Leave(p)
    BY <1>1 DEF Phase, Leave, Leaves
  <1> HIDE DEF p
  \* A step that begins or ends no request about a room of the connection.
  <1>3. ASSUME roomIDs'[c] \subseteq roomIDs[c], handler[c].pc # "leaving",
               \A r \in roomIDs'[c] : Moving(c, r) =>
                  Moving(c, r)' \/ (Registered(r)' => c \in room'[r].players)
        PROVE  Placed(c)'
    BY <1>1, <1>2, <1>3, PlacedFrame DEF p
  <1>4. ASSUME NEW r \in RoomID, NEW op, op \in {"create", "join"}, Idle(c),
               Take(c, Request("join", op, r, NoRoom)), Subscribe(c, r)
        PROVE  Placed(c)' /\ Silent
    <2>1. handler'[c].pc = "join" /\ handler'[c].r = r
      <3>1. Request("join", op, r, NoRoom) \in HandlerState
        BY <1>4, RequestType
      <3> QED BY <1>1, <1>4, <3>1, RequestType, TakeLemma
    <2>2. roomIDs'[c] = roomIDs[c] \cup {r}
      BY <1>1, <1>4 DEF Subscribe
    <2>3. Moving(c, r)' /\ \A x : ~Moving(c, x)
      BY <1>4, <2>1 DEF Moving, Idle
    <2>4. ~Leave(p)
      BY <1>2, <1>4 DEF Idle
    <2> QED BY <1>1, <2>1, <2>2, <2>3, <2>4, PlacedFrame DEF p
  <1>5. ASSUME NEW r \in RoomID, (\E md \in Modes : CreateRoom(c, r, md)) \/ AskToJoin(c, r)
        PROVE  Placed(c)' /\ Silent
    BY <1>4, <1>5 DEF CreateRoom, AskToJoin
  <1>6. ASSUME HandleMessage(c) \/ Reply(c) \/ \E t \in Type : DispatchRoomMessage(c, t)
        PROVE  Placed(c)'
    <2>1. handler[c].pc \in {"idle", "handle", "reply"} /\ roomIDs' = roomIDs
      BY <1>6 DEF HandleMessage, Reply, DispatchRoomMessage, Idle
    <2>2. \A x : ~Moving(c, x)
      BY <2>1 DEF Moving
    <2> QED BY <1>3, <2>1, <2>2
  <1>7. CASE BeginJoin(c)
    <2>1. /\ handler[c].pc = "join" /\ handler[c].r \in RoomID /\ roomIDs' = roomIDs
          /\ JoinRoom(p, handler[c].r) /\ Goto(c, "joining")
      BY <1>1, <1>7 DEF BeginJoin, Phase, p
    <2>2. handler'[c].r = handler[c].r /\ handler'[c].pc = "joining"
      BY <1>1, <2>1, GotoLemma
    <2>3. call'[p].pc = "seat"
      BY <1>1, <2>1, CallBegins
    <2>4. \A x : Moving(c, x) => Moving(c, x)'
      BY <2>1, <2>2, <2>3 DEF Moving, p
    <2> QED BY <1>3, <2>1, <2>2, <2>4
  <1>8. CASE JoinRefused(c) \/ JoinFails(c)
    <2>1. /\ handler[c].pc \in {"join", "joining"} /\ roomIDs' = roomIDs /\ Goto(c, "unsub")
      BY <1>8 DEF JoinRefused, JoinFails
    <2>2. handler'[c].r = handler[c].r /\ handler'[c].pc = "unsub"
      BY <1>1, <2>1, GotoLemma
    <2>3. \A x : Moving(c, x) => Moving(c, x)'
      BY <2>1, <2>2 DEF Moving
    <2> QED BY <1>3, <2>1, <2>2, <2>3
  <1>9. CASE JoinStep(c)
    <2>1. /\ handler[c].pc = "joining" /\ roomIDs' = roomIDs /\ handler' = handler
          /\ Seat(p) \/ FindOld(p) \/ EvictOld(p) \/ EvictSchedule(p)
          /\ handler[c].r = call[p].r
      BY <1>1, <1>9 DEF JoinStep, Phase, p
    <2>2. ASSUME NEW x, Moving(c, x), ~Moving(c, x)' PROVE c \in room'[x].players
      <3>1. x = call[p].r /\ call[p].pc \in {"seat", "rollback"}
        BY <2>1, <2>2 DEF Moving, p
      <3>2. Seat(p)
        BY <2>1, <3>1 DEF FindOld, EvictOld, EvictSchedule
      <3>3. call'[p].pc # "rollback"
        BY <2>1, <2>2, <3>1 DEF Moving, p
      <3> QED BY <1>1, <3>1, <3>2, <3>3, SeatOutcome
    <2> QED BY <1>3, <2>1, <2>2
  <1>10. CASE JoinReturns(c)
    <2>1. /\ handler[c].pc = "joining" /\ roomIDs' = roomIDs /\ Info(p)
          /\ Goto(c, "unsub") \/ Finish(c)
      BY <1>10 DEF JoinReturns, p
    <2>2. handler'[c].pc \in {"unsub", "idle"}
      BY <1>1, <2>1, GotoLemma, FinishLemma
    <2>3. \A x : ~Moving(c, x)
      BY <2>1 DEF Moving, Info, p
    <2> QED BY <1>3, <2>1, <2>2, <2>3
  <1>11. CASE Unsub(c)
    <2>1. /\ handler[c].pc = "unsub" /\ roomIDs'[c] = roomIDs[c] \ {handler[c].r}
          /\ Goto(c, "remove") \/ Finish(c)
      BY <1>1, <1>11 DEF Unsub
    <2>2. handler'[c].pc \in {"remove", "idle"}
      BY <1>1, <2>1, GotoLemma, FinishLemma
    <2>3. \A x \in roomIDs'[c] : ~Moving(c, x)
      BY <2>1 DEF Moving
    <2> QED BY <1>3, <2>1, <2>2, <2>3
  <1>12. CASE RemoveRoom(c) \/ Removed(c)
    <2>1. /\ handler[c].pc \in {"remove", "await"} /\ roomIDs' = roomIDs
          /\ Goto(c, "await") \/ Finish(c)
      BY <1>12 DEF RemoveRoom, Removed
    <2>2. handler'[c].pc \in {"await", "idle"}
      BY <1>1, <2>1, GotoLemma, FinishLemma
    <2>3. \A x : ~Moving(c, x)
      BY <2>1 DEF Moving
    <2> QED BY <1>3, <2>1, <2>2, <2>3
  <1>13. ASSUME NEW r \in RoomID, BeginLeave(c, r) PROVE Placed(c)' /\ Silent
    <2>1. /\ handler[c].pc = "idle" /\ roomIDs' = roomIDs
          /\ \/ Take(c, Request("leaving", "leave", r, NoRoom))
             \/ Take(c, Request("unsub", "leave", r, NoRoom))
      BY <1>13 DEF BeginLeave, Idle
    <2>2. handler'[c].pc \in {"leaving", "unsub"}
      <3>1. /\ Request("leaving", "leave", r, NoRoom) \in HandlerState
            /\ Request("unsub", "leave", r, NoRoom) \in HandlerState
        BY RequestType
      <3> QED BY <1>1, <2>1, <3>1, RequestType, TakeLemma
    <2>3. \A x : ~Moving(c, x)
      BY <2>1 DEF Moving
    <2> QED BY <1>3, <2>1, <2>2, <2>3
  <1>14. CASE LeaveStep(c)
    <2>1. /\ handler[c].pc = "leaving" /\ roomIDs' = roomIDs /\ call[p].r = handler[c].r
          /\ Goto(c, "unsub") \/ handler' = handler
      BY <1>1, <1>14 DEF LeaveStep, Phase, p
    <2>2. handler'[c].r = handler[c].r /\ handler'[c].pc \in {"unsub", "leaving"}
      BY <1>1, <2>1, GotoLemma
    <2>3. Moving(c, handler[c].r) /\ \A x : Moving(c, x) => Moving(c, x)'
      BY <2>1, <2>2 DEF Moving
    <2> QED BY <1>1, <2>1, <2>2, <2>3, PlacedFrame DEF p
  <1>15. ~Disconnect(c) /\ ~OnDisconnectStep(c)
    <2>1. ~Disconnect(c)
      BY <1>1 DEF Disconnect
    <2>2. ~LeaveNext(c)
      BY <1>1 DEF LeaveNext, Phase
    <2>3. ~DisconnectStep(c)
      BY <1>1 DEF DisconnectStep, Leave, Schedule, Phase
    <2>4. ~UnsubAll(c)
      BY <1>1 DEF UnsubAll
    <2> QED BY <2>1, <2>2, <2>3, <2>4 DEF OnDisconnectStep
  <1> QED BY <1>5, <1>6, <1>7, <1>8, <1>9, <1>10, <1>11, <1>12, <1>13, <1>14, <1>15
          DEF ConnectionStep, HandlerStep

\* No step opens a connection again.
LEMMA ReadBefore ==
    ASSUME HInv, NEW c \in Client, ConnectionStep(c), reader'[c].pc = "read"
    PROVE  reader[c].pc = "read"
  <1>1. reader \in [Client -> ReaderState]
    BY DEF HInv, Types
  <1> QED BY <1>1 DEF ConnectionStep, HandlerStep, OnDisconnectStep, ReaderState,
          CreateRoom, AskToJoin, BeginLeave, DispatchRoomMessage, BeginJoin, JoinRefused,
          JoinStep, JoinFails, JoinReturns, Unsub, RemoveRoom, Removed, LeaveStep,
          HandleMessage, Reply, Disconnect, LeaveNext, DisconnectStep, UnsubAll

\* Every step keeps an open connection heard.
LEMMA HearsStep ==
    ASSUME HInv, HInv', ~Rejoins, HandlersNext, NEW c \in Client, Tracks(c), Hears(c)
    PROVE  Hears(c)'
  <1>1. ASSUME NEW d \in Client, ConnectionStep(d) PROVE Hears(c)'
    <2>1. Local(d)
      BY <1>1, LocalStep
    <2>2. CASE d = c
      <3> SUFFICES ASSUME reader'[c].pc = "read"
                   PROVE  SeatRecords(c)' /\ Placed(c)' /\ Heard(c)'
        BY DEF Hears
      <3>1. reader[c].pc = "read" /\ SeatRecords(c) /\ Placed(c) /\ Heard(c)
        BY <1>1, <2>2, ReadBefore DEF Hears
      <3>2. SeatRecords(c)'
        BY <2>1, <3>1, RecordsStay DEF Local
      <3>3. /\ Placed(c)'
            /\ \/ HandleMessage(c) \/ Reply(c) \/ \E t \in Type : DispatchRoomMessage(c, t)
               \/ handler'[c].pc \notin {"handle", "reply"}
        BY <1>1, <2>1, <2>2, <3>1, PlacedStep
      <3>4. Heard(c)'
        <4>1. CASE handler'[c].pc \notin {"handle", "reply"}
          BY <4>1 DEF Heard
        <4> QED BY <3>1, <3>3, <4>1, HearsMessage
      <3> QED BY <3>2, <3>3, <3>4
    <2>3. CASE d # c
      <3>1. call'[HandleLoop[c]] = call[HandleLoop[c]]
        BY <2>1, <2>3, Loops DEF Local
      <3> QED BY <2>1, <2>3, <3>1, HearsOther DEF Local
    <2> QED BY <2>2, <2>3
  <1>2. ASSUME NEW r \in RoomID, RemovalStep(r) PROVE Hears(c)'
    <2>1. /\ Next /\ handler' = handler /\ reader' = reader /\ roomIDs' = roomIDs
          /\ call' = call
      BY <1>2 DEF RemovalStep, Next, OnEmpty, Shutdown
    <2> QED BY <2>1, HearsOther
  <1> QED BY <1>1, <1>2, StepsOfNext

(***************************************************************************)
(* For any number of connections, rooms and types: where all rooms reject, *)
(* the message of a seated client of an open connection is handled by the  *)
(* room it sits in (manager.go:289-315), whatever the other connections,   *)
(* removals and evictions do meanwhile, if no client asks for a seat it    *)
(* has.                                                                    *)
(***************************************************************************)
THEOREM SeatedClientHeard ==
    ASSUME ~Rejoins
    PROVE  HandlersSpec => []SeatedClientIsHeard
  <1> DEFINE All == \A c \in Client : Tracks(c) /\ Hears(c)
             J == HInv /\ All
  <1>1. HandlersInit => J
    <2> SUFFICES ASSUME HandlersInit PROVE All
      BY HandlersInitInv
    <2>1. \A c \in Client : handler[c].pc = "idle" /\ roomIDs[c] = {} /\ SeatRecords(c)
      BY RequestType, SeatsInit DEF HandlersInit, NoRequest
    <2>2. \A r \in RoomID : status[r] = "none"
      BY DEF HandlersInit, Init
    <2> QED BY <2>1, <2>2
            DEF Tracks, Seatless, SeatedIn, Registered, Hears, Placed, Heard
  <1>2. J /\ [HandlersNext]_handlerVars => J'
    <2> SUFFICES ASSUME J, [HandlersNext]_handlerVars PROVE J'
      OBVIOUS
    <2>1. HInv'
      BY HandlersNextInv, HandlersStutter
    <2>2. CASE HandlersNext
      BY <2>1, <2>2, TracksStep, HearsStep
    <2>3. CASE UNCHANGED handlerVars
      <3>1. All'
        BY <2>1, <2>3, TracksOther, HearsOther DEF handlerVars, manager
      <3> QED BY <2>1, <3>1
    <2> QED BY <2>2, <2>3
  <1>3. J => SeatedClientIsHeard
    BY DEF SeatedClientIsHeard, Hears, Heard, SeatedIn
  <1> HIDE DEF J
  <1> QED BY <1>1, <1>2, <1>3, PTL DEF HandlersSpec
=============================================================================
