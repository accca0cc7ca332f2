------------------------------ MODULE Handlers ------------------------------
(***************************************************************************)
(* The built-in handlers (src/internal/handlers/room.go), the routing of   *)
(* room messages and OnDisconnect (src/gateway/dispatcher.go) of several   *)
(* connections on top of the room manager, whose actions are conjuncts of  *)
(* the actions here (module RoomManager).                                  *)
(*                                                                         *)
(* A connection has two goroutines: its handle loop works on one request   *)
(* after the other; its read loop ends in OnDisconnect, while a request    *)
(* may be in progress.  A connection here is authenticated, its peer       *)
(* subscribes to no room topic by itself, and its handle loop takes no     *)
(* message that was still queued at the close: module Connection has all   *)
(* that, for one connection and an abstract manager.                       *)
(***************************************************************************)
EXTENDS RoomManager

CONSTANTS
    HandleLoop,  \* per connection: the goroutine of its handle loop
    ReadLoop,    \* per connection: the goroutine of its read loop
    Leaver       \* bound: the connections that may end

ASSUME LoopsAssumption ==
    /\ HandleLoop \in [Client -> Caller]
    /\ ReadLoop \in [Client -> Caller]
    /\ \A c, d \in Client : HandleLoop[c] # ReadLoop[d]
    /\ \A c \in Client : ClientOf[HandleLoop[c]] = c /\ ClientOf[ReadLoop[c]] = c

ASSUME LeaverAssumption == Leaver \subseteq Client

VARIABLES
    roomIDs,  \* per connection: c.roomIDs, the rooms whose topic it subscribes to
    handler,  \* per connection: the handle loop and the request it works on
    reader    \* per connection: the read loop; todo is what OnDisconnect has
              \* left of the room ids it took a snapshot of

manager == <<status, mode, room, userSessions, call>>
handlerVars == <<manager, roomIDs, handler, reader>>

(***************************************************************************)
(* A request, its room (of a message: the room it is routed to) and, of a  *)
(* message, the room type its opcode belongs to and the error it got.      *)
(***************************************************************************)
HandlerState ==
    [ pc  : {"idle", "join", "joining", "unsub", "remove", "await",
             "leaving", "handle", "reply"},
      op  : {"none", "create", "join", "leave", "message"},
      r   : RoomID \cup {NoRoom},
      typ : Type \cup {NoRoom},
      err : Err \cup {"ambiguous"} ]

Request(pc, op, r, typ) == [pc |-> pc, op |-> op, r |-> r, typ |-> typ, err |-> "nil"]
NoRequest == Request("idle", "none", NoRoom, NoRoom)

ReaderState == [pc : {"read", "leave", "exited"}, todo : SUBSET RoomID]

HandlersInit ==
    /\ Init
    /\ roomIDs = [c \in Client |-> {}]
    /\ handler = [c \in Client |-> NoRequest]
    /\ reader = [c \in Client |-> [pc |-> "read", todo |-> {}]]

Idle(c) == handler[c].pc = "idle" /\ reader[c].pc = "read"
Take(c, req) == handler' = [handler EXCEPT ![c] = req]
Goto(c, pc) == handler' = [handler EXCEPT ![c].pc = pc]
Finish(c) == Take(c, NoRequest)

\* Mutant of Subscribe: only the first room is tracked.
SubscribeFirst(c, r) ==
    roomIDs' = [roomIDs EXCEPT ![c] = IF @ = {} THEN {r} ELSE @]

\* ctx.Subscribe("room:" + id)
Subscribe(c, r) == roomIDs' = [roomIDs EXCEPT ![c] = @ \cup {r}]

-----------------------------------------------------------------------------
(* createRoomHandler and joinRoomHandler.                                  *)

\* mgr.Create returned, and the topic is subscribed.  The types here have a
\* module, whose BaseConfig gives all their rooms one singleton mode.
CreateRoom(c, r, md) ==
    /\ Idle(c)
    /\ \A x \in RoomID : status[x] # "none" /\ TypeOf[x] = TypeOf[r] => mode[x] = md
    /\ Create(r, md)
    /\ Subscribe(c, r)
    /\ Take(c, Request("join", "create", r, NoRoom))
    /\ UNCHANGED reader

\* A room the peer found in the lobby; the topic is subscribed.
AskToJoin(c, r) ==
    /\ Idle(c)
    /\ Registered(r)
    /\ Rejoins \/ c \notin room[r].players
    /\ Subscribe(c, r)
    /\ Take(c, Request("join", "join", r, NoRoom))
    /\ UNCHANGED <<manager, reader>>

\* mgr.JoinRoom begins: the room is there and the singleton rule allows it.
BeginJoin(c) ==
    /\ handler[c].pc = "join"
    /\ JoinRoom(HandleLoop[c], handler[c].r)
    /\ Goto(c, "joining")
    /\ UNCHANGED <<roomIDs, reader>>

\* Mutant of JoinRefused: the topic is not dropped.
JoinRefusedNoUnsub(c) ==
    LET r == handler[c].r
        s == userSessions[UserOf[c]][TypeOf[r]]
    IN
    /\ handler[c].pc = "join"
    /\ \/ ~Registered(r)
       \/ mode[r] = "Reject" /\ s \notin {NoSession, [room |-> r, client |-> c]}
    /\ IF handler[c].op = "create" THEN Goto(c, "remove") ELSE Finish(c)
    /\ UNCHANGED <<manager, roomIDs, reader>>

\* mgr.JoinRoom returns ErrRoomNotFound or ErrAlreadyInRoomOfType.
JoinRefused(c) ==
    LET r == handler[c].r
        s == userSessions[UserOf[c]][TypeOf[r]]
    IN
    /\ handler[c].pc = "join"
    /\ \/ ~Registered(r)
       \/ mode[r] = "Reject" /\ s \notin {NoSession, [room |-> r, client |-> c]}
    /\ Goto(c, "unsub")
    /\ UNCHANGED <<manager, roomIDs, reader>>

\* The steps of mgr.JoinRoom in between.
JoinStep(c) ==
    LET p == HandleLoop[c] IN
    /\ handler[c].pc = "joining"
    /\ Seat(p) \/ FindOld(p) \/ EvictOld(p) \/ EvictSchedule(p)
    /\ UNCHANGED <<handler, roomIDs, reader>>

\* mgr.JoinRoom returns the room's refusal.
JoinFails(c) ==
    /\ handler[c].pc = "joining"
    /\ Rollback(HandleLoop[c])
    /\ Goto(c, "unsub")
    /\ UNCHANGED <<roomIDs, reader>>

\* mgr.JoinRoom returns the room's info, or ErrRoomNotFound if the room was
\* removed right after the join.
JoinReturns(c) ==
    /\ handler[c].pc = "joining"
    /\ Info(HandleLoop[c])
    /\ IF status[handler[c].r] = "shutdown" THEN Goto(c, "unsub") ELSE Finish(c)
    /\ UNCHANGED <<roomIDs, reader>>

\* Mutant of Unsub: a create that failed does not remove its room.
UnsubOnly(c) ==
    /\ handler[c].pc = "unsub"
    /\ roomIDs' = [roomIDs EXCEPT ![c] = @ \ {handler[c].r}]
    /\ Finish(c)
    /\ UNCHANGED <<manager, reader>>

\* ctx.Unsub: after a join that failed, or after mgr.LeaveRoom.
Unsub(c) ==
    /\ handler[c].pc = "unsub"
    /\ roomIDs' = [roomIDs EXCEPT ![c] = @ \ {handler[c].r}]
    /\ IF handler[c].op = "create" THEN Goto(c, "remove") ELSE Finish(c)
    /\ UNCHANGED <<manager, reader>>

\* mgr.Remove(r.ID()) waits for the room's actor, if the room was there.
RemoveRoom(c) ==
    LET r == handler[c].r IN
    /\ handler[c].pc = "remove"
    /\ IF Registered(r) THEN Remove(r) /\ Goto(c, "await")
                        ELSE UNCHANGED manager /\ Finish(c)
    /\ UNCHANGED <<roomIDs, reader>>

Removed(c) ==
    /\ handler[c].pc = "await"
    /\ status[handler[c].r] = "shutdown"
    /\ Finish(c)
    /\ UNCHANGED <<manager, roomIDs, reader>>

-----------------------------------------------------------------------------
(* leaveRoomHandler.                                                       *)

\* The request, and mgr.LeaveRoom up to the unlock.
BeginLeave(c, r) ==
    /\ Idle(c)
    /\ r \in roomIDs[c]
    /\ IF Registered(r)
         THEN /\ LeaveRoom(HandleLoop[c], r)
              /\ Take(c, Request("leaving", "leave", r, NoRoom))
         ELSE /\ UNCHANGED manager
              /\ Take(c, Request("unsub", "leave", r, NoRoom))
    /\ UNCHANGED <<roomIDs, reader>>

\* Mutant of LeaveStep: the handler goes on before Leave has returned.
LeaveStepNoWait(c) ==
    /\ handler[c].pc = "leaving"
    /\ Leave(HandleLoop[c])
    /\ Goto(c, "unsub")
    /\ UNCHANGED <<roomIDs, reader>>

\* The rest of mgr.LeaveRoom.
LeaveStep(c) ==
    LET p == HandleLoop[c] IN
    /\ handler[c].pc = "leaving"
    /\ Leave(p) \/ Schedule(p)
    /\ IF call'[p].pc = "idle" THEN Goto(c, "unsub") ELSE UNCHANGED handler
    /\ UNCHANGED <<roomIDs, reader>>

-----------------------------------------------------------------------------
(* Room messages.                                                          *)

\* The rooms DispatchRoomMessage finds for a message of room type t.
Matches(c, t) == {r \in roomIDs[c] : Registered(r) /\ TypeOf[r] = t}

\* A request whose opcode belongs to the module of room type t.
DispatchRoomMessage(c, t) ==
    LET req == Request("reply", "message", NoRoom, t) IN
    /\ Idle(c)
    /\ \/ /\ Matches(c, t) = {}
          /\ Take(c, [req EXCEPT !.err = "notInRoom"])
       \/ \E r \in RoomID :
             /\ Matches(c, t) = {r}
             /\ Take(c, [req EXCEPT !.pc = "handle", !.r = r])
       \/ /\ Cardinality(Matches(c, t)) > 1
          /\ Take(c, [req EXCEPT !.err = "ambiguous"])
    /\ UNCHANGED <<manager, roomIDs, reader>>

\* match.HandleMessage: the room looks for the player again.
HandleMessage(c) ==
    LET r == handler[c].r IN
    /\ handler[c].pc = "handle"
    /\ Take(c, [handler[c] EXCEPT
                  !.pc = "reply",
                  !.err = IF status[r] = "shutdown" THEN "closed"
                          ELSE HandleMessageFn(config, room[r], c, "return").err])
    /\ UNCHANGED <<manager, roomIDs, reader>>

\* respond
Reply(c) ==
    /\ handler[c].pc = "reply"
    /\ Finish(c)
    /\ UNCHANGED <<manager, roomIDs, reader>>

-----------------------------------------------------------------------------
(* OnDisconnect.                                                           *)

\* The read loop ends; the snapshot of roomIDs.
Disconnect(c) ==
    /\ c \in Leaver
    /\ reader[c].pc = "read"
    /\ reader' = [reader EXCEPT ![c] = [pc |-> "leave", todo |-> roomIDs[c]]]
    /\ UNCHANGED <<manager, roomIDs, handler>>

\* d.rooms.LeaveRoom(sess.UserID, c.id, rid), in no particular order.
LeaveNext(c) ==
    /\ call[ReadLoop[c]].pc = "idle"
    /\ \E r \in reader[c].todo :
          /\ reader' = [reader EXCEPT ![c].todo = @ \ {r}]
          /\ IF Registered(r) THEN LeaveRoom(ReadLoop[c], r) ELSE UNCHANGED manager
    /\ UNCHANGED <<roomIDs, handler>>

DisconnectStep(c) ==
    /\ Leave(ReadLoop[c]) \/ Schedule(ReadLoop[c])
    /\ UNCHANGED <<roomIDs, handler, reader>>

\* c.Unsubscribe(t) for every topic of the snapshot; no request adds one.
UnsubAll(c) ==
    /\ reader[c] = [pc |-> "leave", todo |-> {}]
    /\ call[ReadLoop[c]].pc = "idle"
    /\ roomIDs' = [roomIDs EXCEPT ![c] = {}]
    /\ reader' = [reader EXCEPT ![c].pc = "exited"]
    /\ UNCHANGED <<manager, handler>>

-----------------------------------------------------------------------------
\* The goroutines of a room's removal.
RemovalStep(r) ==
    /\ OnEmpty(r) \/ Shutdown(r)
    /\ UNCHANGED <<roomIDs, handler, reader>>

\* What the handle loop does with a request it has.
HandlerStep(c) ==
    \/ BeginJoin(c) \/ JoinRefused(c) \/ JoinStep(c) \/ JoinFails(c)
    \/ JoinReturns(c) \/ Unsub(c) \/ RemoveRoom(c) \/ Removed(c)
    \/ LeaveStep(c) \/ HandleMessage(c) \/ Reply(c)

OnDisconnectStep(c) == LeaveNext(c) \/ DisconnectStep(c) \/ UnsubAll(c)

HandlersNext ==
    \/ \E c \in Client :
          \/ \E r \in RoomID :
                \/ \E md \in Modes : CreateRoom(c, r, md)
                \/ AskToJoin(c, r) \/ BeginLeave(c, r)
          \/ \E t \in Type : DispatchRoomMessage(c, t)
          \/ HandlerStep(c)
          \/ Disconnect(c) \/ OnDisconnectStep(c)
    \/ \E r \in RoomID : RemovalStep(r)

HandlersSpec == HandlersInit /\ [][HandlersNext]_handlerVars

-----------------------------------------------------------------------------
(* Properties.                                                             *)

(***************************************************************************)
(* The types of the variables; and a goroutine is in a call of the manager *)
(* exactly when its handler, or its OnDisconnect, waits for one.           *)
(***************************************************************************)
HandlersTypeOK ==
    /\ roomIDs \in [Client -> SUBSET RoomID]
    /\ handler \in [Client -> HandlerState]
    /\ reader \in [Client -> ReaderState]
    /\ \A c \in Client :
          /\ call[HandleLoop[c]].pc # "idle" <=> handler[c].pc \in {"joining", "leaving"}
          /\ call[ReadLoop[c]].pc # "idle" => reader[c].pc = "leave"

(***************************************************************************)
(* An open connection between two requests tracks every room that seats    *)
(* its client, whatever was refused, evicted or removed before (handlers/  *)
(* room.go:47-52, 70-74, 91-92): OnDisconnect leaves the rooms that are    *)
(* tracked and no other.                                                   *)
(***************************************************************************)
SeatsAreTracked ==
    \A c \in Client, r \in RoomID :
        Idle(c) /\ Registered(r) /\ c \in room[r].players => r \in roomIDs[c]

(***************************************************************************)
(* A player is heard: in a type whose rooms all reject, the message of an  *)
(* open connection whose client sits in a room of the type is handled by   *)
(* that room; it is not refused as ambiguous or as coming from outside     *)
(* (manager.go:289-315).  Where rooms replace, a client moved to another   *)
(* room keeps the topic of the old one and this fails.                     *)
(***************************************************************************)
SeatedClientIsHeard ==
    \A c \in Client, r \in RoomID :
        /\ reader[c].pc = "read"
        /\ handler[c].pc = "reply"
        /\ Registered(r) /\ TypeOf[r] = handler[c].typ /\ OnlyRejects(TypeOf[r])
        /\ c \in room[r].players
        => handler[c].r = r /\ handler[c].err = "nil"

(***************************************************************************)
(* No room leaks: whenever no call of the manager is in flight, a room in  *)
(* the map has a player, or its removal is under way, or the request that  *)
(* creates it is not over (handlers/room.go:49-52): a room without players *)
(* that nobody is about to remove would stay for ever.                     *)
(***************************************************************************)
NoRoomLeaks ==
    (\A p \in Caller : call[p].pc = "idle") =>
    \A r \in RoomID :
        Registered(r) /\ room[r].players = {} =>
            \/ room[r].onEmptyDue
            \/ \E c \in Client : handler[c].op = "create" /\ handler[c].r = r

(***************************************************************************)
(* "the room is empty; don't leak it" (handlers/room.go:51): the room that *)
(* a failed create takes away seats nobody.                                *)
(***************************************************************************)
CreateRemovesEmptyRoom ==
    [][\A c \in Client :
         handler[c].pc = "remove" /\ handler'[c].pc = "await"
         => room[handler[c].r].players = {}]_handlerVars
=============================================================================
