----------------------------- MODULE Connection -----------------------------
(***************************************************************************)
(* One WebSocket connection (src/gateway/client.go), what the dispatcher   *)
(* and the built-in handlers do for it (src/gateway/dispatcher.go,         *)
(* src/internal/handlers/room.go), and how the gateway starts it and shuts *)
(* it down (src/gateway/gateway.go).                                       *)
(*                                                                         *)
(* Three goroutines serve a connection: the read loop, the handle loop,    *)
(* which runs the dispatcher on one message after the other, and the write *)
(* loop.  They meet in the channels handles, send and done and in the      *)
(* fields topics, roomIDs and session.  When the read loop ends it runs    *)
(* OnDisconnect, while the handle loop may still be in a handler.          *)
(*                                                                         *)
(* The bus, the session store and the room manager are seen through their  *)
(* calls, one step each (modules EventBus and RoomManager look inside).    *)
(***************************************************************************)
EXTENDS Naturals, Sequences

CONSTANTS
    Room,        \* room identifiers
    Self,        \* what the personal topic "client:<id>" carries as its name
    Msgs,        \* the messages this peer sends
    HandleCap,   \* bound: capacity of handles (64 in the code)
    SendCap,     \* bound: capacity of send (256 by default)
    MaxSessions  \* bound: sessions the authenticator hands out

(***************************************************************************)
(* A topic is "room:<id>", or any other string; two of these matter: the   *)
(* personal topic, and a string that equals a room id without the prefix.  *)
(***************************************************************************)
Topic == [room : BOOLEAN, id : Room \cup {Self}]
RoomTopic(r) == [room |-> TRUE, id |-> r]
PersonalTopic == [room |-> FALSE, id |-> Self]

(***************************************************************************)
(* A decoded protocol.ClientMessage.  join and leave are requests for the  *)
(* built-in handlers; other is any message whose handler changes nothing   *)
(* here (an unknown type, a room message, another command).                *)
(***************************************************************************)
Message ==
    [ type  : {"auth", "subscribe", "unsubscribe", "join", "leave", "other"},
      topic : Topic ]

NoMessage == [type |-> "other", topic |-> PersonalTopic]

ASSUME SelfAssumption == Self \notin Room
\* A request to join or leave names a room, and the handlers put "room:"
\* before its id (handlers/room.go:70, 92).
ASSUME MsgsAssumption ==
    /\ Msgs \subseteq Message
    /\ \A m \in Msgs : m.type \in {"join", "leave"} => m.topic.room
ASSUME CapAssumption == HandleCap \in Nat \ {0} /\ SendCap \in Nat \ {0}
ASSUME MaxSessionsAssumption == MaxSessions \in Nat

VARIABLES
    handles,  \* the channel from the read loop to the handle loop
    send,     \* the channel to the write loop: sent before the close, or after
    done,     \* the done channel is closed
    conn,     \* the socket is open
    session,  \* c.session: 0 for nil, else the session's number
    topics,   \* c.topics
    roomIDs,  \* c.roomIDs
    subs,     \* topics the bus has this client in
    stored,   \* this connection's sessions in the session store
    seats,    \* rooms that seat this client
    reader,   \* the read loop
    handler,  \* the handle loop
    writer,   \* the write loop
    gateway   \* how far Gateway.shutdown got

fields == <<session, topics, roomIDs>>
world == <<subs, stored, seats>>
aside == <<writer, gateway>>   \* the read and handle loops do not touch them
vars == <<handles, send, done, conn, fields, world, reader, handler, aside>>

(***************************************************************************)
(* The read loop reads, enqueues a message, and ends in its deferred Close *)
(* and OnDisconnect: sess, rooms and topics are its locals (what is left   *)
(* of the loops over them in todo), msg.topic the topic being dropped.     *)
(* quiet is history: when OnDisconnect began, the handle loop was in no    *)
(* handler and had no message left.                                        *)
(***************************************************************************)
ReaderState ==
    [ pc     : {"read", "enqueue", "close", "session", "snapshot",
                "leave", "unsub", "unbus", "delete", "exited"},
      msg    : Message,
      sess   : 0..MaxSessions,
      rooms  : SUBSET (Room \cup {Self}),
      todo   : SUBSET (Room \cup {Self}),
      topics : SUBSET Topic,
      quiet  : BOOLEAN ]

HandlerState ==
    [ pc  : {"idle", "auth", "store", "close", "track", "bus",
             "joinRoom", "leaveRoom", "untrack", "unbus", "reply", "exited"},
      msg : Message ]

\* handleWebSocket: NewClient has subscribed the personal topic, the client is
\* registered, and ReadLoop has started the other two loops.
Init ==
    /\ handles = <<>>
    /\ send = <<>>
    /\ done = FALSE
    /\ conn = TRUE
    /\ session = 0
    /\ topics = {PersonalTopic}
    /\ roomIDs = {}
    /\ subs = {PersonalTopic}
    /\ stored = {}
    /\ seats = {}
    /\ reader = [pc |-> "read", msg |-> NoMessage, sess |-> 0, rooms |-> {},
                 todo |-> {}, topics |-> {}, quiet |-> FALSE]
    /\ handler = [pc |-> "idle", msg |-> NoMessage]
    /\ writer = "loop"
    /\ gateway = "serving"

IsAuthenticated == session # 0

(***************************************************************************)
(* The select of SendServerMessage: enqueue, or give up on a closed        *)
(* connection (a free choice when both are possible), or close the         *)
(* connection of a slow consumer.                                          *)
(***************************************************************************)
SendServerMessage ==
    \/ /\ Len(send) < SendCap
       /\ send' = Append(send, IF done THEN "late" ELSE "early")
       /\ UNCHANGED done
    \/ /\ done
       /\ UNCHANGED <<send, done>>
    \/ /\ Len(send) = SendCap /\ ~done
       /\ done' = TRUE
       /\ UNCHANGED send

-----------------------------------------------------------------------------
(* ReadLoop.                                                               *)

\* A frame the loop answers itself: not binary, not decodable, or a ping.
ReadAndReply ==
    /\ reader.pc = "read"
    /\ SendServerMessage
    /\ UNCHANGED <<handles, conn, fields, world, reader, handler, aside>>

\* Mutant of ReadMessage: the authentication is not checked.
ReadMessageUnchecked(m) ==
    /\ reader.pc = "read"
    /\ reader' = [reader EXCEPT !.pc = "enqueue", !.msg = m]
    /\ UNCHANGED <<handles, send, done, conn, fields, world, handler, aside>>

\* A decoded message: to be enqueued, or refused before authentication.
ReadMessage(m) ==
    /\ reader.pc = "read"
    /\ IF IsAuthenticated \/ m.type = "auth"
         THEN /\ reader' = [reader EXCEPT !.pc = "enqueue", !.msg = m]
              /\ UNCHANGED <<send, done>>
         ELSE /\ SendServerMessage
              /\ UNCHANGED reader
    /\ UNCHANGED <<handles, conn, fields, world, handler, aside>>

\* Mutant of Enqueue: one message too many.
EnqueueOffByOne ==
    /\ reader.pc = "enqueue"
    /\ Len(handles) <= HandleCap
    /\ handles' = Append(handles, reader.msg)
    /\ reader' = [reader EXCEPT !.pc = "read", !.msg = NoMessage]
    /\ UNCHANGED <<send, done, conn, fields, world, handler, aside>>

\* case c.handles <- &msg
Enqueue ==
    /\ reader.pc = "enqueue"
    /\ Len(handles) < HandleCap
    /\ handles' = Append(handles, reader.msg)
    /\ reader' = [reader EXCEPT !.pc = "read", !.msg = NoMessage]
    /\ UNCHANGED <<send, done, conn, fields, world, handler, aside>>

\* case <-c.done
Quit ==
    /\ reader.pc = "enqueue"
    /\ done
    /\ reader' = [reader EXCEPT !.pc = "close", !.msg = NoMessage]
    /\ UNCHANGED <<handles, send, done, conn, fields, world, handler, aside>>

\* ReadMessage returns an error: the peer is gone, the read deadline passed,
\* or the socket was closed.
ReadFails ==
    /\ reader.pc = "read"
    /\ reader' = [reader EXCEPT !.pc = "close"]
    /\ UNCHANGED <<handles, send, done, conn, fields, world, handler, aside>>

\* The deferred c.Close().
DeferredClose ==
    /\ reader.pc = "close"
    /\ done' = TRUE
    /\ reader' = [reader EXCEPT !.pc = "session"]
    /\ UNCHANGED <<handles, send, conn, fields, world, handler, aside>>

-----------------------------------------------------------------------------
(* OnDisconnect, in the read loop's goroutine.                             *)

GetSession ==
    /\ reader.pc = "session"
    /\ reader' = [reader EXCEPT !.pc = "snapshot", !.sess = session,
                    !.quiet = handler.pc \in {"idle", "exited"} /\ handles = <<>>]
    /\ UNCHANGED <<handles, send, done, conn, fields, world, handler, aside>>

Snapshot ==
    /\ reader.pc = "snapshot"
    /\ reader' = [reader EXCEPT !.pc = "leave", !.rooms = roomIDs,
                    !.topics = topics,
                    !.todo = IF reader.sess # 0 THEN roomIDs ELSE {}]
    /\ UNCHANGED <<handles, send, done, conn, fields, world, handler, aside>>

\* d.rooms.LeaveRoom(sess.UserID, c.id, rid)
LeaveNext ==
    /\ reader.pc = "leave"
    /\ IF reader.todo = {}
         THEN /\ reader' = [reader EXCEPT !.pc = "unsub"]
              /\ UNCHANGED seats
         ELSE \E r \in reader.todo :
              /\ seats' = seats \ {r}
              /\ reader' = [reader EXCEPT !.todo = @ \ {r}]
    /\ UNCHANGED <<handles, send, done, conn, fields, subs, stored, handler,
                   aside>>

\* c.Unsubscribe(t): first the client's own maps, then the bus.
UnsubNext ==
    /\ reader.pc = "unsub"
    /\ IF reader.topics = {}
         THEN /\ reader' = [reader EXCEPT !.pc = "delete"]
              /\ UNCHANGED <<topics, roomIDs>>
         ELSE \E t \in reader.topics :
              /\ topics' = topics \ {t}
              /\ roomIDs' = roomIDs \ {t.id}
              /\ reader' = [reader EXCEPT !.pc = "unbus", !.msg.topic = t,
                                          !.topics = @ \ {t}]
    /\ UNCHANGED <<handles, send, done, conn, session, world, handler, aside>>

UnbusNext ==
    /\ reader.pc = "unbus"
    /\ subs' = subs \ {reader.msg.topic}
    /\ reader' = [reader EXCEPT !.pc = "unsub"]
    /\ UNCHANGED <<handles, send, done, conn, fields, stored, seats, handler,
                   aside>>

DeleteSession ==
    /\ reader.pc = "delete"
    /\ stored' = stored \ {reader.sess}
    /\ reader' = [reader EXCEPT !.pc = "exited"]
    /\ UNCHANGED <<handles, send, done, conn, fields, subs, seats, handler,
                   aside>>

-----------------------------------------------------------------------------
(* handleLoop and Dispatch.                                                *)

\* Mutant of Start: handleAuth does not ask whether there is a session.
StartAuthAgain(m) ==
    CASE m.type = "auth"                  -> "auth"
      [] m.type \in {"subscribe", "join"} -> "track"
      [] m.type = "unsubscribe"           -> "untrack"
      [] m.type = "leave"                 -> "leaveRoom"
      [] OTHER                            -> "reply"

\* Where Dispatch takes the message; a second auth is answered with an error.
Start(m) ==
    CASE m.type = "auth" /\ ~IsAuthenticated -> "auth"
      [] m.type \in {"subscribe", "join"}    -> "track"
      [] m.type = "unsubscribe"              -> "untrack"
      [] m.type = "leave"                    -> "leaveRoom"
      [] OTHER                               -> "reply"

Goto(pc) == handler' = [handler EXCEPT !.pc = pc]
Finish == handler' = [pc |-> "idle", msg |-> NoMessage]

\* case msg := <-c.handles (also possible once done is closed)
Dispatch ==
    /\ handler.pc = "idle"
    /\ handles # <<>>
    /\ handler' = [pc |-> Start(Head(handles)), msg |-> Head(handles)]
    /\ handles' = Tail(handles)
    /\ UNCHANGED <<send, done, conn, fields, world, reader, aside>>

\* case <-c.done
HandlerExit ==
    /\ handler.pc = "idle"
    /\ done
    /\ Goto("exited")
    /\ UNCHANGED <<handles, send, done, conn, fields, world, reader, aside>>

\* The authenticator accepts the token; c.SetSession(sess).
AuthAccepted ==
    /\ handler.pc = "auth"
    /\ session < MaxSessions
    /\ session' = session + 1
    /\ Goto("store")
    /\ UNCHANGED <<handles, send, done, conn, topics, roomIDs, world, reader,
                   aside>>

\* It refuses, or its context ends: the error is sent, then c.Close().
AuthRefused ==
    /\ handler.pc = "auth"
    /\ SendServerMessage
    /\ Goto("close")
    /\ UNCHANGED <<handles, conn, fields, world, reader, aside>>

CloseRefused ==
    /\ handler.pc = "close"
    /\ done' = TRUE
    /\ Finish
    /\ UNCHANGED <<handles, send, conn, fields, world, reader, aside>>

\* d.sessions.Set(sess)
StoreSession ==
    /\ handler.pc = "store"
    /\ stored' = stored \cup {session}
    /\ Goto("reply")
    /\ UNCHANGED <<handles, send, done, conn, fields, subs, seats, reader,
                   aside>>

\* Where the handler goes once c.Subscribe returned.
AfterSubscribe ==
    IF handler.msg.type = "join" THEN Goto("joinRoom") ELSE Finish

\* c.Subscribe, under c.mu: a topic already there ends it.
Track ==
    LET t == handler.msg.topic IN
    /\ handler.pc = "track"
    /\ topics' = topics \cup {t}
    /\ roomIDs' = IF t \notin topics /\ t.room THEN roomIDs \cup {t.id}
                                                ELSE roomIDs
    /\ IF t \in topics THEN AfterSubscribe ELSE Goto("bus")
    /\ UNCHANGED <<handles, send, done, conn, session, world, reader, aside>>

\* Mutant of Bus: the bus is not told.
BusSkipped ==
    /\ handler.pc = "bus"
    /\ AfterSubscribe
    /\ UNCHANGED <<handles, send, done, conn, fields, world, reader, aside>>

\* c.bus.Subscribe(topic, c)
Bus ==
    /\ handler.pc = "bus"
    /\ subs' = subs \cup {handler.msg.topic}
    /\ AfterSubscribe
    /\ UNCHANGED <<handles, send, done, conn, fields, stored, seats, reader,
                   aside>>

\* mgr.JoinRoom: the client has its seat, or an error and what it had before.
\* After ShutdownAll no room is found.
JoinRoom ==
    /\ handler.pc = "joinRoom"
    /\ \/ /\ gateway # "down"
          /\ seats' = seats \cup {handler.msg.topic.id}
          /\ Goto("reply")
       \/ UNCHANGED seats /\ Goto("untrack")
    /\ UNCHANGED <<handles, send, done, conn, fields, subs, stored, reader,
                   aside>>

\* mgr.LeaveRoom
LeaveRoom ==
    /\ handler.pc = "leaveRoom"
    /\ seats' = seats \ {handler.msg.topic.id}
    /\ Goto("untrack")
    /\ UNCHANGED <<handles, send, done, conn, fields, subs, stored, reader,
                   aside>>

\* c.Unsubscribe, under c.mu: strings.TrimPrefix strips "room:" if it is there.
Untrack ==
    LET t == handler.msg.topic IN
    /\ handler.pc = "untrack"
    /\ topics' = topics \ {t}
    /\ roomIDs' = roomIDs \ {t.id}
    /\ Goto("unbus")
    /\ UNCHANGED <<handles, send, done, conn, session, world, reader, aside>>

\* c.bus.Unsubscribe(topic, c)
Unbus ==
    /\ handler.pc = "unbus"
    /\ subs' = subs \ {handler.msg.topic}
    /\ IF handler.msg.type = "unsubscribe" THEN Finish ELSE Goto("reply")
    /\ UNCHANGED <<handles, send, done, conn, fields, stored, seats, reader,
                   aside>>

\* SendResponse or SendError
Reply ==
    /\ handler.pc = "reply"
    /\ SendServerMessage
    /\ Finish
    /\ UNCHANGED <<handles, conn, fields, world, reader, aside>>

-----------------------------------------------------------------------------
(* WriteLoop: on its way out it closes the socket.                         *)

Write ==
    /\ writer \in {"loop", "flush"}
    /\ send # <<>>
    /\ send' = Tail(send)
    /\ UNCHANGED <<handles, done, conn, fields, world, reader, handler, aside>>

\* A write or a ping fails, or passes its deadline.
WriteFails ==
    /\ writer = "loop" \/ (writer = "flush" /\ send # <<>>)
    /\ writer' = "failed"
    /\ conn' = FALSE
    /\ UNCHANGED <<handles, send, done, fields, world, reader, handler,
                   gateway>>

\* Mutant of WriterDone: the loop returns without a flush.
WriterDoneNoFlush ==
    /\ writer = "loop"
    /\ done
    /\ writer' = "exited"
    /\ conn' = FALSE
    /\ UNCHANGED <<handles, send, done, fields, world, reader, handler,
                   gateway>>

\* case <-c.done
WriterDone ==
    /\ writer = "loop"
    /\ done
    /\ writer' = "flush"
    /\ UNCHANGED <<handles, send, done, conn, fields, world, reader, handler,
                   gateway>>

\* Mutant of Flushed: the deferred conn.Close() is missing.
FlushedNoClose ==
    /\ writer = "flush"
    /\ send = <<>>
    /\ writer' = "exited"
    /\ UNCHANGED <<handles, send, done, conn, fields, world, reader, handler,
                   gateway>>

\* The inner default: nothing is left to flush.
Flushed ==
    /\ writer = "flush"
    /\ send = <<>>
    /\ writer' = "exited"
    /\ conn' = FALSE
    /\ UNCHANGED <<handles, send, done, fields, world, reader, handler,
                   gateway>>

-----------------------------------------------------------------------------
(* What other goroutines do to this connection.                            *)

\* The bus delivers an event, from the snapshot of some Publish.
Send ==
    /\ SendServerMessage
    /\ UNCHANGED <<handles, conn, fields, world, reader, handler, aside>>

\* Another connection replaces this one in a room, or the room is removed.
Evict(r) ==
    /\ r \in seats
    /\ seats' = seats \ {r}
    /\ UNCHANGED <<handles, send, done, conn, fields, subs, stored, reader,
                   handler, aside>>

-----------------------------------------------------------------------------
(* Gateway.shutdown.                                                       *)

\* Mutant of Stop: the clients are not closed.
StopNoClose ==
    /\ gateway = "serving"
    /\ gateway' = "waiting"
    /\ UNCHANGED <<handles, send, done, conn, fields, world, reader, handler,
                   writer>>

\* Run sees its context end (or the listener fail): c.Close() of every client
\* that is registered.
Stop ==
    /\ gateway = "serving"
    /\ gateway' = "waiting"
    /\ done' = (done \/ reader.pc # "exited")
    /\ UNCHANGED <<handles, send, conn, fields, world, reader, handler, writer>>

\* g.wg.Wait() returns, the read loops are over; Rooms.ShutdownAll().
ShutdownAll ==
    /\ gateway = "waiting"
    /\ reader.pc = "exited"
    /\ seats' = {}
    /\ gateway' = "down"
    /\ UNCHANGED <<handles, send, done, conn, fields, subs, stored, reader,
                   handler, writer>>

-----------------------------------------------------------------------------
OnDisconnect ==
    GetSession \/ Snapshot \/ LeaveNext \/ UnsubNext \/ UnbusNext \/ DeleteSession

ReaderStep == Enqueue \/ Quit \/ DeferredClose \/ OnDisconnect

HandlerStep ==
    \/ AuthAccepted \/ AuthRefused \/ CloseRefused \/ StoreSession
    \/ Track \/ Bus \/ JoinRoom \/ LeaveRoom \/ Untrack \/ Unbus \/ Reply

Next ==
    \/ ReadAndReply \/ ReadFails \/ ReaderStep
    \/ \E m \in Msgs : ReadMessage(m)
    \/ Dispatch \/ HandlerExit \/ HandlerStep
    \/ Write \/ WriteFails \/ WriterDone \/ Flushed
    \/ Send
    \/ Stop \/ ShutdownAll
    \/ \E r \in Room : Evict(r)

(***************************************************************************)
(* A goroutine that can go on does; handlers and the authenticator return. *)
(* A read on a closed socket fails, after what was buffered, and `select`  *)
(* is random: the handle loop does not pass over done for ever.  The flush *)
(* has one deadline for all its writes.                                    *)
(***************************************************************************)
Fairness ==
    /\ WF_vars(ReaderStep)
    /\ SF_vars(ReadFails /\ ~conn)
    /\ WF_vars(HandlerStep)
    /\ SF_vars(HandlerExit)
    /\ WF_vars(WriterDone)
    /\ WF_vars(writer = "flush" /\ (Flushed \/ WriteFails))
    /\ WF_vars(ShutdownAll)

Spec == Init /\ [][Next]_vars /\ Fairness

-----------------------------------------------------------------------------
(* Properties.                                                             *)

\* The types of the variables; the channels hold no more than they can.
TypeOK ==
    /\ handles \in Seq(Message) /\ Len(handles) <= HandleCap
    /\ send \in Seq({"early", "late"}) /\ Len(send) <= SendCap
    /\ done \in BOOLEAN
    /\ conn \in BOOLEAN
    /\ session \in 0..MaxSessions
    /\ topics \in SUBSET Topic
    /\ roomIDs \in SUBSET (Room \cup {Self})
    /\ subs \in SUBSET Topic
    /\ stored \in SUBSET (0..MaxSessions)
    /\ seats \in SUBSET (Room \cup {Self})
    /\ reader \in ReaderState
    /\ handler \in HandlerState
    /\ writer \in {"loop", "flush", "exited", "failed"}
    /\ gateway \in {"serving", "waiting", "down"}

(***************************************************************************)
(* No handler but the one of an auth message runs without a session: the   *)
(* read loop checks it, the handle loop uses it later, when it would       *)
(* dereference a nil session (client.go:282, handlers/room.go:48, 71, 91). *)
(***************************************************************************)
NoRequestBeforeAuth ==
    handler.pc \in {"track", "bus", "joinRoom", "leaveRoom", "untrack", "unbus"}
        => IsAuthenticated

(***************************************************************************)
(* A disconnect releases what the connection held: when the handle loop    *)
(* had nothing in hand and nothing queued as OnDisconnect began, then at   *)
(* its end no session of the connection is stored, the client is in no     *)
(* topic, and every room it was tracked in has let it go                   *)
(* (dispatcher.go:143-170).                                                *)
(***************************************************************************)
QuietDisconnectReleases ==
    reader.pc = "exited" /\ reader.quiet
        => /\ stored = {} /\ subs = {} /\ topics = {} /\ roomIDs = {}
           /\ seats \cap reader.rooms = {}

(***************************************************************************)
(* "... so queued messages are not lost" (client.go:310-312): a write loop *)
(* that ended without a write error left nothing that was queued before    *)
(* the connection was closed, such as the error of a refused auth.         *)
(***************************************************************************)
QueuedBeforeCloseIsWritten ==
    writer = "exited" => \A i \in DOMAIN send : send[i] = "late"

(***************************************************************************)
(* "Subscribe before joining so no room events are missed" (handlers/      *)
(* room.go:69): the client of an open connection gets a seat only while    *)
(* the bus has it in the room's topic, whatever it subscribed to and       *)
(* dropped before.                                                         *)
(***************************************************************************)
SubscribedBeforeSeated ==
    [][\A r \in Room :
         ~done /\ r \in seats' \ seats => RoomTopic(r) \in subs]_vars

(***************************************************************************)
(* A closed connection unwinds: all three loops end, also when the read    *)
(* loop is stuck on a full handles channel or on a silent peer             *)
(* (client.go:197-308).                                                    *)
(***************************************************************************)
ClosedConnectionUnwinds ==
    done ~> /\ reader.pc = "exited"
            /\ handler.pc = "exited"
            /\ writer \in {"exited", "failed"}

(***************************************************************************)
(* "... then tears everything down gracefully" (gateway.go:185-189): once  *)
(* Run begins to shut down it closes the connection, waits for its read    *)
(* loop and reaches the rooms, whatever the peer and the handlers do.      *)
(***************************************************************************)
ShutdownCompletes == gateway # "serving" ~> gateway = "down"

(***************************************************************************)
(* "A client disconnect is handled by the framework (leave from all        *)
(* rooms)" (docs/usage.md:339-340): once the connection has unwound, no    *)
(* room seats its client.                                                  *)
(***************************************************************************)
DisconnectLeavesAllRooms ==
    reader.pc = "exited" /\ handler.pc = "exited" => seats = {}
=============================================================================
