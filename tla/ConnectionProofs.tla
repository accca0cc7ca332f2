-------------------------- MODULE ConnectionProofs --------------------------
(***************************************************************************)
(* Safety of one connection, for every set of messages the peer may send   *)
(* and every capacity of the channels.                                     *)
(***************************************************************************)
EXTENDS Connection, TLAPS

-----------------------------------------------------------------------------
(* The inductive invariant.                                                *)

\* The read loop is before OnDisconnect, or has only read c.session.
Serving == reader.pc \in {"read", "enqueue", "close", "session"}

\* What moves from loop to loop is what the peer sent, and only a request to
\* join asks for a seat.
FromPeer ==
    /\ \A i \in DOMAIN handles : handles[i] \in Msgs
    /\ reader.pc = "enqueue" => reader.msg \in Msgs
    /\ handler.pc \notin {"idle", "exited"} => handler.msg \in Msgs
    /\ handler.pc = "joinRoom" => handler.msg.type = "join"

\* Before there is a session, auth messages are all that is under way.
AuthFirst ==
    session = 0 =>
        /\ \A i \in DOMAIN handles : handles[i].type = "auth"
        /\ reader.pc = "enqueue" => reader.msg.type = "auth"
        /\ handler.pc \in {"idle", "exited", "auth", "close", "reply"}
        /\ seats = {}

\* The session is set once, and nothing else is stored.
OneSession ==
    /\ handler.pc = "auth" => session = 0
    /\ handler.pc = "store" => session # 0
    /\ stored \subseteq {session} \ {0}

\* The write loop ends after done is closed, and so does OnDisconnect begin.
DoneFirst ==
    /\ writer \in {"flush", "exited"} => done
    /\ done \/ reader.pc \in {"read", "enqueue", "close"}

\* c.roomIDs is part of c.topics; until OnDisconnect, c.topics and the bus
\* differ by the topic in the handler's hand at most.
Tracked ==
    /\ \A x \in roomIDs : \E t \in topics : t.id = x
    /\ Serving =>
        /\ \A t \in topics : t \in subs \/ (handler.pc = "bus" /\ t = handler.msg.topic)
        /\ \A t \in subs : t \in topics \/ (handler.pc = "unbus" /\ t = handler.msg.topic)
        /\ handler.pc = "bus" => handler.msg.topic \in topics
        /\ handler.pc = "unbus" => handler.msg.topic \notin topics
        /\ handler.pc = "joinRoom" => handler.msg.topic \in subs

\* A quiet OnDisconnect: nobody else writes what it releases, and what is
\* left to release is what is left of its loops.
QuietRelease ==
    reader.quiet =>
        /\ ~Serving
        /\ handler.pc \in {"idle", "exited"} /\ handles = <<>>
        /\ reader.sess = session
        /\ reader.pc \in {"snapshot", "leave", "unsub"} => subs \subseteq topics
        /\ reader.pc = "unbus" => subs \subseteq topics \cup {reader.msg.topic}
        /\ reader.pc \in {"leave", "unsub", "unbus"} => reader.topics = topics
        /\ reader.pc = "leave" => seats \cap reader.rooms \subseteq reader.todo
        /\ reader.pc \in {"unsub", "unbus", "delete", "exited"}
              => seats \cap reader.rooms = {}
        /\ reader.pc \in {"delete", "exited"} => subs = {} /\ topics = {}
        /\ reader.pc = "exited" => stored = {}

Inv ==
    /\ TypeOK
    /\ FromPeer
    /\ AuthFirst
    /\ OneSession
    /\ DoneFirst
    /\ QueuedBeforeCloseIsWritten
    /\ Tracked
    /\ QuietRelease

\* Where the handle loop can be inside a handler, for the lemmas below.
HandlerPCs ==
    {"store", "close", "bus", "joinRoom", "untrack", "unbus", "reply"}

-----------------------------------------------------------------------------
(* The channel to the write loop.                                          *)

\* What SendServerMessage may do: the channel stays within its capacity, done
\* stays closed, and a message sent after the close is marked late.
LEMMA SendEffect ==
    ASSUME TypeOK, SendServerMessage
    PROVE  /\ send' \in Seq({"early", "late"}) /\ Len(send') <= SendCap
           /\ done' \in BOOLEAN
           /\ done => done'
           /\ done /\ (\A i \in DOMAIN send : send[i] = "late")
                => \A i \in DOMAIN send' : send'[i] = "late"
  <1>1. CASE /\ Len(send) < SendCap
             /\ send' = Append(send, IF done THEN "late" ELSE "early")
             /\ UNCHANGED done
    <2> DEFINE e == IF done THEN "late" ELSE "early"
    <2>1. e \in {"early", "late"} /\ (done => e = "late")
      OBVIOUS
    <2> HIDE DEF e
    <2>2. send \in Seq({"early", "late"}) /\ send' = Append(send, e)
      BY <1>1 DEF TypeOK, e
    <2>3. /\ send' \in Seq({"early", "late"}) /\ Len(send') = Len(send) + 1
          /\ DOMAIN send' = 1..(Len(send) + 1)
          /\ \A i \in 1..Len(send) : send'[i] = send[i]
          /\ send'[Len(send) + 1] = e
          /\ Len(send) \in Nat /\ DOMAIN send = 1..Len(send)
      BY <2>1, <2>2
    <2>4. done' \in BOOLEAN /\ (done => done')
      BY <1>1 DEF TypeOK
    <2>5. Len(send') <= SendCap
      BY <1>1, <2>3, CapAssumption
    <2>6. ASSUME done, \A i \in DOMAIN send : send[i] = "late", NEW i \in DOMAIN send'
          PROVE  send'[i] = "late"
      BY <2>1, <2>3, <2>6
    <2> QED BY <2>3, <2>4, <2>5, <2>6
  <1>2. CASE done /\ UNCHANGED <<send, done>>
    BY <1>2 DEF TypeOK
  <1>3. CASE Len(send) = SendCap /\ ~done /\ done' = TRUE /\ UNCHANGED send
    BY <1>3 DEF TypeOK
  <1> QED BY <1>1, <1>2, <1>3 DEF SendServerMessage

-----------------------------------------------------------------------------
(* Invariance.                                                             *)

\* The placeholder for no message is one.
LEMMA NoMessageIsMessage == NoMessage \in Message
  BY DEF NoMessage, Message, PersonalTopic, Topic

\* A connection begins with its personal topic and nothing else.
LEMMA InitInv == Init => Inv
  <1> SUFFICES ASSUME Init PROVE Inv
    OBVIOUS
  <1>1. TypeOK
    <2>1. 0 \in 0..MaxSessions /\ HandleCap >= 0 /\ SendCap >= 0
      BY CapAssumption, MaxSessionsAssumption
    <2>2. handles \in Seq(Message) /\ send \in Seq({"early", "late"})
          /\ Len(handles) = 0 /\ Len(send) = 0
      BY DEF Init
    <2>3. reader \in ReaderState /\ handler \in HandlerState
      BY <2>1, NoMessageIsMessage DEF Init, ReaderState, HandlerState
    <2>4. PersonalTopic \in Topic
      BY DEF PersonalTopic, Topic
    <2> QED BY <2>1, <2>2, <2>3, <2>4 DEF Init, TypeOK
  <1> QED
    BY <1>1 DEF Init, Inv, FromPeer, AuthFirst, OneSession, DoneFirst, Tracked,
       QueuedBeforeCloseIsWritten, QuietRelease, Serving

\* What every step keeps that leaves the fields and both loops alone.
LEMMA FrameInv ==
    ASSUME Inv,
           UNCHANGED <<handles, session, topics, roomIDs, subs, stored, reader,
                       handler>>,
           seats' \subseteq seats
    PROVE  FromPeer' /\ AuthFirst' /\ OneSession' /\ Tracked' /\ QuietRelease'
  <1>1. FromPeer' /\ OneSession' /\ Tracked'
    BY DEF Inv, FromPeer, OneSession, Tracked, Serving
  <1>2. AuthFirst'
    BY DEF Inv, AuthFirst
  <1>3. QuietRelease'
    BY DEF Inv, QuietRelease, Serving
  <1> QED BY <1>1, <1>2, <1>3

\* Frames the read loop answers itself, refused messages, and events.
LEMMA SendInv ==
    ASSUME Inv, SendServerMessage,
           UNCHANGED <<handles, conn, fields, world, reader, handler, aside>>
    PROVE  Inv'
  <1>1. UNCHANGED <<handles, conn, session, topics, roomIDs, subs, stored, seats,
                    reader, handler, writer, gateway>>
    BY DEF fields, world, aside
  <1>2. TypeOK'
    BY <1>1, SendEffect DEF Inv, TypeOK
  <1>3. DoneFirst' /\ QueuedBeforeCloseIsWritten'
    BY <1>1, SendEffect DEF Inv, DoneFirst, QueuedBeforeCloseIsWritten
  <1>4. seats' \subseteq seats
    BY <1>1
  <1> QED BY <1>1, <1>2, <1>3, <1>4, FrameInv DEF Inv

\* The write loop, an eviction, and the gateway's shutdown.
LEMMA OutsideInv ==
    ASSUME Inv,
           \/ Write \/ WriteFails \/ WriterDone \/ Flushed \/ Stop \/ ShutdownAll
           \/ \E r \in Room : Evict(r)
    PROVE  Inv'
  <1>1. /\ UNCHANGED <<handles, session, topics, roomIDs, subs, stored, reader,
                       handler>>
        /\ seats' \subseteq seats
    BY DEF Write, WriteFails, WriterDone, Flushed, Stop, ShutdownAll, Evict,
           fields, world, aside
  <1>2. /\ send' \in Seq({"early", "late"}) /\ Len(send') <= SendCap
        /\ send' # send => send # <<>> /\ send' = Tail(send) /\ writer \in {"loop", "flush"}
    BY CapAssumption
       DEF Inv, TypeOK, Write, WriteFails, WriterDone, Flushed, Stop,
           ShutdownAll, Evict, aside
  <1>3. /\ done' \in BOOLEAN /\ conn' \in BOOLEAN
        /\ writer' \in {"loop", "flush", "exited", "failed"}
        /\ gateway' \in {"serving", "waiting", "down"}
        /\ done => done'
        /\ writer' = writer \/ writer' = "failed"
           \/ (done /\ writer' = "flush") \/ (writer = "flush" /\ send' = <<>>)
    BY DEF Inv, TypeOK, Write, WriteFails, WriterDone, Flushed, Stop,
           ShutdownAll, Evict, aside
  <1>4. TypeOK'
    BY <1>1, <1>2, <1>3 DEF Inv, TypeOK
  <1>5. DoneFirst'
    BY <1>1, <1>3 DEF Inv, DoneFirst
  <1>6. QueuedBeforeCloseIsWritten'
    <2>1. CASE writer' = "exited" /\ writer = "exited"
      BY <1>2, <2>1 DEF Inv, QueuedBeforeCloseIsWritten
    <2>2. CASE send' = <<>>
      BY <2>2 DEF QueuedBeforeCloseIsWritten
    <2> QED BY <1>3, <2>1, <2>2 DEF QueuedBeforeCloseIsWritten
  <1> QED BY <1>1, <1>4, <1>5, <1>6, FrameInv DEF Inv

\* The read loop up to its deferred Close.
LEMMA ReadInv ==
    ASSUME Inv,
           \/ ReadAndReply \/ ReadFails \/ Enqueue \/ Quit \/ DeferredClose
           \/ \E m \in Msgs : ReadMessage(m)
    PROVE  Inv'
  <1>1. CASE ReadAndReply
    BY <1>1, SendInv DEF ReadAndReply
  <1>2. ASSUME NEW m \in Msgs, ReadMessage(m)
        PROVE  Inv'
    <2>1. CASE IsAuthenticated \/ m.type = "auth"
      <3>1. /\ reader.pc = "read"
            /\ reader' = [reader EXCEPT !.pc = "enqueue", !.msg = m]
            /\ UNCHANGED <<handles, send, done, conn, session, topics, roomIDs,
                           subs, stored, seats, handler, writer, gateway>>
        BY <1>2, <2>1 DEF ReadMessage, fields, world, aside
      <3>2. reader' \in ReaderState /\ reader'.pc = "enqueue" /\ reader'.msg = m
            /\ reader'.quiet = reader.quiet
        BY <3>1, MsgsAssumption DEF Inv, TypeOK, ReaderState
      <3>3. TypeOK' /\ FromPeer' /\ AuthFirst' /\ OneSession'
        BY <2>1, <3>1, <3>2 DEF Inv, TypeOK, FromPeer, AuthFirst, OneSession,
           IsAuthenticated
      <3>4. DoneFirst' /\ QueuedBeforeCloseIsWritten' /\ Tracked'
        BY <3>1, <3>2 DEF Inv, DoneFirst, QueuedBeforeCloseIsWritten, Tracked, Serving
      <3>5. QuietRelease'
        BY <3>1, <3>2 DEF Inv, QuietRelease, Serving
      <3> QED BY <3>3, <3>4, <3>5 DEF Inv
    <2>2. CASE ~(IsAuthenticated \/ m.type = "auth")
      BY <1>2, <2>2, SendInv DEF ReadMessage
    <2> QED BY <2>1, <2>2
  <1>3. CASE Enqueue
    <2>1. /\ reader.pc = "enqueue" /\ Len(handles) < HandleCap
          /\ handles' = Append(handles, reader.msg)
          /\ reader' = [reader EXCEPT !.pc = "read", !.msg = NoMessage]
          /\ UNCHANGED <<send, done, conn, session, topics, roomIDs,
                         subs, stored, seats, handler, writer, gateway>>
      BY <1>3 DEF Enqueue, fields, world, aside
    <2>2. reader' \in ReaderState /\ reader'.pc = "read" /\ reader'.quiet = reader.quiet
      BY <2>1, NoMessageIsMessage DEF Inv, TypeOK, ReaderState
    <2>3. reader.msg \in Message /\ handles \in Seq(Message)
      BY DEF Inv, TypeOK, ReaderState
    <2>4. /\ handles' \in Seq(Message) /\ Len(handles') <= HandleCap
          /\ DOMAIN handles' = 1..(Len(handles) + 1)
          /\ \A i \in DOMAIN handles : handles'[i] = handles[i]
          /\ handles'[Len(handles) + 1] = reader.msg
          /\ Len(handles) \in Nat /\ DOMAIN handles = 1..Len(handles)
      BY <2>1, <2>3, CapAssumption
    <2>5. TypeOK' /\ OneSession' /\ DoneFirst' /\ QueuedBeforeCloseIsWritten'
      BY <2>1, <2>2, <2>4 DEF Inv, TypeOK, OneSession, DoneFirst,
         QueuedBeforeCloseIsWritten
    <2>6. \A i \in DOMAIN handles' : i \in DOMAIN handles \/ i = Len(handles) + 1
      BY <2>4
    <2>7. FromPeer' /\ AuthFirst'
      BY <2>1, <2>2, <2>4, <2>6 DEF Inv, FromPeer, AuthFirst
    <2>8. Tracked' /\ QuietRelease'
      BY <2>1, <2>2 DEF Inv, Tracked, QuietRelease, Serving
    <2> QED BY <2>5, <2>7, <2>8 DEF Inv
  <1>4. CASE ReadFails \/ Quit
    <2>1. /\ reader.pc \in {"read", "enqueue"}
          /\ \/ reader' = [reader EXCEPT !.pc = "close"]
             \/ reader' = [reader EXCEPT !.pc = "close", !.msg = NoMessage]
          /\ UNCHANGED <<handles, send, done, conn, session, topics, roomIDs,
                         subs, stored, seats, handler, writer, gateway>>
      BY <1>4 DEF ReadFails, Quit, fields, world, aside
    <2>2. reader' \in ReaderState /\ reader'.pc = "close" /\ reader'.quiet = reader.quiet
      BY <2>1, NoMessageIsMessage DEF Inv, TypeOK, ReaderState
    <2>3. TypeOK' /\ FromPeer' /\ AuthFirst' /\ OneSession'
      BY <2>1, <2>2 DEF Inv, TypeOK, FromPeer, AuthFirst, OneSession
    <2>4. DoneFirst' /\ QueuedBeforeCloseIsWritten' /\ Tracked' /\ QuietRelease'
      BY <2>1, <2>2 DEF Inv, DoneFirst, QueuedBeforeCloseIsWritten, Tracked,
         QuietRelease, Serving
    <2> QED BY <2>3, <2>4 DEF Inv
  <1>5. CASE DeferredClose
    <2>1. /\ reader.pc = "close" /\ done' = TRUE
          /\ reader' = [reader EXCEPT !.pc = "session"]
          /\ UNCHANGED <<handles, send, conn, session, topics, roomIDs,
                         subs, stored, seats, handler, writer, gateway>>
      BY <1>5 DEF DeferredClose, fields, world, aside
    <2>2. reader' \in ReaderState /\ reader'.pc = "session" /\ reader'.quiet = reader.quiet
      BY <2>1 DEF Inv, TypeOK, ReaderState
    <2>3. TypeOK' /\ FromPeer' /\ AuthFirst' /\ OneSession'
      BY <2>1, <2>2 DEF Inv, TypeOK, FromPeer, AuthFirst, OneSession
    <2>4. DoneFirst' /\ QueuedBeforeCloseIsWritten' /\ Tracked' /\ QuietRelease'
      BY <2>1, <2>2 DEF Inv, DoneFirst, QueuedBeforeCloseIsWritten, Tracked,
         QuietRelease, Serving
    <2> QED BY <2>3, <2>4 DEF Inv
  <1> QED BY <1>1, <1>2, <1>3, <1>4, <1>5

\* What OnDisconnect leaves alone: the handle loop, and what is queued.
LEMMA DisconnectFrame ==
    ASSUME Inv, OnDisconnect
    PROVE  /\ UNCHANGED <<handles, send, done, conn, session, handler, writer, gateway>>
           /\ ~(Serving' /\ reader' # reader)
           /\ reader.pc \notin {"read", "enqueue", "close"}
           /\ reader'.pc \notin {"read", "enqueue", "close", "session"}
           /\ reader' \in ReaderState
           /\ reader.pc # "session" => reader'.quiet = reader.quiet /\ reader'.sess = reader.sess
  <1>1. CASE GetSession
    BY <1>1 DEF GetSession, fields, world, aside, Inv, TypeOK, ReaderState, Serving
  <1>2. CASE Snapshot
    BY <1>2 DEF Snapshot, fields, world, aside, Inv, TypeOK, ReaderState, Serving
  <1>3. CASE LeaveNext
    <2>1. CASE reader.todo = {}
      BY <1>3, <2>1 DEF LeaveNext, fields, world, aside, Inv, TypeOK, ReaderState, Serving
    <2>2. CASE reader.todo # {}
      BY <1>3, <2>2 DEF LeaveNext, fields, world, aside, Inv, TypeOK, ReaderState, Serving
    <2> QED BY <2>1, <2>2
  <1>4. CASE UnsubNext
    <2>1. CASE reader.topics = {}
      BY <1>4, <2>1 DEF UnsubNext, fields, world, aside, Inv, TypeOK, ReaderState, Serving
    <2>2. ASSUME NEW t \in reader.topics,
                 reader' = [reader EXCEPT !.pc = "unbus", !.msg.topic = t, !.topics = @ \ {t}]
          PROVE  /\ reader'.pc = "unbus" /\ reader'.quiet = reader.quiet
                 /\ reader'.sess = reader.sess /\ reader' \in ReaderState
      BY <2>2 DEF Inv, TypeOK, ReaderState, Message
    <2> QED BY <1>4, <2>1, <2>2 DEF UnsubNext, fields, world, aside, Serving
  <1>5. CASE UnbusNext
    BY <1>5 DEF UnbusNext, fields, world, aside, Inv, TypeOK, ReaderState, Serving
  <1>6. CASE DeleteSession
    BY <1>6 DEF DeleteSession, fields, world, aside, Inv, TypeOK, ReaderState, Serving
  <1> QED BY <1>1, <1>2, <1>3, <1>4, <1>5, <1>6 DEF OnDisconnect

\* OnDisconnect.
LEMMA DisconnectInv ==
    ASSUME Inv, OnDisconnect
    PROVE  Inv'
  <1>1. /\ UNCHANGED <<handles, send, done, conn, session, handler, writer, gateway>>
        /\ reader.pc \notin {"read", "enqueue", "close"}
        /\ reader'.pc \notin {"read", "enqueue", "close", "session"}
        /\ reader' \in ReaderState
        /\ ~Serving'
    BY DisconnectFrame DEF Serving
  <1>2. /\ topics' \subseteq topics /\ roomIDs' \subseteq roomIDs /\ subs' \subseteq subs
        /\ stored' \subseteq stored /\ seats' \subseteq seats
    BY DEF OnDisconnect, GetSession, Snapshot, LeaveNext, UnsubNext, UnbusNext,
           DeleteSession, fields, world
  <1>3. TypeOK'
    BY <1>1, <1>2 DEF Inv, TypeOK
  <1>4. FromPeer' /\ AuthFirst' /\ OneSession' /\ DoneFirst' /\ QueuedBeforeCloseIsWritten'
    BY <1>1, <1>2 DEF Inv, FromPeer, AuthFirst, OneSession, DoneFirst,
       QueuedBeforeCloseIsWritten
  <1>5. Tracked'
    <2>1. CASE topics' = topics
      BY <1>1, <1>2, <2>1 DEF Inv, Tracked
    <2>2. ASSUME NEW t \in Topic, topics' = topics \ {t}, roomIDs' = roomIDs \ {t.id}
          PROVE  Tracked'
      BY <1>1, <2>2 DEF Inv, Tracked
    <2>3. topics' = topics \/ \E t \in Topic : topics' = topics \ {t} /\ roomIDs' = roomIDs \ {t.id}
      BY DEF OnDisconnect, GetSession, Snapshot, LeaveNext, UnsubNext, UnbusNext,
             DeleteSession, fields, Inv, TypeOK, ReaderState
    <2> QED BY <2>1, <2>2, <2>3
  <1>6. QuietRelease'
    <2>1. CASE GetSession
      BY <1>1, <2>1 DEF GetSession, Inv, TypeOK, ReaderState, QuietRelease, Tracked,
         Serving, fields, world
    <2>2. CASE Snapshot
      BY <1>1, <2>2 DEF Snapshot, Inv, TypeOK, ReaderState, QuietRelease, AuthFirst,
         Serving, fields, world
    <2>3. CASE LeaveNext
      <3>1. CASE reader.todo = {}
        BY <1>1, <2>3, <3>1 DEF LeaveNext, Inv, TypeOK, ReaderState, QuietRelease,
           Serving, fields
      <3>2. CASE reader.todo # {}
        BY <1>1, <2>3, <3>2 DEF LeaveNext, Inv, TypeOK, ReaderState, QuietRelease,
           Serving, fields
      <3> QED BY <3>1, <3>2
    <2>4. CASE UnsubNext
      <3>1. CASE reader.topics = {}
        BY <1>1, <2>4, <3>1 DEF UnsubNext, Inv, TypeOK, ReaderState, QuietRelease,
           Serving, world
      <3>2. CASE reader.topics # {}
        <4>1. PICK t \in reader.topics :
                 /\ topics' = topics \ {t}
                 /\ reader' = [reader EXCEPT !.pc = "unbus", !.msg.topic = t,
                                             !.topics = @ \ {t}]
          BY <2>4, <3>2 DEF UnsubNext
        <4>2. /\ reader.pc = "unsub" /\ reader'.pc = "unbus"
              /\ reader'.msg.topic = t /\ reader'.topics = reader.topics \ {t}
              /\ reader'.quiet = reader.quiet /\ reader'.sess = reader.sess
              /\ reader'.rooms = reader.rooms
          BY <2>4, <4>1 DEF UnsubNext, Inv, TypeOK, ReaderState, Message
        <4>3. UNCHANGED <<subs, seats, stored>>
          BY <2>4 DEF UnsubNext, world
        <4> QED BY <1>1, <4>1, <4>2, <4>3 DEF Inv, QuietRelease, Serving
      <3> QED BY <3>1, <3>2
    <2>5. CASE UnbusNext
      BY <1>1, <2>5 DEF UnbusNext, Inv, TypeOK, ReaderState, QuietRelease, Serving, fields
    <2>6. CASE DeleteSession
      BY <1>1, <2>6 DEF DeleteSession, Inv, TypeOK, ReaderState, QuietRelease,
         OneSession, Serving, fields
    <2> QED BY <2>1, <2>2, <2>3, <2>4, <2>5, <2>6 DEF OnDisconnect
  <1> QED BY <1>3, <1>4, <1>5, <1>6 DEF Inv

\* Dispatch takes a message to the handler it names.
LEMMA StartOf ==
    ASSUME NEW m \in Message
    PROVE  /\ Start(m) \in {"auth", "track", "untrack", "leaveRoom", "reply"}
           /\ Start(m) = "auth" => session = 0
           /\ m.type = "auth" => Start(m) \in {"auth", "reply"}
  BY DEF Start, Message, IsAuthenticated

\* What a step of the handle loop keeps that moves only its program counter.
LEMMA HandlerFrame ==
    ASSUME Inv, handler' \in HandlerState,
           UNCHANGED <<handles, conn, reader, writer, gateway>>,
           handler.pc \notin {"idle", "exited"},
           done' \in BOOLEAN, done => done',
           send' \in Seq({"early", "late"}), Len(send') <= SendCap,
           done /\ (\A i \in DOMAIN send : send[i] = "late")
             => \A i \in DOMAIN send' : send'[i] = "late",
           session' \in 0..MaxSessions,
           topics' \in SUBSET Topic, subs' \in SUBSET Topic,
           roomIDs' \in SUBSET (Room \cup {Self}), seats' \in SUBSET (Room \cup {Self}),
           stored' \in SUBSET (0..MaxSessions)
    PROVE  TypeOK' /\ DoneFirst' /\ QueuedBeforeCloseIsWritten' /\ QuietRelease'
  <1>1. TypeOK' /\ DoneFirst'
    BY DEF Inv, TypeOK, DoneFirst
  <1>2. QueuedBeforeCloseIsWritten'
    BY DEF Inv, DoneFirst, QueuedBeforeCloseIsWritten
  <1>3. QuietRelease'
    BY DEF Inv, QuietRelease
  <1> QED BY <1>1, <1>2, <1>3

\* The handle loop between two messages.
LEMMA LoopInv ==
    ASSUME Inv, Dispatch \/ HandlerExit
    PROVE  Inv'
  <1>1. CASE Dispatch
    <2> DEFINE m == Head(handles)
    <2>1. /\ handler.pc = "idle" /\ handles # <<>> /\ handles' = Tail(handles)
          /\ handler' = [pc |-> Start(m), msg |-> m]
          /\ UNCHANGED <<send, done, conn, session, topics, roomIDs, subs, stored,
                         seats, reader, writer, gateway>>
      BY <1>1 DEF Dispatch, fields, world, aside
    <2>2. /\ handles \in Seq(Message) /\ m = handles[1] /\ 1 \in DOMAIN handles
          /\ handles' \in Seq(Message) /\ Len(handles') <= HandleCap
          /\ \A i \in DOMAIN handles' : i + 1 \in DOMAIN handles /\ handles'[i] = handles[i + 1]
      BY <2>1, CapAssumption DEF Inv, TypeOK
    <2>3. m \in Message /\ m \in Msgs /\ (session = 0 => m.type = "auth")
      BY <2>2, MsgsAssumption DEF Inv, FromPeer, AuthFirst
    <2> HIDE DEF m
    <2>4. /\ handler' \in HandlerState /\ handler'.msg = m
          /\ handler'.pc \in {"auth", "track", "untrack", "leaveRoom", "reply"}
          /\ handler'.pc = "auth" => session = 0
          /\ session = 0 => handler'.pc \in {"auth", "reply"}
      BY <2>1, <2>3, StartOf DEF HandlerState
    <2>5. TypeOK' /\ DoneFirst' /\ QueuedBeforeCloseIsWritten'
      BY <2>1, <2>2, <2>4 DEF Inv, TypeOK, DoneFirst, QueuedBeforeCloseIsWritten
    <2>6. FromPeer' /\ AuthFirst' /\ OneSession'
      BY <2>1, <2>2, <2>3, <2>4 DEF Inv, FromPeer, AuthFirst, OneSession
    <2>7. Tracked' /\ QuietRelease'
      BY <2>1, <2>4 DEF Inv, Tracked, QuietRelease, Serving
    <2> QED BY <2>5, <2>6, <2>7 DEF Inv
  <1>2. CASE HandlerExit
    <2>1. /\ handler.pc = "idle" /\ handler' = [handler EXCEPT !.pc = "exited"]
          /\ UNCHANGED <<handles, send, done, conn, session, topics, roomIDs, subs,
                         stored, seats, reader, writer, gateway>>
      BY <1>2 DEF HandlerExit, Goto, fields, world, aside
    <2>2. handler' \in HandlerState /\ handler'.pc = "exited"
      BY <2>1 DEF Inv, TypeOK, HandlerState
    <2>3. TypeOK' /\ FromPeer' /\ AuthFirst' /\ OneSession' /\ DoneFirst'
      BY <2>1, <2>2 DEF Inv, TypeOK, FromPeer, AuthFirst, OneSession, DoneFirst
    <2>4. QueuedBeforeCloseIsWritten' /\ Tracked' /\ QuietRelease'
      BY <2>1, <2>2 DEF Inv, QueuedBeforeCloseIsWritten, Tracked, QuietRelease, Serving
    <2> QED BY <2>3, <2>4 DEF Inv
  <1> QED BY <1>1, <1>2

\* The handlers and the authenticator.
LEMMA HandlerInv ==
    ASSUME Inv, HandlerStep
    PROVE  Inv'
  <1>1. ASSUME NEW pc \in HandlerPCs, Goto(pc)
        PROVE  handler' \in HandlerState /\ handler'.pc = pc /\ handler'.msg = handler.msg
    BY <1>1 DEF Goto, Inv, TypeOK, HandlerState, HandlerPCs
  <1>2. ASSUME Finish
        PROVE  handler' \in HandlerState /\ handler'.pc = "idle"
    BY <1>2, NoMessageIsMessage DEF Finish, HandlerState
  <1>3. handler.msg \in Message /\ handler.msg.topic \in Topic
        /\ handler.msg.topic.id \in Room \cup {Self}
    BY DEF Inv, TypeOK, HandlerState, Message, Topic
  <1>4. CASE AuthAccepted
    <2>1. /\ handler.pc = "auth" /\ session = 0 /\ session' = session + 1
          /\ session' \in 0..MaxSessions /\ session' # 0
          /\ UNCHANGED <<handles, send, done, conn, topics, roomIDs, subs, stored,
                         seats, reader, writer, gateway>>
          /\ handler' \in HandlerState /\ handler'.pc = "store"
          /\ handler'.msg = handler.msg
      BY <1>1, <1>4, MaxSessionsAssumption
         DEF AuthAccepted, HandlerPCs, world, aside, Inv, TypeOK, OneSession
    <2>2. TypeOK' /\ DoneFirst' /\ QueuedBeforeCloseIsWritten' /\ QuietRelease'
      BY <2>1, HandlerFrame DEF Inv, TypeOK
    <2>3. FromPeer' /\ AuthFirst' /\ OneSession' /\ Tracked'
      BY <2>1 DEF Inv, FromPeer, AuthFirst, OneSession, Tracked, Serving
    <2> QED BY <2>2, <2>3 DEF Inv
  <1>5. CASE AuthRefused \/ CloseRefused \/ Reply
    <2>1. /\ handler.pc \in {"auth", "close", "reply"}
          /\ handler' \in HandlerState
          /\ \/ handler'.pc = "idle"
             \/ handler'.pc = "close" /\ handler'.msg = handler.msg
          /\ UNCHANGED <<handles, conn, session, topics, roomIDs, subs, stored,
                         seats, reader, writer, gateway>>
      BY <1>1, <1>2, <1>5
         DEF AuthRefused, CloseRefused, Reply, HandlerPCs, fields, world, aside
    <2>2. /\ send' \in Seq({"early", "late"}) /\ Len(send') <= SendCap
          /\ done' \in BOOLEAN /\ (done => done')
          /\ done /\ (\A i \in DOMAIN send : send[i] = "late")
               => \A i \in DOMAIN send' : send'[i] = "late"
      <3>1. CASE SendServerMessage
        BY <3>1, SendEffect DEF Inv
      <3>2. CASE CloseRefused
        BY <3>2 DEF CloseRefused, Inv, TypeOK
      <3> QED BY <1>5, <3>1, <3>2 DEF AuthRefused, Reply
    <2>3. TypeOK' /\ DoneFirst' /\ QueuedBeforeCloseIsWritten' /\ QuietRelease'
      BY <2>1, <2>2, HandlerFrame DEF Inv, TypeOK
    <2>4. FromPeer' /\ AuthFirst' /\ OneSession' /\ Tracked'
      BY <2>1 DEF Inv, FromPeer, AuthFirst, OneSession, Tracked, Serving
    <2> QED BY <2>3, <2>4 DEF Inv
  <1>6. CASE StoreSession
    <2>1. /\ handler.pc = "store" /\ stored' = stored \cup {session}
          /\ UNCHANGED <<handles, send, done, conn, session, topics, roomIDs, subs,
                         seats, reader, writer, gateway>>
          /\ handler' \in HandlerState /\ handler'.pc = "reply"
          /\ handler'.msg = handler.msg
      BY <1>1, <1>6 DEF StoreSession, HandlerPCs, fields, aside
    <2>2. TypeOK' /\ DoneFirst' /\ QueuedBeforeCloseIsWritten' /\ QuietRelease'
      BY <2>1, HandlerFrame DEF Inv, TypeOK
    <2>3. FromPeer' /\ AuthFirst' /\ OneSession' /\ Tracked'
      BY <2>1 DEF Inv, FromPeer, AuthFirst, OneSession, Tracked, Serving
    <2> QED BY <2>2, <2>3 DEF Inv
  <1>7. ASSUME AfterSubscribe
        PROVE  /\ handler' \in HandlerState
               /\ \/ handler'.pc = "idle"
                  \/ /\ handler'.pc = "joinRoom" /\ handler'.msg = handler.msg
                     /\ handler.msg.type = "join"
    BY <1>1, <1>2, <1>7 DEF AfterSubscribe, HandlerPCs
  <1>8. CASE Track
    <2> DEFINE t == handler.msg.topic
    <2>1. /\ handler.pc = "track" /\ topics' = topics \cup {t}
          /\ roomIDs' = roomIDs \/ (roomIDs' = roomIDs \cup {t.id})
          /\ UNCHANGED <<handles, send, done, conn, session, subs, stored,
                         seats, reader, writer, gateway>>
          /\ handler' \in HandlerState
          /\ \/ t \in topics /\ handler'.pc = "idle"
             \/ /\ t \in topics /\ handler'.pc = "joinRoom" /\ handler'.msg = handler.msg
                /\ handler.msg.type = "join"
             \/ t \notin topics /\ handler'.pc = "bus" /\ handler'.msg = handler.msg
      BY <1>1, <1>7, <1>8 DEF Track, HandlerPCs, world, aside
    <2> HIDE DEF t
    <2>2. t = handler.msg.topic
      BY DEF t
    <2>3. TypeOK' /\ DoneFirst' /\ QueuedBeforeCloseIsWritten' /\ QuietRelease'
      BY <1>3, <2>1, <2>2, HandlerFrame DEF Inv, TypeOK
    <2>4. FromPeer' /\ AuthFirst' /\ OneSession'
      BY <2>1 DEF Inv, FromPeer, AuthFirst, OneSession
    <2>5. Tracked'
      BY <2>1, <2>2 DEF Inv, Tracked, Serving
    <2> QED BY <2>3, <2>4, <2>5 DEF Inv
  <1>9. CASE Bus
    <2>1. /\ handler.pc = "bus" /\ subs' = subs \cup {handler.msg.topic}
          /\ UNCHANGED <<handles, send, done, conn, session, topics, roomIDs, stored,
                         seats, reader, writer, gateway>>
          /\ handler' \in HandlerState
          /\ \/ handler'.pc = "idle"
             \/ /\ handler'.pc = "joinRoom" /\ handler'.msg = handler.msg
                /\ handler.msg.type = "join"
      BY <1>7, <1>9 DEF Bus, fields, aside
    <2>2. TypeOK' /\ DoneFirst' /\ QueuedBeforeCloseIsWritten' /\ QuietRelease'
      BY <1>3, <2>1, HandlerFrame DEF Inv, TypeOK
    <2>3. FromPeer' /\ AuthFirst' /\ OneSession' /\ Tracked'
      BY <2>1 DEF Inv, FromPeer, AuthFirst, OneSession, Tracked, Serving
    <2> QED BY <2>2, <2>3 DEF Inv
  <1>10. CASE JoinRoom \/ LeaveRoom
    <2>1. /\ handler.pc \in {"joinRoom", "leaveRoom"}
          /\ seats' \in SUBSET (Room \cup {Self})
          /\ UNCHANGED <<handles, send, done, conn, session, topics, roomIDs, subs,
                         stored, reader, writer, gateway>>
          /\ handler' \in HandlerState /\ handler'.msg = handler.msg
          /\ handler'.pc \in {"reply", "untrack"}
      BY <1>1, <1>3, <1>10
         DEF JoinRoom, LeaveRoom, HandlerPCs, fields, aside, Inv, TypeOK
    <2>2. TypeOK' /\ DoneFirst' /\ QueuedBeforeCloseIsWritten' /\ QuietRelease'
      BY <2>1, HandlerFrame DEF Inv, TypeOK
    <2>3. FromPeer' /\ AuthFirst' /\ OneSession' /\ Tracked'
      BY <2>1 DEF Inv, FromPeer, AuthFirst, OneSession, Tracked, Serving
    <2> QED BY <2>2, <2>3 DEF Inv
  <1>11. CASE Untrack
    <2>1. /\ handler.pc = "untrack" /\ topics' = topics \ {handler.msg.topic}
          /\ roomIDs' = roomIDs \ {handler.msg.topic.id}
          /\ UNCHANGED <<handles, send, done, conn, session, subs, stored,
                         seats, reader, writer, gateway>>
          /\ handler' \in HandlerState /\ handler'.pc = "unbus"
          /\ handler'.msg = handler.msg
      BY <1>1, <1>11 DEF Untrack, HandlerPCs, world, aside
    <2>2. TypeOK' /\ DoneFirst' /\ QueuedBeforeCloseIsWritten' /\ QuietRelease'
      BY <2>1, HandlerFrame DEF Inv, TypeOK
    <2>3. FromPeer' /\ AuthFirst' /\ OneSession'
      BY <2>1 DEF Inv, FromPeer, AuthFirst, OneSession
    <2>4. Tracked'
      BY <2>1 DEF Inv, Tracked, Serving
    <2> QED BY <2>2, <2>3, <2>4 DEF Inv
  <1>12. CASE Unbus
    <2>1. /\ handler.pc = "unbus" /\ subs' = subs \ {handler.msg.topic}
          /\ UNCHANGED <<handles, send, done, conn, session, topics, roomIDs, stored,
                         seats, reader, writer, gateway>>
          /\ handler' \in HandlerState
          /\ \/ handler'.pc = "idle"
             \/ handler'.pc = "reply" /\ handler'.msg = handler.msg
      BY <1>1, <1>2, <1>12 DEF Unbus, HandlerPCs, fields, aside
    <2>2. TypeOK' /\ DoneFirst' /\ QueuedBeforeCloseIsWritten' /\ QuietRelease'
      BY <2>1, HandlerFrame DEF Inv, TypeOK
    <2>3. FromPeer' /\ AuthFirst' /\ OneSession' /\ Tracked'
      BY <2>1 DEF Inv, FromPeer, AuthFirst, OneSession, Tracked, Serving
    <2> QED BY <2>2, <2>3 DEF Inv
  <1> QED BY <1>4, <1>5, <1>6, <1>8, <1>9, <1>10, <1>11, <1>12 DEF HandlerStep

\* Every step keeps the invariant.
LEMMA NextInv ==
    ASSUME Inv, [Next]_vars
    PROVE  Inv'
  <1>1. CASE UNCHANGED vars
    BY <1>1 DEF vars, fields, world, aside, Inv, TypeOK, FromPeer, AuthFirst,
       OneSession, DoneFirst, QueuedBeforeCloseIsWritten, Tracked, QuietRelease,
       Serving
  <1>2. CASE Send
    BY <1>2, SendInv DEF Send
  <1>3. CASE Next
    BY <1>2, <1>3, OutsideInv, ReadInv, DisconnectInv, LoopInv, HandlerInv
       DEF Next, ReaderStep
  <1> QED BY <1>1, <1>3

\* The invariant holds in every reachable state.
THEOREM ConnectionInvariance == Spec => []Inv
  BY InitInv, NextInv, PTL DEF Spec

-----------------------------------------------------------------------------
(* The theorems.                                                           *)

\* Type correctness; the channels stay within their capacities (client.go:36-84).
THEOREM ConnectionTypeCorrect == Spec => []TypeOK
  <1>1. Inv => TypeOK
    BY DEF Inv
  <1> QED BY <1>1, ConnectionInvariance, PTL

(***************************************************************************)
(* The check of the read loop protects the handle loop, whatever is queued *)
(* between them: no handler uses a nil session (client.go:282,             *)
(* handlers/room.go:48, 71, 91).                                           *)
(***************************************************************************)
THEOREM AuthBeforeRequests == Spec => []NoRequestBeforeAuth
  <1>1. Inv => NoRequestBeforeAuth
    BY DEF Inv, AuthFirst, NoRequestBeforeAuth, IsAuthenticated
  <1> QED BY <1>1, ConnectionInvariance, PTL

(***************************************************************************)
(* A write loop that ends without a write error has written what was       *)
(* queued before the close (client.go:296-333).                            *)
(***************************************************************************)
THEOREM FlushIsComplete == Spec => []QueuedBeforeCloseIsWritten
  <1>1. Inv => QueuedBeforeCloseIsWritten
    BY DEF Inv
  <1> QED BY <1>1, ConnectionInvariance, PTL

(***************************************************************************)
(* OnDisconnect releases the session, the topics and the tracked rooms of  *)
(* a connection whose handle loop is at rest (dispatcher.go:143-170).      *)
(***************************************************************************)
THEOREM QuietDisconnectIsComplete == Spec => []QuietDisconnectReleases
  <1>1. Inv => QuietDisconnectReleases
    BY DEF Inv, QuietRelease, Tracked, QuietDisconnectReleases
  <1> QED BY <1>1, ConnectionInvariance, PTL

\* Only mgr.JoinRoom gives a seat.
LEMMA OnlyJoinSeats ==
    ASSUME Next, ~JoinRoom
    PROVE  seats' \subseteq seats
  <1>1. CASE ReaderStep
    BY <1>1 DEF ReaderStep, Enqueue, Quit, DeferredClose, OnDisconnect, GetSession,
       Snapshot, LeaveNext, UnsubNext, UnbusNext, DeleteSession, world
  <1>2. CASE HandlerStep
    BY <1>2 DEF HandlerStep, AuthAccepted, AuthRefused, CloseRefused, StoreSession,
       Track, Bus, LeaveRoom, Untrack, Unbus, Reply, world
  <1> QED
    BY <1>1, <1>2 DEF Next, ReadAndReply, ReadFails, ReadMessage, Dispatch,
       HandlerExit, Write, WriteFails, WriterDone, Flushed, Send, Stop,
       ShutdownAll, Evict, world

\* The seat JoinRoom gives is in the room of a topic the bus has.
LEMMA SeatIsSubscribed ==
    ASSUME Inv, [Next]_vars, NEW r \in Room, ~done, r \in seats' \ seats
    PROVE  RoomTopic(r) \in subs
  <1>1. JoinRoom
    BY OnlyJoinSeats DEF vars, world
  <1>2. handler.pc = "joinRoom" /\ r = handler.msg.topic.id
    BY <1>1 DEF JoinRoom
  <1>3. handler.msg.topic \in subs
    BY <1>2 DEF Inv, DoneFirst, Tracked, Serving
  <1>4. handler.msg.topic.room /\ handler.msg.topic \in Topic
    BY <1>2, MsgsAssumption DEF Inv, FromPeer, Message
  <1>5. handler.msg.topic = RoomTopic(r)
    BY <1>2, <1>4 DEF Topic, RoomTopic
  <1> QED BY <1>3, <1>5

(***************************************************************************)
(* A client with an open connection is in the room's topic when it gets    *)
(* its seat, so it misses no event of the room (handlers/room.go:69-71,    *)
(* client.go:133-166).                                                     *)
(***************************************************************************)
THEOREM SubscribedWhenSeated == Spec => SubscribedBeforeSeated
  <1>1. Inv /\ [Next]_vars =>
          [\A r \in Room : ~done /\ r \in seats' \ seats => RoomTopic(r) \in subs]_vars
    BY SeatIsSubscribed
  <1> QED BY <1>1, ConnectionInvariance, PTL DEF Spec, SubscribedBeforeSeated
=============================================================================
