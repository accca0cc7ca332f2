------------------------------ MODULE Gateway ------------------------------
(***************************************************************************)
(* The gateway's life (src/gateway/gateway.go): connections are upgraded,  *)
(* registered and served while Run serves; shutdown stops the listener,    *)
(* closes the clients it finds registered and waits for the read loops.    *)
(*                                                                         *)
(* A connection is seen from here: its read loop, from the HTTP request to *)
(* the end of OnDisconnect, and its handle loop.  Module Connection has    *)
(* the inside, and module RoomManager what ShutdownAll does to the rooms.  *)
(***************************************************************************)

CONSTANT Client  \* the peers that may connect, each once

VARIABLES
    link,     \* per peer: the goroutine of handleWebSocket, then of ReadLoop
    handler,  \* per peer: the handle loop
    done,     \* per peer: Close was called
    clients,  \* g.clients
    closing,  \* the local variable clients of shutdown: still to be closed
    gateway   \* how far Run got

peerVars == <<link, handler, done>>
vars == <<link, handler, done, clients, closing, gateway>>

Init ==
    /\ link = [c \in Client |-> "none"]
    /\ handler = [c \in Client |-> "none"]
    /\ done = [c \in Client |-> FALSE]
    /\ clients = {}
    /\ closing = {}
    /\ gateway = "serving"

Link(c, from, to) == link[c] = from /\ link' = [link EXCEPT ![c] = to]

\* g.wg counts the read loop of c.
InWaitGroup(c) == link[c] \in {"read", "leave"}

-----------------------------------------------------------------------------
(* handleWebSocket.                                                        *)

\* The listener accepts a connection.
Accept(c) ==
    /\ gateway = "serving"
    /\ Link(c, "none", "request")
    /\ UNCHANGED <<handler, done, clients, closing, gateway>>

\* From here on the HTTP server does not know the connection.
Upgrade(c) ==
    /\ Link(c, "request", "upgraded")
    /\ UNCHANGED <<handler, done, clients, closing, gateway>>

register(c) ==
    /\ Link(c, "upgraded", "registered")
    /\ clients' = clients \cup {c}
    /\ UNCHANGED <<handler, done, closing, gateway>>

\* g.wg.Add(1), and the goroutine that runs ReadLoop.
Serve(c) ==
    /\ Link(c, "registered", "read")
    /\ handler' = [handler EXCEPT ![c] = "idle"]
    /\ UNCHANGED <<done, clients, closing, gateway>>

-----------------------------------------------------------------------------
(* ReadLoop and handleLoop.                                                *)

\* Mutant of ReadFails: ReadLoop does not defer Close.
ReadFailsNoClose(c) ==
    /\ Link(c, "read", "leave")
    /\ UNCHANGED <<handler, done, clients, closing, gateway>>

\* The read fails: the peer is gone, or the connection was closed; Close.
ReadFails(c) ==
    /\ Link(c, "read", "leave")
    /\ done' = [done EXCEPT ![c] = TRUE]
    /\ UNCHANGED <<handler, clients, closing, gateway>>

\* OnDisconnect, g.unregister(client) and the deferred g.wg.Done()
unregister(c) ==
    /\ Link(c, "leave", "exited")
    /\ clients' = clients \ {c}
    /\ UNCHANGED <<handler, done, closing, gateway>>

\* The handle loop takes a message, perhaps one that was queued at the close.
Dispatch(c) ==
    /\ handler[c] = "idle"
    /\ handler' = [handler EXCEPT ![c] = "busy"]
    /\ UNCHANGED <<link, done, clients, closing, gateway>>

\* The handler returns.
Respond(c) ==
    /\ handler[c] = "busy"
    /\ handler' = [handler EXCEPT ![c] = "idle"]
    /\ UNCHANGED <<link, done, clients, closing, gateway>>

HandlerExit(c) ==
    /\ handler[c] = "idle"
    /\ done[c]
    /\ handler' = [handler EXCEPT ![c] = "exited"]
    /\ UNCHANGED <<link, done, clients, closing, gateway>>

-----------------------------------------------------------------------------
(* Run and shutdown.                                                       *)

\* ctx.Done(), or the listener failed: srv.Shutdown closes the listener.
Stop ==
    /\ gateway = "serving"
    /\ gateway' = "stopping"
    /\ UNCHANGED <<peerVars, clients, closing>>

\* Mutant of Snapshot: g.clients is not made anew.
SnapshotKeeps ==
    /\ gateway = "stopping"
    /\ closing' = clients
    /\ gateway' = "closing"
    /\ UNCHANGED <<peerVars, clients>>

\* srv.Shutdown returns, all requests answered or its time over; the snapshot
\* of g.clients under g.mu.
Snapshot ==
    /\ gateway = "stopping"
    /\ closing' = clients
    /\ clients' = {}
    /\ gateway' = "closing"
    /\ UNCHANGED peerVars

\* Mutant of Close: a client whose read loop has not begun is passed over.
CloseReading(c) ==
    /\ gateway = "closing"
    /\ c \in closing
    /\ closing' = closing \ {c}
    /\ done' = [done EXCEPT ![c] = @ \/ InWaitGroup(c)]
    /\ UNCHANGED <<link, handler, clients, gateway>>

\* c.Close() for the next client of the snapshot.
Close(c) ==
    /\ gateway = "closing"
    /\ c \in closing
    /\ closing' = closing \ {c}
    /\ done' = [done EXCEPT ![c] = TRUE]
    /\ UNCHANGED <<link, handler, clients, gateway>>

\* g.wg.Wait() returns; Rooms.ShutdownAll(); Run returns.
ShutdownAll ==
    /\ gateway = "closing" /\ closing = {}
    /\ \A c \in Client : ~InWaitGroup(c)
    /\ gateway' = "down"
    /\ UNCHANGED <<peerVars, clients, closing>>

-----------------------------------------------------------------------------
LinkStep(c) ==
    \/ Upgrade(c) \/ register(c) \/ Serve(c)
    \/ (done[c] /\ ReadFails(c)) \/ unregister(c)

ShutdownStep == Snapshot \/ (\E c \in Client : Close(c)) \/ ShutdownAll

Next ==
    \/ \E c \in Client :
          \/ Accept(c) \/ LinkStep(c) \/ (~done[c] /\ ReadFails(c))
          \/ Dispatch(c) \/ Respond(c) \/ HandlerExit(c)
    \/ Stop \/ ShutdownStep

(***************************************************************************)
(* Goroutines that can run do, and handlers return; the read of a closed   *)
(* connection fails (ClosedConnectionUnwinds of module Connection); select *)
(* is random, so the handle loop does not pass over done for ever.  Nobody *)
(* has to connect, to leave or to stop the server.                         *)
(***************************************************************************)
Fairness ==
    /\ \A c \in Client :
          /\ WF_vars(LinkStep(c))
          /\ WF_vars(Respond(c))
          /\ SF_vars(HandlerExit(c))
    /\ WF_vars(ShutdownStep)

Spec == Init /\ [][Next]_vars /\ Fairness

-----------------------------------------------------------------------------
(* Properties.                                                             *)

\* The types of the variables; g.clients and the snapshot hold connections
\* that are registered.
TypeOK ==
    /\ link \in [Client -> {"none", "request", "upgraded", "registered", "read",
                            "leave", "exited"}]
    /\ handler \in [Client -> {"none", "idle", "busy", "exited"}]
    /\ done \in [Client -> BOOLEAN]
    /\ gateway \in {"serving", "stopping", "closing", "down"}
    /\ clients \subseteq {c \in Client : link[c] = "registered" \/ InWaitGroup(c)}
    /\ closing \subseteq Client \ clients

(***************************************************************************)
(* "Returns nil after a graceful shutdown" (gateway.go:188-189): once Run  *)
(* begins to shut down it returns, whatever the peers and the handlers do, *)
(* unless a connection has registered after the snapshot and stays: nobody *)
(* closes that one, and wg.Wait lasts as long as its peer likes            *)
(* (gateway.go:163-165, 227-242).                                          *)
(***************************************************************************)
RunReturns ==
    gateway # "serving" ~> [](gateway = "down" \/ clients # {})

(***************************************************************************)
(* "every client connection is closed (read loops unwind ...)"             *)
(* (gateway.go:186-187): in the end every connection is over, both its     *)
(* loops included, also one that was caught between register and wg.Add    *)
(* and that wg.Wait did not wait for; again but for a late one.            *)
(***************************************************************************)
ConnectionsEnd ==
    gateway # "serving" ~>
        [](\A c \in Client :
             \/ c \in clients
             \/ link[c] \in {"none", "exited"} /\ handler[c] \in {"none", "exited"})

(***************************************************************************)
(* "every client connection is closed" (gateway.go:186-187), at the moment *)
(* Run returns: a connection that still reads, or will, has been closed,   *)
(* also one that wg.Wait did not count yet; only one that registered after *)
(* the snapshot has not, and that one is in g.clients.                     *)
(***************************************************************************)
ShutdownClosesAll ==
    gateway = "down" =>
        \A c \in Client : link[c] \in {"registered", "read"} => done[c] \/ c \in clients
=============================================================================
