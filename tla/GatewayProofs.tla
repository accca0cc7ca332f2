--------------------------- MODULE GatewayProofs ---------------------------
(***************************************************************************)
(* Safety of the gateway's shutdown, for any number of connections.        *)
(***************************************************************************)
EXTENDS Gateway, TLAPS

(***************************************************************************)
(* From the snapshot on, a connection that got past register and has not   *)
(* left is in g.clients (it is late), still to be closed, or closed.       *)
(***************************************************************************)
ClosedOrLate ==
    gateway \in {"closing", "down"} =>
        \A c \in Client :
            link[c] \in {"registered", "read"} => done[c] \/ c \in clients \/ c \in closing

Inv ==
    /\ TypeOK
    /\ closing \subseteq {c \in Client : link[c] \in {"registered", "read", "leave", "exited"}}
    /\ gateway = "down" => closing = {}
    /\ gateway \in {"serving", "stopping"} =>
          \A c \in Client : link[c] \in {"registered", "read"} => c \in clients
    /\ ClosedOrLate

\* Nobody is connected in the beginning.
LEMMA InitInv == Init => Inv
  BY DEF Init, Inv, TypeOK, ClosedOrLate, InWaitGroup

\* A connection on its way in, and the loops of one that is served.
LEMMA LinkInv ==
    ASSUME Inv, NEW c \in Client,
           \/ Accept(c) \/ LinkStep(c) \/ ReadFails(c)
           \/ Dispatch(c) \/ Respond(c) \/ HandlerExit(c)
    PROVE  Inv'
  <1>1. CASE Accept(c)
    BY <1>1 DEF Accept, Link, Inv, TypeOK, ClosedOrLate, InWaitGroup
  <1>2. CASE Upgrade(c)
    BY <1>2 DEF Upgrade, Link, Inv, TypeOK, ClosedOrLate, InWaitGroup
  <1>3. CASE register(c)
    BY <1>3 DEF register, Link, Inv, TypeOK, ClosedOrLate, InWaitGroup
  <1>4. CASE Serve(c)
    BY <1>4 DEF Serve, Link, Inv, TypeOK, ClosedOrLate, InWaitGroup
  <1>5. CASE ReadFails(c)
    BY <1>5 DEF ReadFails, Link, Inv, TypeOK, ClosedOrLate, InWaitGroup
  <1>6. CASE unregister(c)
    BY <1>6 DEF unregister, Link, Inv, TypeOK, ClosedOrLate, InWaitGroup
  <1>7. CASE Dispatch(c) \/ Respond(c) \/ HandlerExit(c)
    BY <1>7 DEF Dispatch, Respond, HandlerExit, Inv, TypeOK, ClosedOrLate, InWaitGroup
  <1> QED BY <1>1, <1>2, <1>3, <1>4, <1>5, <1>6, <1>7 DEF LinkStep

\* Run and shutdown.
LEMMA ShutdownInv ==
    ASSUME Inv, Stop \/ ShutdownStep
    PROVE  Inv'
  <1>1. CASE Stop
    BY <1>1 DEF Stop, peerVars, Inv, TypeOK, ClosedOrLate, InWaitGroup
  <1>2. CASE Snapshot
    BY <1>2 DEF Snapshot, peerVars, Inv, TypeOK, ClosedOrLate, InWaitGroup
  <1>3. ASSUME NEW c \in Client, Close(c) PROVE Inv'
    BY <1>3 DEF Close, Inv, TypeOK, ClosedOrLate, InWaitGroup
  <1>4. CASE ShutdownAll
    BY <1>4 DEF ShutdownAll, peerVars, Inv, TypeOK, ClosedOrLate, InWaitGroup
  <1> QED BY <1>1, <1>2, <1>3, <1>4 DEF ShutdownStep

\* The invariant holds in every reachable state.
THEOREM GatewayInvariance == Spec => []Inv
  <1>1. Inv /\ [Next]_vars => Inv'
    <2> SUFFICES ASSUME Inv, [Next]_vars PROVE Inv'
      OBVIOUS
    <2>1. CASE Next
      BY <2>1, LinkInv, ShutdownInv DEF Next
    <2>2. CASE UNCHANGED vars
      BY <2>2 DEF vars, Inv, TypeOK, ClosedOrLate, InWaitGroup
    <2> QED BY <2>1, <2>2
  <1> QED BY <1>1, InitInv, PTL DEF Spec

(***************************************************************************)
(* Type correctness; in particular g.clients and the snapshot of shutdown  *)
(* never hold the same connection (gateway.go:163-165, 229-235).           *)
(***************************************************************************)
THEOREM GatewayTypeCorrect == Spec => []TypeOK
  <1>1. Inv => TypeOK
    BY DEF Inv
  <1> QED BY <1>1, GatewayInvariance, PTL

(***************************************************************************)
(* However many peers connect and leave while the server stops: when Run   *)
(* returns, whatever still reads was closed, or registered too late for    *)
(* the snapshot (gateway.go:186-187, 227-242).                             *)
(***************************************************************************)
THEOREM AllClosed == Spec => []ShutdownClosesAll
  <1>1. Inv => ShutdownClosesAll
    BY DEF Inv, ClosedOrLate, ShutdownClosesAll
  <1> QED BY <1>1, GatewayInvariance, PTL
============================================================================
