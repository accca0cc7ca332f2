# partyx: a TLA+ model of the room server

partyx (`src/`) is a Go framework for multiplayer game servers: clients connect
over WebSocket, authenticate, create and join rooms, send messages to the room's
module and receive the room's events. This directory models the concurrent core
of the framework, checks it with TLC on small instances, and proves its safety
properties with TLAPS for instances of any size.

## 1. Inventory

| component | state | operations | module |
|---|---|---|---|
| room actor (`room/room.go`) | players, open flag, keep flag, grace timer, inbox of closures, context | `Join`, `JoinReplace`, `Leave`, `Close`, `Open`, `Info`, `HandleMessage`, `SetKeepOnEmpty`, tick, grace expiry, `Shutdown` | `RoomOps`, `Room`, `SeatTable` |
| room modules (`room/module.go`) | user code: hooks and handlers | run inside the actor, may panic or toggle the keep | `Hook` of `RoomOps` |
| room manager (`room/manager.go`) | map of rooms, singleton records `userSessions` | `Create`, `Remove`, `ShutdownAll`, `JoinRoom`, `LeaveRoom`, `DispatchRoomMessage`, on-empty callback | `RoomManager`, `Handlers` |
| event bus (`eventbus/`) | `sync.Map` of topics, per topic a locked set | `Subscribe`, `Unsubscribe`, `Publish` | `EventBus` |
| connection (`gateway/client.go`) | channels `handles`, `send`, `done`; topics, room ids, session | read loop, handle loop, write loop, `Close` | `Connection` |
| dispatcher (`gateway/dispatcher.go`) | none of its own | `Dispatch`, `handleAuth`, `handleRequest`, `OnDisconnect` | `Connection`, `Handlers` |
| built-in handlers (`internal/handlers/`) | none | create, join, leave, lobby list | `Handlers`; `Connection` (join, leave) |
| session store (`session/`) | map of sessions | `Set`, `Delete`, `Get` | `stored` of `Connection` |
| gateway (`gateway/gateway.go`) | registered clients, wait group | upgrade, register, unregister, `Run`, shutdown | `Gateway`; `Connection` (inside one client) |
| registry, lobby, facade, wire protocol, tools | tables filled at start-up, encodings | | not modelled |

**How they interact.** A connection's handle loop runs the dispatcher, which
calls the built-in handlers, which call the manager, which calls a room. A call
into a room submits a closure to its inbox and waits for the actor; presence
events are then published to the bus *by the caller, outside the actor*; the bus
calls `Client.Send`, which only enqueues for the write loop. The room calls back
into the manager from a goroutine of its own (`go r.onEmpty(r.id)`), which locks
the manager, takes the room out of the map and waits for the actor to exit. On a
disconnect the read loop runs `OnDisconnect` (leave the rooms, drop the
subscriptions, delete the session) while the handle loop may be in a handler.

**What is hard.** Every blocking call is several steps and anything happens in
between; a timer that expired cannot be stopped; an inbox, a `handles` and a `send` channel that
are full; module code that panics halfway through a closure; a record written before the seat
it stands for; the double check of `Subscribe` against the two steps of
`Unsubscribe`; a connection that closes with work queued; a room that is listed, and
joined by others, before its creator has a seat; a connection that appears while the
gateway shuts down. The list with lines is
under `hazards` in `PROJECT.json`.

**What makes each part correct.**

* room: it behaves like a table of seats on which every call takes effect in one
  step (`SeatTable`); the cap holds; the removal starts only on an empty room that is not kept, and does
  start on every abandoned one; a reconnect does not count as emptying; no
  caller waits for ever; the events add up to the seats.
* manager: a singleton record stands for a seat in a live room.
* bus: a subscription is neither lost nor outlives `Unsubscribe`; no topic leaks.
* handlers: a connection tracks the rooms that seat its client; a player's messages
  reach its room; no room leaks.
* gateway: shutting down ends every connection and returns.
* connection: nothing runs before authentication; a disconnect releases
  everything; queued messages are written; closing ends all three loops.

## 2. Modules

* **`RoomOps`** has the closures the actor runs as functions of the room's state
  (`JoinFn`, `JoinReplaceFn`, `LeaveFn`, `ScheduleFn`, `GraceFn`, ...), each with the
  outcome its Go closure leaves in captured variables. The cap is compared with
  `Uint16(Cardinality(players))`, as the code does. A hook is what it can do to
  the room: return, panic (the closure ends there), or call `SetKeepOnEmpty`.
* **`Room`** puts them behind the actor. `call[p]` is where the goroutine `p`
  is in a method: submitting (`r.inbox <- wrapped`), waiting (`<-done` or the
  context), or about to publish. `RunClosure` and `RunGrace` are the loop taking
  a closure, `Tick` is `OnTick`, `Exit` ends the loop with `OnClose`; `Remove`, `OnEmpty`, `Cancel`,
  `Removed` are `Manager.Remove` and `Shutdown`; the timer steps
  are expiry, the timer goroutine's submit, and its refusal. `announced` folds
  the presence events published so far.
* **`SeatTable`** is what a room promises: seats, an open flag, and calls that
  take effect between their begin and their return, in one step, with an exact count. It has no
  actor, inbox, timer or hooks. Two concessions are the code's: once the room is
  cancelled a call may be given up (and still take effect until the removal), and
  where module code may panic a swap may end half-way. `Room` maps onto it
  (`Table`, `opOf`): a call is pending until its closure has run, then done.
* **`RoomManager`** has one step per critical section of the manager's lock and per
  blocking call into a room (here one atomic `RoomOps` function; `Room` is where
  that call is taken apart). `oldSess` is the local variable `JoinRoom` carries from
  its first critical section to the eviction and the rollback.
* **`EventBus`** is one topic name; each map operation and each critical section of
  an instance is a step. Instance names are reused once unreachable, and an
  assumption on the constants guarantees one is always free, so runs need no bound.
* **`Connection`** is one connection with its three goroutines, the dispatcher,
  the join and leave handlers, and the gateway's shutdown. Bus, session store and
  manager are seen through their calls, one step each. The behaviour starts when
  `handleWebSocket` has registered the client.
* **`Handlers`** composes several connections with the manager: it extends
  `RoomManager`, whose actions are conjuncts of its own. A connection is its handle
  loop, at a point of a create, join, leave or message handler, its read loop in
  `OnDisconnect`, and `roomIDs`. It is authenticated from the start, drops no room topic by
  itself, and takes no message that was still queued at the close; all that is in `Connection`.
* **`Gateway`** is `Run`, `shutdown` and `handleWebSocket` with several peers; a
  connection is how far its read loop and its handle loop got, and whether `Close` was called.
* **`MCRoom`, `MCRoomManager`, `MCConnection`, `MCHandlers`** define the instances
  (`EventBus` and `Gateway` need none). `*Proofs` hold the theorems.

Operators named `...OffByOne`, `...NoCancel`, `...Unchecked` and so on, commented
"Mutant of", are deliberate errors: with one in place of the original the named
property must fail. They are not part of any specification.

## 3. Runs

| run | instance | shows |
|---|---|---|
| `room_grace` | 2 callers, cap 1, grace, inbox 2, 1 expired timer, hooks toggle the keep | `SeatLimit`, `TickingTimerIsArmed`, `RemovalStartsOnEmptyRoom`, `SwapNeverStartsRemoval` hold, and the room implements `SeatTable` (`ImplementsSeatTable`) |
| `room_panic` | 3 callers, cap 2, inbox 2, hooks panic, six methods (symmetry over callers with their clients) | `TypeOK`, `NoLostWakeup`, `PresenceSettles` hold |
| `room_live` | 2 callers, inbox 1, grace, keep toggles, fairness | `EmptiedRoomIsRemoved`, `RemovalFinishes`, `CallsReturn` hold |
| `bus` | 2 subscribers, 1 publisher, 3 instances | `TypeOK`, `NoDeliveryToTheGone`, `NoEmptyTopicStays`, `OnlyDeleteLoses`, `SomeCallReturns` hold |
| `manager` | 3 connections of 2 users, 2 rooms of one type, cap 1, every mix of modes (symmetry over rooms and over the connections of one user) | `TypeOK`, `RecordsNameLiveRooms`, `RecordsAreSeats` hold |
| `connection` | 1 room, channels of one place, six messages | seven properties, from `NoRequestBeforeAuth` to `ShutdownCompletes`, hold |
| `handlers` | 2 connections of 2 users, 2 rooms of one type, cap 1, the type rejects or replaces, one connection may end (symmetry over rooms) | `HandlersTypeOK`, `SeatsAreTracked`, `SeatedClientIsHeard`, `NoRoomLeaks` hold |
| `gateway` | 3 peers, fairness | `TypeOK`, `ShutdownClosesAll`, `RunReturns`, `ConnectionsEnd` hold |
| `room_instant_removal` | no grace | violated: a join between the two closures of `Leave` is removed with the room |
| `bus_lost` | as `bus` | violated: a subscription between `isEmpty` and `CompareAndDelete` is lost |
| `connection_ghost` | authenticate, join, leave | violated: a join in flight at the disconnect leaves a seat nobody gives up |
| `handlers_create` | as `handlers` | violated: a create that fails removes its room with a client in it |

The last four state what a comment or a document of the repository says;
`findings` quotes it beside the code.

**Bounds.** Two callers give every pairwise race of a room's methods, the third one
in `room_panic` a full room with somebody outside; the inbox of one or two places is
full often (64 in the code). One expired timer beside a ticking one is the stale-timer
case; a third would repeat it. Two connections of one user and one of another are
what singleton rules tell apart; two rooms are a source and a target. Two subscribers
race on a topic, and the one that creates it again is one of them. Channels of one place make "full" and "empty"
adjacent, so every blocking case of a connection occurs. `MaxSessions = 2` lets
two authentications of one connection compete. In `handlers` two connections and two
rooms let a creator be overtaken in its own room and be moved to another; all rooms of a type
have one mode, as `Create` takes it from the type's module; one connection may end
(`Leaver`), the other one shows what that leaves behind. Three peers in `gateway` are one in
the snapshot, one between `register` and `wg.Add`, and one that comes late.
`Rejoins = FALSE` in `manager` and `handlers` leaves out a seated client that joins its room
again: a full room refuses it, and the refusal takes its record and its topic away, so
that `RecordsAreSeats` and `SeatsAreTracked` fail.

**Scope of some properties.** `PresenceSettles` is checked without `JoinReplace`
(a panic of `onLeave` in it leaves events without a seat) and `EmptiedRoomIsRemoved`
without panicking hooks (a panic of `onLeave` in `Leave` skips the removal): both
are listed as hazards. `ImplementsSeatTable` covers the half swap: the table allows it
only where module code panics. `QuietDisconnectReleases` speaks of connections
whose handle loop had nothing in hand; `connection_ghost` shows the others.
`RecordsAreSeats` speaks of types whose rooms all reject: in Replace mode two
concurrent joins of a user may leave two seats. `SeatedClientIsHeard` does too: a client
moved from one room to another in Replace mode keeps the topic of the old one, and its
messages are refused as ambiguous as long as the old room is listed. `ShutdownClosesAll`,
`RunReturns` and `ConnectionsEnd` except a connection that registers after the snapshot of `shutdown`.

**Known deviations without a run.** The models also show, when a guard or a bound above is
lifted: a failed join in Replace mode deletes the record it overwrote
(`room/manager_test.go:118-119` says it must not); a seated client of a full room that
joins again is refused (`room/room.go:179` calls a rejoin idempotent); the closure of an
expired timer, delayed past a join and a leave, cuts the next grace short
(`docs/architecture.md:193-196`); a room that a handler creates after `ShutdownAll` outlives
`Run` (`gateway/gateway.go:185-189`), since `shutdown` waits for read loops, not for handle loops.

**Deadlock** is checked in `bus` and `connection`. The other runs
switch it off, because a removed room with all its callers idle, a manager
whose bounded supply of rooms is used up, and a gateway that is down really stop.

**Fairness.** A goroutine that can run does run (weak fairness of its steps);
hooks, handlers and the authenticator return. Go serves blocked senders of a channel
in order: strong fairness of the two submits of `Room`. `select` picks at random:
ticks do not starve the inbox, and the handle loop does not pass over `done` for ever (strong
fairness of `HandlerExit`). A read of a closed socket fails once what was buffered is
read; the flush of the write loop has one deadline for all its writes. In `Gateway` the read of a closed
connection fails (weak fairness; `ClosedConnectionUnwinds` of `Connection` is the reason), and
`srv.Shutdown` returns, at the latest with its timeout. Nobody has to
connect, call a method, send a message, tick, leave, or stop the server.

## 4. Proofs

| module | theorem | says |
|---|---|---|
| `RoomProofs` | `TypeCorrect` | `TypeOK` of a room always holds |
| `RoomProofs` | `CapacityRespected` | `SeatLimit` for every cap of a `uint16` and any number of clients |
| `RoomProofs` | `TimersUnderControl` | `TickingTimerIsArmed` |
| `RoomProofs` | `WakeupsNotLost` | `NoLostWakeup` for any callers and inbox capacity |
| `RoomProofs` | `GraceRemovesOnlyEmptyRooms` | with a grace, `RemovalStartsOnEmptyRoom` |
| `RoomRefinementProofs` | `RoomImplementsSeatTable` | `ImplementsSeatTable`, for any callers, cap, inbox and hooks |
| `RoomRefinementProofs` | `SwapIsNoEmptying` | with a grace and hooks that do not panic, `SwapNeverStartsRemoval` |
| `RoomRefinementProofs` | `EventsAddUp` | one goroutine per client, nobody swaps: `PresenceSettles`, panicking hooks included |
| `RoomManagerProofs` | `ManagerTypeCorrect` | `TypeOK` of the manager |
| `RoomManagerProofs` | `RecordsLive` | `RecordsNameLiveRooms` for any rooms, users, connections and modes |
| `RoomManagerProofs` | `SingletonEnforced` | nobody rejoins, one goroutine per client: `RecordsAreSeats` |
| `EventBusProofs` | `BusTypeCorrect`, `UnsubscribeIsFinal`, `NoTopicLeaks` | `TypeOK`, `NoDeliveryToTheGone`, `NoEmptyTopicStays` for any subscribers and publishers |
| `EventBusProofs` | `OnlyDeletionLoses` | the action property `OnlyDeleteLoses` |
| `ConnectionProofs` | `ConnectionTypeCorrect`, `AuthBeforeRequests`, `FlushIsComplete`, `QuietDisconnectIsComplete` | `TypeOK`, `NoRequestBeforeAuth`, `QueuedBeforeCloseIsWritten`, `QuietDisconnectReleases` for any rooms, messages and channel capacities |
| `ConnectionProofs` | `SubscribedWhenSeated` | the action property `SubscribedBeforeSeated` |
| `HandlersProofs` | `HandlersUseManager` | the handlers implement the specification of the manager |
| `HandlersProofs` | `HandlersTypeCorrect`, `RoomsDoNotLeak` | `HandlersTypeOK`, `NoRoomLeaks` for any connections, rooms and types |
| `HandlersProofs` | `SeatsTracked`, `SeatedClientHeard` | nobody rejoins: `SeatsAreTracked`, `SeatedClientIsHeard` |
| `GatewayProofs` | `GatewayTypeCorrect`, `AllClosed` | `TypeOK`, `ShutdownClosesAll` for any number of peers |

They assume only the named assumptions of the modules (each caller acts for a client, the
cap is a `uint16`, a join or leave names a room's topic, a connection has two goroutines of
its own, ...), which TLC evaluates on every run, and where the table says so a hypothesis:

* *nobody rejoins* (`~Rejoins`): no client asks for a seat it has. With rejoins the three
  properties are false: a full room refuses its own player, and the refusal takes the record
  and the topic away. The runs leave rejoins out too.
* *one goroutine per client* (`OneCallerPerClient`, `OneCallerEach`): the calls for one client come one after the
  other, as those of a handle loop do. Otherwise a join and a leave of one client overlap:
  the record one of them writes or deletes may stand for the seat of the other, and
  two goroutines publish their events in either order. `HandlersProofs` does not assume it: there the handle loop
  and `OnDisconnect` do overlap, and its theorems speak of connections that are open.
* *nobody swaps* (`"JoinReplace" \notin Fns`): `JoinReplace` publishes both events whatever it
  did, about a client whose own goroutine may be publishing.

*Layers.* `RoomOpsProofs` shows for every closure that it keeps `RoomOK`: the
type, the cap, and that only the timer in `emptyTimer` ticks. The cap needs the arithmetic of
the truncation: below the cap `uint16(len(players))` is the length itself, so a
room that is not `Full` has a seat left. Both system proofs use these lemmas.

*Room.* The inductive invariant `Inv` is `TypeOK`, `RoomOK` and facts that tie
callers to the inbox: a call in progress has a method (`Named`); one that is still
submitting has no result (`Fresh`); an entry that names a caller is the closure of
the method that caller waits in (`Linked`); no caller has two entries (`Unique`); a
waiting caller whose closure has not run has an entry (`Waited`); a `JoinReplace` never reports
an emptied room (`SwapLeavesNoGap`), so only `Leave` goes on to schedule a removal.
`Linked`, `Unique` and `Waited` together are `NoLostWakeup`, and none is inductive
without the others: running a closure writes the result to the caller the entry
names, and must find that caller waiting for this entry and no other. The proof has
one step per action; `RunClosure` splits on whether a caller waits.

*Refinement.* Every step of `Room` is shown to be a step of `SeatTable` or to leave
its variables alone; only `RunClosure` takes effect. That needs more than `Inv`: the
auxiliary invariant `Orderly` says that an entry in the inbox acts for its caller's client with the
arguments the caller waits with (`Matched`), that an entry whose caller gave up is there
only after the cancellation (`Orphans`), that the actor has exited when the room is removed
(`Ended`), and which results a call in each place may have (`Shaped`). `FullIsExact` turns
the truncated `uint16` count into the exact count of the table, which holds because the cap
itself keeps the room small; `ClosureEffect` relates each closure of `RoomOps` to
`Effect`. An orphan's closure is the table's `Late`, the second closure of `Leave` changes nothing there.

*Swaps.* `SwapIsNoEmptying` assumes a grace and hooks that do not panic, because it is false
without them: with no grace, an `onLeave` that lets go of the keep starts the removal at once,
inside the swap; a panic of `onLeave` ends the swap before the new client sits. With
both, whatever `onLeave` armed is cancelled when the new client sits down.

*Presence.* An event is published some steps after the closure it reports, so the
invariant speaks of where a caller is heading: until the room is cancelled, the events and the
seats agree on the client of every caller, unless that caller still has to publish
(`Reported`): then the client sits if PlayerJoined is to come and does not if PlayerLeft is. That
is inductive because every seat taken or given up is reported to the caller even if a hook
panics (`ClosureReports`), and because the closure that runs belongs to a caller that waits
(`Orphans` of the refinement: a closure nobody waits for runs after the cancellation only).

*Manager.* `Inv` is `TypeOK`, every room is `RoomOK`, and
`RecordsNameLiveRooms`, which is inductive once the type says that a call which
evicts holds a record. The interesting case is `Remove`: the room leaves the map and
its records go in the same critical section.

*Singleton.* `RecordsAreSeats` holds between calls; the invariant has to say what holds inside
them. `SeatRecord(c, r)`, for a room `r` of a type that only rejects: while `c` is joining, the record is there and the seat
is not; while it is leaving, the record is gone and the seat may not be; otherwise they are
the same. `CallsAreSound` adds that a call that is under way holds a room that exists, and
that a join of a rejecting room never overwrote a record, so it never evicts. The
lemmas are about one client `c` with one call in flight, whatever the other clients and
the other callers do; so `HandlersProofs` can use them for a client as long as it is open.

*Bus.* The invariant says who holds which instance. A goroutine in no call holds none
(`EmptyHanded`), so a fresh one is always left: a counting argument over the instances held
(`FreshInstance`). An instance found replaced is not in the map while it is being undone
(`UndoIsOffTheMap`); a subscriber that unsubscribes is in the topic in use only until its
own removal, which is from that topic (`LeavesTopicInUse`); an empty topic in the map has
somebody about to fill, inspect or delete it (`EmptyTopicIsSeen`, which is `NoEmptyTopicStays` made
inductive); a publisher that holds an instance will not find there who was gone when it
began (`SnapshotWithoutTheGone`).

*Connection.* As long as there is no session, only auth messages are read, queued or handled
(`AuthFirst`), which carries the read loop's check through the channel to the handler's use. The
session is set once and is the only one stored (`OneSession`). `c.topics` and the bus differ by the
topic in the handler's hand at most (`Tracked`). `QuietRelease` says for each point of
`OnDisconnect` what is left to release. `QueuedBeforeCloseIsWritten` is inductive with
`DoneFirst`: the write loop flushes only once `done` is closed, so what comes later is marked so.

*Handlers.* The first step is that every step of a connection is a step of the manager or
leaves it alone (`HandlersUseManager`), so its invariants hold here too. `HInv` adds where the two
goroutines of a connection and their calls stand relative to each other (`Phase`) and that every
empty room in the map is accounted for (`Accounted`): its removal is due, a goroutine
that emptied it is about to make it due, or the create that made it is under way and either gives
it a player or removes it. `Tracks` says that a seat is tracked from before it is taken until after
it is given up. `Hears` joins the singleton lemmas, for an open connection, with
`Placed`: of a type that only rejects it tracks no room but the one its client sits in, or the
one a request is moving it into or out of. So a lookup by type finds one room, and it still is
the right one when the message is handled.

*Gateway.* Before the snapshot every connection past `register` is in `g.clients`; after it
such a connection is in `g.clients` again (late), still to be closed, or closed
(`ClosedOrLate`). `Run` returns with nothing left to close.

**Only model-checked.** Every invariant and every action property that a passing run checks is
proved. Liveness (`EmptiedRoomIsRemoved`, `RemovalFinishes`, `CallsReturn`,
`SomeCallReturns`, `ClosedConnectionUnwinds`, `ShutdownCompletes`, `RunReturns`,
`ConnectionsEnd`) is outside the prover's reach, as is `ENABLED`, and induction over
recursive data (no module declares a recursive operator). The four violated properties are
counterexamples, found by TLC.

## 5. Not modelled

* `Broadcast`, `Send`, `SendTo` and their variants publish and change no state.
* `RegisterModule` and the command registry fill tables before the server starts and panic
  on a duplicate, which ends the program. Opcodes are seen in `Handlers` as the room
  type they belong to.
* `Create` is one step of the manager, although the actor runs before the callback is set
  and the room is in the map: a module that lets go of a keep in that moment is not covered.
* The wire encoding, option maps, error codes and logging: pure or without state.
* The facade (`app.go`, `room.go`, `handle.go`) wires the parts at start-up; the lobby returns `Manager.List`.
* Durations: a deadline or a grace may pass at any time, in any order.

## 6. Plan

1. A settled-state property for Replace mode (who sits where once all calls are over), and
   what a panic of `onLeave` in `Leave` should mean for the removal.
2. Prove more: what the proved properties become without their hypotheses, in particular a
   weaker statement about records and seats that survives a rejoin, and one about the events
   of a room that swaps (a swap and a rejoin of the old client publish in either order).
