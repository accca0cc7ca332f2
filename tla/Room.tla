-------------------------------- MODULE Room --------------------------------
(***************************************************************************)
(* One room (src/room/room.go): its actor goroutine, the bounded inbox of  *)
(* closures in front of it, the goroutines that call its blocking methods, *)
(* its grace timers, and the removal that ends it (Manager.Remove).        *)
(*                                                                         *)
(* A blocking method is several steps of its caller: it submits a closure, *)
(* waits for the actor (or for the end of the room), and then, outside the *)
(* actor, publishes the presence events; Leave submits a second closure    *)
(* after that.  Everything may happen between any two of these steps.      *)
(***************************************************************************)
EXTENDS RoomOps, Sequences

CONSTANTS
    Caller,      \* goroutines that use the room from outside its actor
    ClientOf,    \* the client each of them acts for
    NoCaller,    \* an inbox entry nobody waits for
    MaxPlayers,  \* config.MaxPlayers
    EmptyGrace,  \* whether config.EmptyGrace > 0
    Hooks,       \* what this module's hooks and handlers may do
    Fns,         \* the methods the callers use
    InboxCap     \* bound: capacity of the inbox (64 in the code)

Method == {"Join", "JoinReplace", "Leave", "Close", "Open", "Info",
           "HandleMessage"}

ASSUME ClientAssumption == Client # {}
ASSUME ClientOfAssumption == ClientOf \in [Caller -> Client]
ASSUME NoCallerAssumption == NoCaller \notin Caller
ASSUME MaxPlayersAssumption == MaxPlayers \in Uint16Value
ASSUME EmptyGraceAssumption == EmptyGrace \in BOOLEAN
ASSUME HooksAssumption == Hooks \subseteq Hook
ASSUME FnsAssumption == Fns \subseteq Method
ASSUME InboxCapAssumption == InboxCap \in Nat

VARIABLES
    room,       \* the state guarded by the actor
    inbox,      \* the channel of closures
    call,       \* per caller: the method it is in
    actor,      \* "loop" or "exited"
    lifecycle,  \* how far Manager.Remove got with this room
    announced   \* who is in the room, going by the presence events published

vars == <<room, inbox, call, actor, lifecycle, announced>>

config == [maxPlayers |-> MaxPlayers, emptyGrace |-> EmptyGrace]

\* r.ctx is done: Shutdown called r.cancel.
CtxDone == lifecycle \in {"cancelled", "removed"}

(***************************************************************************)
(* A caller is idle, blocked in `r.inbox <- wrapped` (submit), blocked in  *)
(* `<-done` (wait), or about to publish PlayerLeft (left) or PlayerJoined  *)
(* (joined).  ran, err, changed and empty are the captured variables.      *)
(***************************************************************************)
CallState ==
    [ pc      : {"idle", "submit", "wait", "left", "joined"},
      fn      : Method \cup {"Schedule", "none"},
      old     : Client,
      ran     : BOOLEAN,
      err     : Err,
      changed : BOOLEAN,
      empty   : BOOLEAN ]

NewCall(pc, fn, old) ==
    [pc |-> pc, fn |-> fn, old |-> old, ran |-> FALSE,
     err |-> "nil", changed |-> FALSE, empty |-> FALSE]

IdleCall(p) == NewCall("idle", "none", ClientOf[p])

\* A closure in the inbox: of a caller's method, or of a grace timer.
Entry ==
    [ fn     : Method \cup {"Schedule", "Grace"},
      by     : Caller \cup {NoCaller},
      client : Client,
      old    : Client,
      timer  : Timer ]

CallEntry(p) ==
    [fn |-> call[p].fn, by |-> p, client |-> ClientOf[p],
     old |-> call[p].old, timer |-> 1]

GraceEntry(t) ==
    LET c == CHOOSE c \in Client : TRUE
    IN  [fn |-> "Grace", by |-> NoCaller, client |-> c, old |-> c, timer |-> t]

\* Mutant of InboxHasSpace: one closure too many.
InboxHasSpaceOffByOne == Len(inbox) <= InboxCap

InboxHasSpace == Len(inbox) < InboxCap

(***************************************************************************)
(* A module's OnInit has run and the manager holds the room.               *)
(***************************************************************************)
Init ==
    /\ \E h \in Hooks : room = newRoom(config, h)
    /\ inbox = <<>>
    /\ call = [p \in Caller |-> IdleCall(p)]
    /\ actor = "loop"
    /\ lifecycle = "registered"
    /\ announced = {}

-----------------------------------------------------------------------------
(* The caller's side of a blocking method: do, and what follows it.        *)

\* The caller found the room in the manager's map and is about to use it.
Call(p, fn, old) ==
    /\ lifecycle = "registered"
    /\ call[p].pc = "idle"
    /\ call' = [call EXCEPT ![p] = NewCall("submit", fn, old)]
    /\ UNCHANGED <<room, inbox, actor, lifecycle, announced>>

\* case r.inbox <- wrapped (also possible once the room's context is done)
Submit(p) ==
    /\ call[p].pc = "submit"
    /\ InboxHasSpace
    /\ inbox' = Append(inbox, CallEntry(p))
    /\ call' = [call EXCEPT ![p].pc = "wait"]
    /\ UNCHANGED <<room, actor, lifecycle, announced>>

\* case <-r.ctx.Done() of the outer select: do returns false, so does the method.
SubmitRefused(p) ==
    /\ call[p].pc = "submit"
    /\ CtxDone
    /\ call' = [call EXCEPT ![p] = IdleCall(p)]
    /\ UNCHANGED <<room, inbox, actor, lifecycle, announced>>

\* Mutant of Abandon: do waits for the actor only.
AbandonNever(p) ==
    /\ call[p].pc = "wait"
    /\ FALSE
    /\ UNCHANGED vars

\* case <-r.ctx.Done() of the inner select, ready or not: the closure stays
\* in the inbox, or has run.
Abandon(p) ==
    /\ call[p].pc = "wait"
    /\ CtxDone
    /\ call' = [call EXCEPT ![p] = IdleCall(p)]
    /\ inbox' = [i \in DOMAIN inbox |->
                   IF inbox[i].by = p THEN [inbox[i] EXCEPT !.by = NoCaller]
                                      ELSE inbox[i]]
    /\ UNCHANGED <<room, actor, lifecycle, announced>>

\* Where a method goes on once its closure has run.
AfterDo(k) ==
    CASE k.fn = "Join" /\ k.err = "nil" /\ k.changed -> "joined"
      [] k.fn = "JoinReplace" /\ k.err = "nil"       -> "left"
      [] k.fn = "Leave" /\ k.changed                 -> "left"
      [] OTHER                                       -> "idle"

\* case <-done.  A JoinReplace refused on an emptied room starts the removal.
Receive(p) ==
    LET k == call[p] IN
    /\ k.pc = "wait"
    /\ k.ran
    /\ call' = [call EXCEPT ![p] = IF AfterDo(k) = "idle" THEN IdleCall(p)
                                   ELSE [k EXCEPT !.pc = AfterDo(k)]]
    /\ room' = [room EXCEPT !.onEmptyDue =
                  @ \/ (k.fn = "JoinReplace" /\ k.err # "nil" /\ k.empty)]
    /\ UNCHANGED <<inbox, actor, lifecycle, announced>>

\* bus.Publish of PlayerLeft, then: JoinReplace publishes PlayerJoined, and a
\* Leave that saw the room empty submits the closure that arms the removal.
PublishLeft(p) ==
    LET k    == call[p]
        gone == IF k.fn = "JoinReplace" THEN k.old ELSE ClientOf[p]
    IN
    /\ k.pc = "left"
    /\ announced' = announced \ {gone}
    /\ call' = [call EXCEPT ![p] =
                  IF k.fn = "JoinReplace" THEN [k EXCEPT !.pc = "joined"]
                  ELSE IF k.empty THEN NewCall("submit", "Schedule", k.old)
                  ELSE IdleCall(p)]
    /\ UNCHANGED <<room, inbox, actor, lifecycle>>

PublishJoined(p) ==
    /\ call[p].pc = "joined"
    /\ announced' = announced \cup {ClientOf[p]}
    /\ call' = [call EXCEPT ![p] = IdleCall(p)]
    /\ UNCHANGED <<room, inbox, actor, lifecycle>>

-----------------------------------------------------------------------------
(* The actor: loop, and the closures and ticks it runs.                    *)

\* What the closure e does to the room; h1 and h2 are what module code does.
Closure(e, h1, h2) ==
    CASE e.fn = "Join"          -> JoinFn(config, room, e.client, h1)
      [] e.fn = "JoinReplace"   -> JoinReplaceFn(config, room, e.old, e.client, h1, h2)
      [] e.fn = "Leave"         -> LeaveFn(config, room, e.client, h1)
      [] e.fn = "Schedule"      -> ScheduleFn(config, room)
      [] e.fn = "Close"         -> CloseFn(room)
      [] e.fn = "Open"          -> OpenFn(room)
      [] e.fn = "HandleMessage" -> HandleMessageFn(config, room, e.client, h1)
      [] OTHER                  -> InfoFn(room)

\* Mutant of RunClosure: the signal is not deferred, a panic skips it.
RunClosureNoDefer(h1, h2) ==
    /\ actor = "loop"
    /\ inbox # <<>>
    /\ Head(inbox).fn # "Grace"
    /\ LET e == Head(inbox)
           x == Closure(e, h1, h2)
       IN  /\ room' = x.room
           /\ call' = [p \in Caller |->
                         IF p = e.by /\ h1 # "panic"
                           THEN [call[p] EXCEPT !.ran = TRUE, !.err = x.err,
                                                !.changed = x.changed,
                                                !.empty = x.empty]
                           ELSE call[p]]
    /\ inbox' = Tail(inbox)
    /\ UNCHANGED <<actor, lifecycle, announced>>

\* case fn := <-r.inbox.  The deferred `done <- struct{}{}` releases the
\* caller even if module code panics.
RunClosure(h1, h2) ==
    /\ actor = "loop"
    /\ inbox # <<>>
    /\ Head(inbox).fn # "Grace"
    /\ LET e == Head(inbox)
           x == Closure(e, h1, h2)
       IN  /\ room' = x.room
           /\ call' = [p \in Caller |->
                         IF p = e.by
                           THEN [call[p] EXCEPT !.ran = TRUE, !.err = x.err,
                                                !.changed = x.changed,
                                                !.empty = x.empty]
                           ELSE call[p]]
    /\ inbox' = Tail(inbox)
    /\ UNCHANGED <<actor, lifecycle, announced>>

RunGrace ==
    /\ actor = "loop"
    /\ inbox # <<>>
    /\ Head(inbox).fn = "Grace"
    /\ room' = GraceFn(room, Head(inbox).timer)
    /\ inbox' = Tail(inbox)
    /\ UNCHANGED <<call, actor, lifecycle, announced>>

\* case now := <-tick
Tick(h) ==
    /\ actor = "loop"
    /\ room' = RunHook(config, room, h)
    /\ UNCHANGED <<inbox, call, actor, lifecycle, announced>>

\* case <-r.ctx.Done(), and the deferred cancelEmptyRemoval and OnClose.
Exit(h) ==
    /\ actor = "loop"
    /\ CtxDone
    /\ room' = RunHook(config, cancelEmptyRemoval(room), h)
    /\ actor' = "exited"
    /\ UNCHANGED <<inbox, call, lifecycle, announced>>

-----------------------------------------------------------------------------
(* Grace timers: the goroutine of an expired timer goes through do too.    *)

ExpireTimer(t) ==
    /\ room.timers[t] = "ticking"
    /\ Cardinality({u \in Timer : room.timers[u] \in {"expired", "queued"}})
         < MaxExpired
    /\ room' = [room EXCEPT !.timers[t] = "expired"]
    /\ UNCHANGED <<inbox, call, actor, lifecycle, announced>>

SubmitGrace(t) ==
    /\ room.timers[t] = "expired"
    /\ InboxHasSpace
    /\ room' = [room EXCEPT !.timers[t] = "queued"]
    /\ inbox' = Append(inbox, GraceEntry(t))
    /\ UNCHANGED <<call, actor, lifecycle, announced>>

GraceRefused(t) ==
    /\ room.timers[t] = "expired"
    /\ CtxDone
    /\ room' = [room EXCEPT !.timers[t] = "free"]
    /\ UNCHANGED <<inbox, call, actor, lifecycle, announced>>

-----------------------------------------------------------------------------
(* Manager.Remove: unregister under the manager's lock, cancel the room's  *)
(* context, wait for the actor, publish room.removed.                      *)

\* An explicit Manager.Remove or ShutdownAll.
Remove ==
    /\ lifecycle = "registered"
    /\ lifecycle' = "unregistered"
    /\ UNCHANGED <<room, inbox, call, actor, announced>>

\* The goroutine of onEmpty: Remove does nothing on an unregistered room.
OnEmpty ==
    /\ room.onEmptyDue
    /\ room' = [room EXCEPT !.onEmptyDue = FALSE]
    /\ lifecycle' = IF lifecycle = "registered" THEN "unregistered" ELSE lifecycle
    /\ UNCHANGED <<inbox, call, actor, announced>>

\* Mutant of Cancel: Shutdown waits for the actor before it cancels.
CancelAfterWait ==
    /\ lifecycle = "unregistered"
    /\ actor = "exited"
    /\ lifecycle' = "cancelled"
    /\ UNCHANGED <<room, inbox, call, actor, announced>>

\* Shutdown: r.cancel()
Cancel ==
    /\ lifecycle = "unregistered"
    /\ lifecycle' = "cancelled"
    /\ UNCHANGED <<room, inbox, call, actor, announced>>

\* Shutdown: r.wg.Wait() returns; Remove publishes room.removed.
Removed ==
    /\ lifecycle = "cancelled"
    /\ actor = "exited"
    /\ lifecycle' = "removed"
    /\ UNCHANGED <<room, inbox, call, actor, announced>>

-----------------------------------------------------------------------------
CallerStep(p) ==
    \/ Submit(p) \/ SubmitRefused(p) \/ Abandon(p)
    \/ Receive(p) \/ PublishLeft(p) \/ PublishJoined(p)

RunInbox == (\E h1, h2 \in Hooks : RunClosure(h1, h2)) \/ RunGrace

TimerStep(t) == ExpireTimer(t) \/ SubmitGrace(t) \/ GraceRefused(t)

Next ==
    \/ \E p \in Caller :
          \/ \E fn \in Fns, old \in Client :
                /\ fn # "JoinReplace" => old = ClientOf[p]
                /\ Call(p, fn, old)
          \/ CallerStep(p)
    \/ RunInbox
    \/ \E h \in Hooks : Tick(h) \/ Exit(h)
    \/ \E t \in Timer : TimerStep(t)
    \/ Remove
    \/ OnEmpty
    \/ Cancel
    \/ Removed

(***************************************************************************)
(* Every goroutine that can run does.  Blocked senders of a Go channel are *)
(* served in order, so a send that is possible again and again happens:    *)
(* strong fairness for the two submit steps.  `select` picks at random     *)
(* among its ready cases, so ticks cannot starve the inbox, nor the inbox  *)
(* the exit.  Nobody has to call a method, tick, or remove a room.         *)
(***************************************************************************)
Fairness ==
    /\ \A p \in Caller : SF_vars(Submit(p)) /\ WF_vars(CallerStep(p))
    /\ \A t \in Timer : SF_vars(SubmitGrace(t)) /\ WF_vars(ExpireTimer(t))
    /\ WF_vars(RunInbox)
    /\ WF_vars(\E h \in Hooks : Exit(h))
    /\ WF_vars(OnEmpty)
    /\ WF_vars(Cancel)
    /\ WF_vars(Removed)

SafetySpec == Init /\ [][Next]_vars

Spec == SafetySpec /\ Fairness

-----------------------------------------------------------------------------
(* Properties.                                                             *)

\* The types of the variables.
TypeOK ==
    /\ room \in RoomState
    /\ inbox \in Seq(Entry) /\ Len(inbox) <= InboxCap
    /\ call \in [Caller -> CallState]
    /\ actor \in {"loop", "exited"}
    /\ lifecycle \in {"registered", "unregistered", "cancelled", "removed"}
    /\ announced \in SUBSET Client

(***************************************************************************)
(* A room with a cap never seats more players than the cap, whatever joins *)
(* and swaps are in flight: Join and JoinReplace compare the cap with the  *)
(* truncated uint16(len(players)), JoinReplace after it freed the old seat *)
(* (room.go:188, 233).                                                     *)
(***************************************************************************)
SeatLimit ==
    MaxPlayers > 0 => Cardinality(room.players) <= MaxPlayers

(***************************************************************************)
(* No caller of do waits for a signal nobody will send (room.go:143-162):  *)
(* while it waits, its closure is in the inbox exactly once, or has run.   *)
(***************************************************************************)
NoLostWakeup ==
    \A p \in Caller :
        LET mine == {i \in DOMAIN inbox : inbox[i].by = p}
        IN  IF call[p].pc = "wait" /\ ~call[p].ran
              THEN \E i \in mine : mine = {i} /\ inbox[i].fn = call[p].fn
              ELSE mine = {}

(***************************************************************************)
(* A grace timer that still ticks is the one emptyTimer points to, so the  *)
(* next join or SetKeepOnEmpty(true) can stop it (room.go:311-336).  A     *)
(* ticking timer the room lost track of would remove it later.             *)
(***************************************************************************)
TickingTimerIsArmed ==
    \A t \in Timer : room.timers[t] = "ticking" => t = room.emptyTimer

(***************************************************************************)
(* The removal of an emptied room starts only on a room that is empty and  *)
(* not kept at that moment (room.go:311-327).                              *)
(***************************************************************************)
RemovalStartsOnEmptyRoom ==
    [][~room.onEmptyDue /\ room'.onEmptyDue
         => room'.players = {} /\ ~room'.keepOnEmpty]_vars

(***************************************************************************)
(* A reconnect that swaps clients in place never counts as the room        *)
(* emptying: after a successful JoinReplace the room has its new player,   *)
(* no removal is armed and none was started (room.go:216-218).             *)
(***************************************************************************)
SwapNeverStartsRemoval ==
    [][\A e \in {inbox[i] : i \in DOMAIN inbox \cap {1}} :
         /\ inbox' = Tail(inbox)
         /\ e.fn = "JoinReplace"
         /\ room'.players # room.players
         => /\ e.client \in room'.players
            /\ room'.emptyTimer = NoTimer
            /\ room'.onEmptyDue = room.onEmptyDue]_vars

(***************************************************************************)
(* Presence settles: when no call is in flight and the room was not shut   *)
(* down, the players the published PlayerJoined and PlayerLeft events add  *)
(* up to are the players seated, although the events are published outside *)
(* the actor, after the closure (room.go:209-211, 254-257, 278).           *)
(***************************************************************************)
PresenceSettles ==
    (~CtxDone /\ \A p \in Caller : call[p].pc = "idle")
        => announced = room.players

(***************************************************************************)
(* An abandoned room goes away: once it has had players it is not, from    *)
(* some point on, registered, empty and not kept for ever (room.go:280-284,*)
(* 302-304, 320-326).                                                      *)
(***************************************************************************)
Abandoned ==
    lifecycle = "registered" /\ room.players = {} /\ ~room.keepOnEmpty

EmptiedRoomIsRemoved ==
    [](room.players # {} => []<>~Abandoned)

(***************************************************************************)
(* Removal finishes: a room the manager dropped shuts its actor down and   *)
(* Remove returns (manager.go:144-158, room.go:559-562).                   *)
(***************************************************************************)
RemovalFinishes == lifecycle = "unregistered" ~> lifecycle = "removed"

(***************************************************************************)
(* Every blocking method returns, also when the inbox is full and when the *)
(* room is shut down under the caller (room.go:143-162).                   *)
(***************************************************************************)
CallsReturn == \A p \in Caller : call[p].pc # "idle" ~> call[p].pc = "idle"

(***************************************************************************)
(* The table of seats a caller sees.  Its call is done when its closure    *)
(* has run, although it goes on with the events and, after a Leave, with   *)
(* the closure that arms the removal.                                      *)
(***************************************************************************)
opOf(p) ==
    LET k == call[p] IN
    IF k.pc = "idle"
      THEN [pc |-> "idle"]
    ELSE IF k.fn = "Schedule"
      THEN [pc |-> "done", fn |-> "Leave", old |-> k.old, ok |-> TRUE]
    ELSE IF k.pc \in {"submit", "wait"} /\ ~k.ran
      THEN [pc |-> "pending", fn |-> k.fn, old |-> k.old]
    ELSE [pc |-> "done", fn |-> k.fn, old |-> k.old, ok |-> k.err = "nil"]

Table ==
    INSTANCE SeatTable WITH
        seats  <- room.players,
        open   <- room.isOpen,
        op     <- [p \in Caller |-> opOf(p)],
        life   <- lifecycle,
        Panics <- "panic" \in Hooks

(***************************************************************************)
(* The room, with its inbox, its callers' waits and its truncated count,   *)
(* implements the table of seats: every call takes effect once, in one     *)
(* step between its begin and its return, and reports what it did; a       *)
(* refused swap evicts nobody; and nothing changes after the removal       *)
(* (room.go:143-162, 179-285, 533-562).                                    *)
(***************************************************************************)
ImplementsSeatTable == Table!Spec
=============================================================================
