------------------------------ MODULE RoomOps ------------------------------
(***************************************************************************)
(* The closures a room runs on its actor (src/room/room.go), as functions  *)
(* from the state of one room to its next state and the values the closure *)
(* leaves in the variables it captured.  One closure is one atomic step:   *)
(* the actor runs it to the end before it takes the next one.              *)
(*                                                                         *)
(* A room is the record                                                    *)
(*   players      the clients seated (room.go:38)                          *)
(*   isOpen       room.go:39                                               *)
(*   keepOnEmpty  room.go:44                                               *)
(*   emptyTimer   the timer the field points to, NoTimer for nil           *)
(*   timers       every time.AfterFunc timer that still matters: ticking;  *)
(*                expired, its goroutine not yet through to the inbox;     *)
(*                queued, its closure in the inbox; or free                *)
(*   onEmptyDue   a goroutine started by `go r.onEmpty(r.id)` is pending.  *)
(*                Manager.Remove is idempotent, so one flag stands for any *)
(*                number of them                                           *)
(* A configuration is [maxPlayers, emptyGrace]: the cap (0 for none) and   *)
(* whether a positive EmptyGrace is set.                                   *)
(***************************************************************************)
EXTENDS Naturals, FiniteSets

CONSTANTS
    Client,      \* client (connection) identifiers
    MaxExpired   \* bound: expired grace timers in flight at the same time

ASSUME MaxExpiredAssumption == MaxExpired \in Nat

(***************************************************************************)
(* Timer names.  At most one timer ticks (emptyTimer) beside MaxExpired    *)
(* expired ones, so a free name is always left.                            *)
(***************************************************************************)
Timer == 1 .. (MaxExpired + 1)
NoTimer == 0

TimerState == {"free", "ticking", "expired", "queued"}

RoomState ==
    [ players     : SUBSET Client,
      isOpen      : BOOLEAN,
      keepOnEmpty : BOOLEAN,
      emptyTimer  : Timer \cup {NoTimer},
      timers      : [Timer -> TimerState],
      onEmptyDue  : BOOLEAN ]

\* The values of a Go uint16.
Uint16Value == {n \in Nat : n < 65536}

RoomConfig == [ maxPlayers : Uint16Value, emptyGrace : BOOLEAN ]

(***************************************************************************)
(* What module code (a hook, a message handler, OnTick) may do to the room *)
(* that these functions can see: nothing, panic, or toggle the keep.       *)
(***************************************************************************)
Hook == {"return", "panic", "keepOn", "keepOff"}

\* The captured result of a closure: joinErr / err.
Err == {"nil", "closed", "full", "notInRoom", "internal"}

\* The Go conversion uint16(n).
Uint16(n) == n % 65536

\* Mutant of Full: > for >=.
FullOffByOne(cfg, rm) ==
    /\ cfg.maxPlayers > 0
    /\ Uint16(Cardinality(rm.players)) > cfg.maxPlayers

\* r.config.MaxPlayers > 0 && uint16(len(r.players)) >= r.config.MaxPlayers
Full(cfg, rm) ==
    /\ cfg.maxPlayers > 0
    /\ Uint16(Cardinality(rm.players)) >= cfg.maxPlayers

(***************************************************************************)
(* timer.Stop succeeds only on a timer that still ticks: one that expired  *)
(* keeps its goroutine, and its closure runs later.                        *)
(***************************************************************************)
cancelEmptyRemoval(rm) ==
    [rm EXCEPT
       !.timers = [t \in Timer |->
                     IF t = rm.emptyTimer /\ rm.timers[t] = "ticking"
                       THEN "free" ELSE rm.timers[t]],
       !.emptyTimer = NoTimer]

FreshTimer(rm) ==
    CHOOSE t \in Timer :
        (\E u \in Timer : rm.timers[u] = "free") => rm.timers[t] = "free"

\* time.AfterFunc(r.config.EmptyGrace, ...)
ArmTimer(rm) ==
    [rm EXCEPT !.timers[FreshTimer(rm)] = "ticking",
               !.emptyTimer = FreshTimer(rm)]

\* Mutant of scheduleEmptyRemoval: a timer already armed is not stopped.
scheduleWithoutCancel(cfg, rm) ==
    IF rm.keepOnEmpty
      THEN rm
      ELSE IF cfg.emptyGrace
             THEN ArmTimer(rm)
             ELSE [cancelEmptyRemoval(rm) EXCEPT !.onEmptyDue = TRUE]

scheduleEmptyRemoval(cfg, rm) ==
    IF rm.keepOnEmpty
      THEN rm
      ELSE IF cfg.emptyGrace
             THEN ArmTimer(cancelEmptyRemoval(rm))
             ELSE [cancelEmptyRemoval(rm) EXCEPT !.onEmptyDue = TRUE]

\* Mutant of SetKeepOnEmpty: turning the keep off forgets the empty room.
SetKeepOnEmptyOnly(cfg, rm, keep) ==
    LET set == [rm EXCEPT !.keepOnEmpty = keep]
    IN  IF keep THEN cancelEmptyRemoval(set) ELSE set

SetKeepOnEmpty(cfg, rm, keep) ==
    LET set == [rm EXCEPT !.keepOnEmpty = keep]
    IN  IF keep
          THEN cancelEmptyRemoval(set)
          ELSE IF rm.keepOnEmpty /\ rm.players = {}
                 THEN scheduleEmptyRemoval(cfg, set)
                 ELSE set

RunHook(cfg, rm, h) ==
    CASE h = "keepOn"  -> SetKeepOnEmpty(cfg, rm, TRUE)
      [] h = "keepOff" -> SetKeepOnEmpty(cfg, rm, FALSE)
      [] OTHER         -> rm

(***************************************************************************)
(* What a closure leaves behind: the room, and the captured variables err  *)
(* (joinErr, err), changed (joined, existed) and empty (empty,             *)
(* becameEmpty).                                                           *)
(***************************************************************************)
Result(rm, err, changed, empty) ==
    [room |-> rm, err |-> err, changed |-> changed, empty |-> empty]

ResultType ==
    [room : RoomState, err : Err, changed : BOOLEAN, empty : BOOLEAN]

\* Mutant of JoinFn: `joined` is set after onJoin, so a panic skips it.
JoinFnLateJoined(cfg, rm, c, h) ==
    IF ~rm.isOpen           THEN Result(rm, "closed", FALSE, FALSE)
    ELSE IF Full(cfg, rm)   THEN Result(rm, "full", FALSE, FALSE)
    ELSE IF c \in rm.players THEN Result(rm, "nil", FALSE, FALSE)
    ELSE LET seated == cancelEmptyRemoval([rm EXCEPT !.players = @ \cup {c}])
         IN  Result(RunHook(cfg, seated, h), "nil", h # "panic", FALSE)

(***************************************************************************)
(* The closure of Join.  The cases are in the order of the switch: a       *)
(* closed or full room refuses a client it already seats.  `joined` is set *)
(* before onJoin runs, so a panicking hook leaves it set.                  *)
(***************************************************************************)
JoinFn(cfg, rm, c, h) ==
    IF ~rm.isOpen           THEN Result(rm, "closed", FALSE, FALSE)
    ELSE IF Full(cfg, rm)   THEN Result(rm, "full", FALSE, FALSE)
    ELSE IF c \in rm.players THEN Result(rm, "nil", FALSE, FALSE)
    ELSE LET seated == cancelEmptyRemoval([rm EXCEPT !.players = @ \cup {c}])
         IN  Result(RunHook(cfg, seated, h), "nil", TRUE, FALSE)

\* Mutant of JoinReplaceFn: the swap does not cancel a pending removal.
JoinReplaceFnNoCancel(cfg, rm, old, c, hl, hj) ==
    LET vacated == IF old \in rm.players
                     THEN RunHook(cfg, [rm EXCEPT !.players = @ \ {old}], hl)
                     ELSE rm
        seated  == [vacated EXCEPT !.players = @ \cup {c}]
    IN  IF ~rm.isOpen
          THEN Result(rm, "closed", FALSE, FALSE)
        ELSE IF Full(cfg, vacated)
          THEN Result(vacated, "full", FALSE, FALSE)
        ELSE Result(RunHook(cfg, seated, hj), "nil", TRUE, FALSE)

\* Mutant of JoinReplaceFn: the players are counted before the old one goes.
JoinReplaceFnStaleCount(cfg, rm, old, c, hl, hj) ==
    LET vacated == IF old \in rm.players
                     THEN RunHook(cfg, [rm EXCEPT !.players = @ \ {old}], hl)
                     ELSE rm
        seated  == cancelEmptyRemoval(
                     [vacated EXCEPT !.players = @ \cup {c}])
    IN  IF ~rm.isOpen
          THEN Result(rm, "closed", FALSE, FALSE)
        ELSE IF Full(cfg, rm)
          THEN Result(vacated, "full", FALSE, FALSE)
        ELSE Result(RunHook(cfg, seated, hj), "nil", TRUE, FALSE)

(***************************************************************************)
(* The closure of JoinReplace.  hl is what onLeave does for the old client *)
(* and hj what onJoin does for the new one.  A panic of onLeave ends the   *)
(* closure with the old client gone, the new one not seated and joinErr    *)
(* still nil.                                                              *)
(***************************************************************************)
JoinReplaceFn(cfg, rm, old, c, hl, hj) ==
    LET vacated == IF old \in rm.players
                     THEN RunHook(cfg, [rm EXCEPT !.players = @ \ {old}], hl)
                     ELSE rm
        seated  == cancelEmptyRemoval(
                     [vacated EXCEPT !.players = @ \cup {c}])
    IN  IF ~rm.isOpen
          THEN Result(rm, "closed", FALSE, FALSE)
        ELSE IF old \in rm.players /\ hl = "panic"
          THEN Result(vacated, "nil", TRUE, FALSE)
        ELSE IF Full(cfg, vacated)
          THEN Result(vacated, "full", FALSE,
                      vacated.players = {} /\ ~vacated.keepOnEmpty)
        ELSE Result(RunHook(cfg, seated, hj), "nil", TRUE, FALSE)

(***************************************************************************)
(* The closure of Leave.  `empty` is assigned after onLeave, so a panic of *)
(* the hook leaves it false.                                               *)
(***************************************************************************)
LeaveFn(cfg, rm, c, h) ==
    IF c \notin rm.players
      THEN Result(rm, "nil", FALSE, FALSE)
      ELSE LET left == RunHook(cfg, [rm EXCEPT !.players = @ \ {c}], h)
           IN  Result(left, "nil", TRUE, h # "panic" /\ left.players = {})

\* The second closure Leave submits once it saw the room empty.
ScheduleFn(cfg, rm) ==
    Result(scheduleEmptyRemoval(cfg, rm), "nil", FALSE, FALSE)

CloseFn(rm) == Result([rm EXCEPT !.isOpen = FALSE], "nil", FALSE, FALSE)

OpenFn(rm) == Result([rm EXCEPT !.isOpen = TRUE], "nil", FALSE, FALSE)

\* Info, Players, HasPlayer, IsOpen: read the room and change nothing.
InfoFn(rm) == Result(rm, "nil", FALSE, FALSE)

(***************************************************************************)
(* The closure of HandleMessage: only a seated client's message reaches    *)
(* the module's handler, and a panic of the handler becomes error 500.     *)
(***************************************************************************)
HandleMessageFn(cfg, rm, c, h) ==
    IF c \notin rm.players
      THEN Result(rm, "notInRoom", FALSE, FALSE)
      ELSE Result(RunHook(cfg, rm, h),
                  IF h = "panic" THEN "internal" ELSE "nil", FALSE, FALSE)

\* Mutant of GraceFn: the room is not looked at again.
GraceFnNoRecheck(rm, t) ==
    [rm EXCEPT !.timers[t] = "free", !.onEmptyDue = TRUE]

(***************************************************************************)
(* The closure a grace timer submits when it expires: it looks at the room *)
(* again, but not at which timer it came from.                             *)
(***************************************************************************)
GraceFn(rm, t) ==
    [rm EXCEPT !.timers[t] = "free",
               !.onEmptyDue = @ \/ (~rm.keepOnEmpty /\ rm.players = {})]

(***************************************************************************)
(* newRoom: an open room without players; OnInit runs before the actor     *)
(* starts.                                                                 *)
(***************************************************************************)
newRoom(cfg, h) ==
    RunHook(cfg,
            [ players     |-> {},
              isOpen      |-> TRUE,
              keepOnEmpty |-> FALSE,
              emptyTimer  |-> NoTimer,
              timers      |-> [t \in Timer |-> "free"],
              onEmptyDue  |-> FALSE ],
            h)
=============================================================================
