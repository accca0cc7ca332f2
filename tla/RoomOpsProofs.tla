--------------------------- MODULE RoomOpsProofs ---------------------------
(***************************************************************************)
(* Lemmas about the closures of RoomOps, for every set of clients, every   *)
(* configuration and every number of timers: what each one preserves.      *)
(***************************************************************************)
EXTENDS RoomOps, FiniteSetTheorems, TLAPS

(***************************************************************************)
(* What every closure preserves: the type, a finite set of players within  *)
(* the cap, and no ticking timer but the armed one.                        *)
(***************************************************************************)
Seats(cfg, rm) ==
    /\ IsFiniteSet(rm.players)
    /\ cfg.maxPlayers > 0 => Cardinality(rm.players) <= cfg.maxPlayers

Armed(rm) ==
    \A t \in Timer : rm.timers[t] = "ticking" => t = rm.emptyTimer

RoomOK(cfg, rm) == rm \in RoomState /\ Seats(cfg, rm) /\ Armed(rm)

\* There is a timer, so FreshTimer names one.
LEMMA FreshTimerType ==
    ASSUME NEW rm
    PROVE  FreshTimer(rm) \in Timer
  <1>1. \E t \in Timer :
           (\E u \in Timer : rm.timers[u] = "free") => rm.timers[t] = "free"
    <2>1. 1 \in Timer
      BY MaxExpiredAssumption DEF Timer
    <2>2. CASE \E u \in Timer : rm.timers[u] = "free"
      BY <2>2
    <2>3. CASE ~ \E u \in Timer : rm.timers[u] = "free"
      BY <2>1, <2>3
    <2> QED BY <2>2, <2>3
  <1> QED BY <1>1 DEF FreshTimer

\* cancelEmptyRemoval touches the timers only, and nothing ticks after it.
LEMMA CancelLemma ==
    ASSUME NEW rm \in RoomState, Armed(rm)
    PROVE  /\ cancelEmptyRemoval(rm) \in RoomState
           /\ cancelEmptyRemoval(rm).players = rm.players
           /\ cancelEmptyRemoval(rm).isOpen = rm.isOpen
           /\ cancelEmptyRemoval(rm).keepOnEmpty = rm.keepOnEmpty
           /\ cancelEmptyRemoval(rm).onEmptyDue = rm.onEmptyDue
           /\ cancelEmptyRemoval(rm).emptyTimer = NoTimer
           /\ \A t \in Timer : cancelEmptyRemoval(rm).timers[t] # "ticking"
  BY DEF cancelEmptyRemoval, RoomState, TimerState, Armed

\* Arming a timer when none ticks leaves exactly that one ticking.
LEMMA ArmLemma ==
    ASSUME NEW rm \in RoomState,
           \A t \in Timer : rm.timers[t] # "ticking"
    PROVE  /\ ArmTimer(rm) \in RoomState
           /\ Armed(ArmTimer(rm))
           /\ ArmTimer(rm).players = rm.players
           /\ ArmTimer(rm).isOpen = rm.isOpen
           /\ ArmTimer(rm).keepOnEmpty = rm.keepOnEmpty
           /\ ArmTimer(rm).onEmptyDue = rm.onEmptyDue
  BY FreshTimerType DEF ArmTimer, RoomState, TimerState, Armed

\* scheduleEmptyRemoval keeps the players, the door and the keep; with a
\* grace it starts no removal by itself.
LEMMA ScheduleLemma ==
    ASSUME NEW cfg \in RoomConfig, NEW rm \in RoomState, Armed(rm)
    PROVE  LET s == scheduleEmptyRemoval(cfg, rm)
           IN  /\ s \in RoomState
               /\ Armed(s)
               /\ s.players = rm.players
               /\ s.isOpen = rm.isOpen
               /\ s.keepOnEmpty = rm.keepOnEmpty
               /\ cfg.emptyGrace => s.onEmptyDue = rm.onEmptyDue
  <1> DEFINE s == scheduleEmptyRemoval(cfg, rm)
             k == cancelEmptyRemoval(rm)
  <1>1. CASE rm.keepOnEmpty
    BY <1>1 DEF scheduleEmptyRemoval
  <1>2. CASE ~rm.keepOnEmpty /\ cfg.emptyGrace
    <2>1. s = ArmTimer(k)
      BY <1>2 DEF scheduleEmptyRemoval
    <2> HIDE DEF s, k
    <2>2. /\ k \in RoomState /\ k.players = rm.players /\ k.isOpen = rm.isOpen
          /\ k.keepOnEmpty = rm.keepOnEmpty /\ k.onEmptyDue = rm.onEmptyDue
          /\ \A t \in Timer : k.timers[t] # "ticking"
      BY CancelLemma DEF k
    <2>3. s \in RoomState /\ Armed(s) /\ s.players = k.players
          /\ s.isOpen = k.isOpen /\ s.keepOnEmpty = k.keepOnEmpty
          /\ s.onEmptyDue = k.onEmptyDue
      BY <2>1, <2>2, ArmLemma
    <2> QED BY <2>2, <2>3 DEF s
  <1>3. CASE ~rm.keepOnEmpty /\ ~cfg.emptyGrace
    <2>1. s = [k EXCEPT !.onEmptyDue = TRUE]
      BY <1>3 DEF scheduleEmptyRemoval
    <2> HIDE DEF s, k
    <2>2. /\ k \in RoomState /\ k.players = rm.players /\ k.isOpen = rm.isOpen
          /\ k.keepOnEmpty = rm.keepOnEmpty
          /\ \A t \in Timer : k.timers[t] # "ticking"
      BY CancelLemma DEF k
    <2>3. s \in RoomState /\ s.players = k.players /\ s.isOpen = k.isOpen
          /\ s.keepOnEmpty = k.keepOnEmpty /\ s.timers = k.timers
      BY <2>1, <2>2 DEF RoomState
    <2>4. Armed(s)
      BY <2>2, <2>3 DEF Armed
    <2> QED BY <1>3, <2>2, <2>3, <2>4 DEF s
  <1> QED BY <1>1, <1>2, <1>3

\* Module code changes the keep and the pending removal, never the players
\* or the door; with a grace it starts no removal by itself.
LEMMA HookLemma ==
    ASSUME NEW cfg \in RoomConfig, NEW rm \in RoomState, Armed(rm), NEW h
    PROVE  LET s == RunHook(cfg, rm, h)
           IN  /\ s \in RoomState
               /\ Armed(s)
               /\ s.players = rm.players
               /\ s.isOpen = rm.isOpen
               /\ cfg.emptyGrace => s.onEmptyDue = rm.onEmptyDue
  <1> DEFINE Kept(s) == /\ s \in RoomState
                        /\ Armed(s)
                        /\ s.players = rm.players
                        /\ s.isOpen = rm.isOpen
                        /\ cfg.emptyGrace => s.onEmptyDue = rm.onEmptyDue
  <1>1. ASSUME NEW keep \in BOOLEAN
        PROVE  Kept(SetKeepOnEmpty(cfg, rm, keep))
    <2> DEFINE w == [rm EXCEPT !.keepOnEmpty = keep]
    <2>1. /\ w \in RoomState /\ w.players = rm.players /\ w.isOpen = rm.isOpen
          /\ w.onEmptyDue = rm.onEmptyDue /\ w.timers = rm.timers
          /\ w.emptyTimer = rm.emptyTimer
      BY DEF RoomState
    <2>2. Armed(w)
      BY <2>1 DEF Armed
    <2>3. SetKeepOnEmpty(cfg, rm, keep) =
             IF keep THEN cancelEmptyRemoval(w)
             ELSE IF rm.keepOnEmpty /\ rm.players = {}
                    THEN scheduleEmptyRemoval(cfg, w) ELSE w
      BY DEF SetKeepOnEmpty
    <2> HIDE DEF w
    <2>4. Kept(cancelEmptyRemoval(w))
      BY <2>1, <2>2, CancelLemma DEF Armed
    <2>5. Kept(scheduleEmptyRemoval(cfg, w))
      BY <2>1, <2>2, ScheduleLemma
    <2>6. Kept(w)
      BY <2>1, <2>2
    <2> HIDE DEF Kept
    <2> QED BY <2>3, <2>4, <2>5, <2>6
  <1>2. Kept(rm)
    OBVIOUS
  <1>3. \/ RunHook(cfg, rm, h) = SetKeepOnEmpty(cfg, rm, TRUE)
        \/ RunHook(cfg, rm, h) = SetKeepOnEmpty(cfg, rm, FALSE)
        \/ RunHook(cfg, rm, h) = rm
    BY DEF RunHook
  <1>4. Kept(RunHook(cfg, rm, h))
    <2> HIDE DEF Kept
    <2> QED BY <1>1, <1>2, <1>3
  <1> QED BY <1>4

(***************************************************************************)
(* A room that is not full has a seat left.  The comparison is with the    *)
(* count truncated to 16 bits; within the cap the count is below 2^16, so  *)
(* the truncation changes nothing.                                         *)
(***************************************************************************)
LEMMA SeatLeft ==
    ASSUME NEW cfg \in RoomConfig, NEW rm \in RoomState, Seats(cfg, rm),
           ~Full(cfg, rm), NEW c \in Client,
           NEW rn \in RoomState, rn.players = rm.players \cup {c}
    PROVE  Seats(cfg, rn)
  <1>1. IsFiniteSet(rn.players)
    BY FS_AddElement DEF Seats
  <1>2. /\ Cardinality(rm.players) \in Nat
        /\ Cardinality(rn.players) \in Nat
        /\ Cardinality(rn.players) <= Cardinality(rm.players) + 1
    <2>1. IsFiniteSet(rm.players)
      BY DEF Seats
    <2>2. Cardinality(rm.players) \in Nat
      BY <2>1, FS_CardinalityType
    <2>3. Cardinality(rn.players) =
             IF c \in rm.players THEN Cardinality(rm.players)
                                 ELSE Cardinality(rm.players) + 1
      BY <2>1, FS_AddElement
    <2> QED BY <2>2, <2>3
  <1>3. ASSUME cfg.maxPlayers > 0
        PROVE  Cardinality(rn.players) <= cfg.maxPlayers
    <2>1. cfg.maxPlayers \in Nat /\ cfg.maxPlayers < 65536
      BY DEF RoomConfig, Uint16Value
    <2>2. Cardinality(rm.players) <= cfg.maxPlayers
      BY <1>3 DEF Seats
    <2>3. Cardinality(rm.players) % 65536 = Cardinality(rm.players)
      BY <1>2, <2>1, <2>2
    <2>4. ~(Cardinality(rm.players) >= cfg.maxPlayers)
      BY <1>3, <2>3 DEF Full, Uint16
    <2> QED BY <1>2, <2>1, <2>4
  <1> QED BY <1>1, <1>3 DEF Seats

\* Removing a player, or nobody, keeps the seats within the cap.
LEMMA SeatFreed ==
    ASSUME NEW cfg \in RoomConfig, NEW rm \in RoomState, Seats(cfg, rm),
           NEW rn \in RoomState, rn.players \subseteq rm.players
    PROVE  Seats(cfg, rn)
  <1>1. IsFiniteSet(rn.players) /\ Cardinality(rn.players) <= Cardinality(rm.players)
    BY FS_Subset DEF Seats
  <1>2. Cardinality(rm.players) \in Nat /\ Cardinality(rn.players) \in Nat
    BY <1>1, FS_CardinalityType DEF Seats
  <1>3. cfg.maxPlayers \in Nat
    BY DEF RoomConfig, Uint16Value
  <1> QED BY <1>1, <1>2, <1>3 DEF Seats

-----------------------------------------------------------------------------
(* The closures preserve RoomOK.                                           *)

\* Module code called on the actor keeps a room sound (room.go:287-305).
LEMMA HookOK ==
    ASSUME NEW cfg \in RoomConfig, NEW rm, RoomOK(cfg, rm), NEW h
    PROVE  RoomOK(cfg, RunHook(cfg, rm, h))
  <1>1. /\ RunHook(cfg, rm, h) \in RoomState
        /\ Armed(RunHook(cfg, rm, h))
        /\ RunHook(cfg, rm, h).players = rm.players
    BY HookLemma DEF RoomOK
  <1> QED BY <1>1 DEF RoomOK, Seats

\* Seating a client in a room that is not full.
LEMMA SeatOK ==
    ASSUME NEW cfg \in RoomConfig, NEW rm, RoomOK(cfg, rm), ~Full(cfg, rm),
           NEW c \in Client
    PROVE  RoomOK(cfg, cancelEmptyRemoval([rm EXCEPT !.players = @ \cup {c}]))
  <1> DEFINE w == [rm EXCEPT !.players = @ \cup {c}]
  <1>1. w \in RoomState /\ w.players = rm.players \cup {c} /\ Armed(w)
    BY DEF RoomOK, RoomState, Armed
  <1> HIDE DEF w
  <1>2. Seats(cfg, w)
    BY <1>1, SeatLeft DEF RoomOK
  <1>3. RoomOK(cfg, cancelEmptyRemoval(w))
    BY <1>1, <1>2, CancelLemma DEF RoomOK, Armed, Seats
  <1> QED BY <1>3 DEF w

\* Taking a client out, and what onLeave does then.
LEMMA VacateOK ==
    ASSUME NEW cfg \in RoomConfig, NEW rm, RoomOK(cfg, rm), NEW c, NEW h
    PROVE  RoomOK(cfg, RunHook(cfg, [rm EXCEPT !.players = @ \ {c}], h))
  <1> DEFINE w == [rm EXCEPT !.players = @ \ {c}]
  <1>1. w \in RoomState /\ w.players \subseteq rm.players /\ Armed(w)
    BY DEF RoomOK, RoomState, Armed
  <1> HIDE DEF w
  <1>2. RoomOK(cfg, w)
    BY <1>1, SeatFreed DEF RoomOK
  <1>3. RoomOK(cfg, RunHook(cfg, w, h))
    BY <1>2, HookOK
  <1> QED BY <1>3 DEF w

\* The closure of Join keeps a room sound (room.go:181-214).
LEMMA JoinOK ==
    ASSUME NEW cfg \in RoomConfig, NEW rm, RoomOK(cfg, rm), NEW c \in Client,
           NEW h
    PROVE  LET x == JoinFn(cfg, rm, c, h)
           IN  x \in ResultType /\ RoomOK(cfg, x.room)
  <1> DEFINE seated == cancelEmptyRemoval([rm EXCEPT !.players = @ \cup {c}])
  <1>1. ASSUME ~Full(cfg, rm) PROVE RoomOK(cfg, RunHook(cfg, seated, h))
    BY <1>1, SeatOK, HookOK
  <1>2. JoinFn(cfg, rm, c, h) =
           IF ~rm.isOpen THEN Result(rm, "closed", FALSE, FALSE)
           ELSE IF Full(cfg, rm) THEN Result(rm, "full", FALSE, FALSE)
           ELSE IF c \in rm.players THEN Result(rm, "nil", FALSE, FALSE)
           ELSE Result(RunHook(cfg, seated, h), "nil", TRUE, FALSE)
    BY DEF JoinFn
  <1> HIDE DEF seated
  <1> QED BY <1>1, <1>2 DEF Result, ResultType, Err, RoomOK

\* The closure of Leave keeps a room sound (room.go:261-285).
LEMMA LeaveOK ==
    ASSUME NEW cfg \in RoomConfig, NEW rm, RoomOK(cfg, rm), NEW c, NEW h
    PROVE  LET x == LeaveFn(cfg, rm, c, h)
           IN  x \in ResultType /\ RoomOK(cfg, x.room)
  <1> DEFINE left == RunHook(cfg, [rm EXCEPT !.players = @ \ {c}], h)
  <1>1. RoomOK(cfg, left)
    BY VacateOK
  <1>2. LeaveFn(cfg, rm, c, h) =
           IF c \notin rm.players THEN Result(rm, "nil", FALSE, FALSE)
           ELSE Result(left, "nil", TRUE, h # "panic" /\ left.players = {})
    BY DEF LeaveFn
  <1> HIDE DEF left
  <1> QED BY <1>1, <1>2 DEF Result, ResultType, Err, RoomOK

\* JoinReplace is never refused for want of a seat on an empty room, so the
\* removal it would start there (becameEmpty) never starts.
LEMMA JoinReplaceOK ==
    ASSUME NEW cfg \in RoomConfig, NEW rm, RoomOK(cfg, rm), NEW old,
           NEW c \in Client, NEW hl, NEW hj
    PROVE  LET x == JoinReplaceFn(cfg, rm, old, c, hl, hj)
           IN  x \in ResultType /\ RoomOK(cfg, x.room) /\ ~x.empty
  <1> DEFINE vacated == IF old \in rm.players
                          THEN RunHook(cfg, [rm EXCEPT !.players = @ \ {old}], hl)
                          ELSE rm
             seated  == cancelEmptyRemoval(
                          [vacated EXCEPT !.players = @ \cup {c}])
             empty   == vacated.players = {} /\ ~vacated.keepOnEmpty
  <1>1. RoomOK(cfg, vacated)
    BY VacateOK
  <1>2. JoinReplaceFn(cfg, rm, old, c, hl, hj) =
           IF ~rm.isOpen THEN Result(rm, "closed", FALSE, FALSE)
           ELSE IF old \in rm.players /\ hl = "panic"
             THEN Result(vacated, "nil", TRUE, FALSE)
           ELSE IF Full(cfg, vacated)
             THEN Result(vacated, "full", FALSE, empty)
           ELSE Result(RunHook(cfg, seated, hj), "nil", TRUE, FALSE)
    BY DEF JoinReplaceFn
  <1>3. ASSUME Full(cfg, vacated) PROVE vacated.players # {}
    <2>1. cfg.maxPlayers > 0 /\ Cardinality(vacated.players) % 65536 >= cfg.maxPlayers
      BY <1>3 DEF Full, Uint16
    <2>2. cfg.maxPlayers \in Nat
      BY DEF RoomConfig, Uint16Value
    <2>3. SUFFICES ASSUME vacated.players = {} PROVE FALSE
      OBVIOUS
    <2>4. Cardinality(vacated.players) = 0
      BY <2>3, FS_EmptySet
    <2> HIDE DEF vacated
    <2> QED BY <2>1, <2>2, <2>4
  <1> HIDE DEF vacated
  <1>4. ASSUME ~Full(cfg, vacated) PROVE RoomOK(cfg, RunHook(cfg, seated, hj))
    BY <1>1, <1>4, SeatOK, HookOK
  <1>5. ASSUME Full(cfg, vacated) PROVE empty = FALSE
    BY <1>3, <1>5
  <1> HIDE DEF seated, empty
  <1> DEFINE x == JoinReplaceFn(cfg, rm, old, c, hl, hj)
             Good == x \in ResultType /\ RoomOK(cfg, x.room) /\ ~x.empty
  <1> SUFFICES Good
    OBVIOUS
  <1>6. ASSUME NEW r, RoomOK(cfg, r), NEW err \in Err, NEW changed \in BOOLEAN,
               x = Result(r, err, changed, FALSE)
        PROVE  Good
    BY <1>6 DEF Result, ResultType, RoomOK
  <1>7. CASE ~rm.isOpen
    <2>1. x = Result(rm, "closed", FALSE, FALSE)
      BY <1>2, <1>7
    <2> HIDE DEF x, Good
    <2> QED BY <1>6, <2>1 DEF Err
  <1>8. CASE rm.isOpen /\ old \in rm.players /\ hl = "panic"
    <2>1. x = Result(vacated, "nil", TRUE, FALSE)
      BY <1>2, <1>8
    <2> HIDE DEF x, Good
    <2> QED BY <1>1, <1>6, <2>1 DEF Err
  <1>9. CASE rm.isOpen /\ ~(old \in rm.players /\ hl = "panic") /\ Full(cfg, vacated)
    <2>1. x = Result(vacated, "full", FALSE, FALSE)
      BY <1>2, <1>5, <1>9
    <2> HIDE DEF x, Good
    <2> QED BY <1>1, <1>6, <2>1 DEF Err
  <1>10. CASE rm.isOpen /\ ~(old \in rm.players /\ hl = "panic") /\ ~Full(cfg, vacated)
    <2>1. x = Result(RunHook(cfg, seated, hj), "nil", TRUE, FALSE)
      BY <1>2, <1>10
    <2> HIDE DEF x, Good
    <2> QED BY <1>4, <1>6, <1>10, <2>1 DEF Err
  <1> QED BY <1>7, <1>8, <1>9, <1>10

\* The closure of HandleMessage keeps a room sound (room.go:527-557).
LEMMA HandleMessageOK ==
    ASSUME NEW cfg \in RoomConfig, NEW rm, RoomOK(cfg, rm), NEW c, NEW h
    PROVE  LET x == HandleMessageFn(cfg, rm, c, h)
           IN  x \in ResultType /\ RoomOK(cfg, x.room)
  <1>1. RoomOK(cfg, RunHook(cfg, rm, h))
    BY HookOK
  <1> QED BY <1>1 DEF HandleMessageFn, Result, ResultType, Err, RoomOK

\* The closure Leave submits last keeps a room sound (room.go:280-284).
LEMMA ScheduleOK ==
    ASSUME NEW cfg \in RoomConfig, NEW rm, RoomOK(cfg, rm)
    PROVE  LET x == ScheduleFn(cfg, rm)
           IN  x \in ResultType /\ RoomOK(cfg, x.room)
  <1>1. /\ scheduleEmptyRemoval(cfg, rm) \in RoomState
        /\ Armed(scheduleEmptyRemoval(cfg, rm))
        /\ scheduleEmptyRemoval(cfg, rm).players = rm.players
    BY ScheduleLemma DEF RoomOK
  <1> QED BY <1>1 DEF ScheduleFn, Result, ResultType, Err, RoomOK, Seats

\* Close, Open and the readers keep a room sound (room.go:339-390).
LEMMA DoorOK ==
    ASSUME NEW cfg \in RoomConfig, NEW rm, RoomOK(cfg, rm)
    PROVE  /\ CloseFn(rm) \in ResultType /\ RoomOK(cfg, CloseFn(rm).room)
           /\ OpenFn(rm) \in ResultType /\ RoomOK(cfg, OpenFn(rm).room)
           /\ InfoFn(rm) \in ResultType /\ RoomOK(cfg, InfoFn(rm).room)
  BY DEF CloseFn, OpenFn, InfoFn, Result, ResultType, Err, RoomOK, RoomState,
         Seats, Armed

\* A room starts sound, whatever OnInit does (room.go:56-87).
LEMMA NewRoomOK ==
    ASSUME NEW cfg \in RoomConfig, NEW h
    PROVE  RoomOK(cfg, newRoom(cfg, h))
  <1> DEFINE w == [ players |-> {}, isOpen |-> TRUE, keepOnEmpty |-> FALSE,
                    emptyTimer |-> NoTimer, timers |-> [t \in Timer |-> "free"],
                    onEmptyDue |-> FALSE ]
  <1>1. w \in RoomState /\ Armed(w) /\ w.players = {}
    BY DEF RoomState, TimerState, Armed
  <1>2. newRoom(cfg, h) = RunHook(cfg, w, h)
    BY DEF newRoom
  <1> HIDE DEF w
  <1>3. Seats(cfg, w)
    <2>1. cfg.maxPlayers \in Nat
      BY DEF RoomConfig, Uint16Value
    <2> QED BY <1>1, <2>1, FS_EmptySet DEF Seats
  <1> QED BY <1>1, <1>2, <1>3, HookOK DEF RoomOK

-----------------------------------------------------------------------------
(* With a grace, no closure but the timer's starts the removal.            *)

\* Changing the players, cancelling and running module code start none.
LEMMA QuietSteps ==
    ASSUME NEW cfg \in RoomConfig, cfg.emptyGrace, NEW rm \in RoomState,
           Armed(rm), NEW S \in SUBSET Client, NEW h
    PROVE  LET w == [rm EXCEPT !.players = S]
               k == cancelEmptyRemoval(w)
           IN  /\ w \in RoomState /\ Armed(w)
               /\ RunHook(cfg, w, h).onEmptyDue = rm.onEmptyDue
               /\ RunHook(cfg, w, h) \in RoomState /\ Armed(RunHook(cfg, w, h))
               /\ RunHook(cfg, k, h).onEmptyDue = rm.onEmptyDue
  <1> DEFINE w == [rm EXCEPT !.players = S]
             k == cancelEmptyRemoval(w)
  <1>1. w \in RoomState /\ Armed(w) /\ w.onEmptyDue = rm.onEmptyDue
    BY DEF RoomState, Armed
  <1> HIDE DEF w
  <1>2. k \in RoomState /\ Armed(k) /\ k.onEmptyDue = rm.onEmptyDue
    BY <1>1, CancelLemma DEF Armed
  <1> HIDE DEF k
  <1>3. /\ RunHook(cfg, w, h).onEmptyDue = rm.onEmptyDue
        /\ RunHook(cfg, w, h) \in RoomState /\ Armed(RunHook(cfg, w, h))
        /\ RunHook(cfg, k, h).onEmptyDue = rm.onEmptyDue
    BY <1>1, <1>2, HookLemma
  <1> QED BY <1>1, <1>3 DEF w, k

\* No closure of a caller starts the removal by itself.
LEMMA QuietClosures ==
    ASSUME NEW cfg \in RoomConfig, cfg.emptyGrace, NEW rm \in RoomState,
           Armed(rm), NEW c \in Client, NEW old \in Client, NEW h, NEW hj
    PROVE  /\ JoinFn(cfg, rm, c, h).room.onEmptyDue = rm.onEmptyDue
           /\ JoinReplaceFn(cfg, rm, old, c, h, hj).room.onEmptyDue = rm.onEmptyDue
           /\ LeaveFn(cfg, rm, c, h).room.onEmptyDue = rm.onEmptyDue
           /\ HandleMessageFn(cfg, rm, c, h).room.onEmptyDue = rm.onEmptyDue
           /\ ScheduleFn(cfg, rm).room.onEmptyDue = rm.onEmptyDue
  <1>1. rm.players \in SUBSET Client
    BY DEF RoomState
  <1>2. JoinFn(cfg, rm, c, h).room.onEmptyDue = rm.onEmptyDue
    <2> DEFINE k == cancelEmptyRemoval([rm EXCEPT !.players = @ \cup {c}])
    <2>1. RunHook(cfg, k, h).onEmptyDue = rm.onEmptyDue
      BY <1>1, QuietSteps
    <2>2. JoinFn(cfg, rm, c, h).room \in {rm, RunHook(cfg, k, h)}
      BY DEF JoinFn, Result
    <2> QED BY <2>1, <2>2
  <1>3. JoinReplaceFn(cfg, rm, old, c, h, hj).room.onEmptyDue = rm.onEmptyDue
    <2> DEFINE v == IF old \in rm.players
                      THEN RunHook(cfg, [rm EXCEPT !.players = @ \ {old}], h)
                      ELSE rm
               k == cancelEmptyRemoval([v EXCEPT !.players = @ \cup {c}])
    <2>1. v \in RoomState /\ Armed(v) /\ v.onEmptyDue = rm.onEmptyDue
      <3> DEFINE w == [rm EXCEPT !.players = @ \ {old}]
                 u == RunHook(cfg, w, h)
      <3>1. w \in RoomState /\ Armed(w) /\ w.onEmptyDue = rm.onEmptyDue
        BY DEF RoomState, Armed
      <3>2. v = IF old \in rm.players THEN u ELSE rm
        OBVIOUS
      <3> HIDE DEF v, w
      <3>3. u \in RoomState /\ Armed(u) /\ u.onEmptyDue = rm.onEmptyDue
        BY <3>1, HookLemma
      <3> HIDE DEF u
      <3> QED BY <3>2, <3>3
    <2>2. JoinReplaceFn(cfg, rm, old, c, h, hj).room \in {rm, v, RunHook(cfg, k, hj)}
      BY DEF JoinReplaceFn, Result
    <2> HIDE DEF v
    <2>3. RunHook(cfg, k, hj).onEmptyDue = v.onEmptyDue
      <3>1. v.players \cup {c} \in SUBSET Client
        BY <2>1 DEF RoomState
      <3> QED BY <2>1, <3>1, QuietSteps
    <2> QED BY <2>1, <2>2, <2>3
  <1>4. LeaveFn(cfg, rm, c, h).room.onEmptyDue = rm.onEmptyDue
    <2> DEFINE v == RunHook(cfg, [rm EXCEPT !.players = @ \ {c}], h)
    <2>1. v.onEmptyDue = rm.onEmptyDue
      BY <1>1, QuietSteps
    <2>2. LeaveFn(cfg, rm, c, h).room \in {rm, v}
      BY DEF LeaveFn, Result
    <2> QED BY <2>1, <2>2
  <1>5. HandleMessageFn(cfg, rm, c, h).room.onEmptyDue = rm.onEmptyDue
    BY HookLemma DEF HandleMessageFn, Result
  <1>6. ScheduleFn(cfg, rm).room.onEmptyDue = rm.onEmptyDue
    BY ScheduleLemma DEF ScheduleFn, Result
  <1> QED BY <1>2, <1>3, <1>4, <1>5, <1>6
=============================================================================
