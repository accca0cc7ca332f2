------------------------ MODULE RoomRefinementProofs ------------------------
(***************************************************************************)
(* The room implements the table of seats (module SeatTable), for any      *)
(* callers, clients, cap, inbox capacity and module code; and a swap does  *)
(* not count as the room emptying.                                         *)
(***************************************************************************)
EXTENDS RoomProofs

(***************************************************************************)
(* What the mapping needs beside Inv.  Matched: a closure in the inbox is  *)
(* for the client and the old client of its caller's call.  Orphans: one   *)
(* that lost its caller runs on a cancelled room only.  Ended: Remove has  *)
(* returned only after the actor.  Shaped: a caller that publishes         *)
(* PlayerLeft is in a JoinReplace or in a Leave, which has no error.       *)
(***************************************************************************)
Matched ==
    \A i \in DOMAIN inbox : \A p \in Caller :
        inbox[i].by = p => /\ inbox[i].client = ClientOf[p]
                           /\ inbox[i].old = call[p].old

Orphans ==
    \A i \in DOMAIN inbox :
        inbox[i].by \notin Caller /\ inbox[i].fn # "Grace" => CtxDone

Ended == lifecycle = "removed" => actor = "exited"

Shaped ==
    \A p \in Caller :
        /\ call[p].pc = "left" => call[p].fn \in {"JoinReplace", "Leave"}
        /\ call[p].fn = "Leave" => call[p].err = "nil"

Orderly == Matched /\ Orphans /\ Ended /\ Shaped

\* The table counts as the room does.
LEMMA SameCount == ASSUME NEW S PROVE Table!Cardinality(S) = Cardinality(S)
  BY DEF Table!Cardinality, Cardinality

\* Whether the cap is reached, with the count truncated or not.
LEMMA FullIsExact ==
    ASSUME NEW rm, RoomOK(config, rm)
    PROVE  Full(config, rm) <=> Table!NoSeatBeside(rm.players)
  <1>1. config.maxPlayers = MaxPlayers
    BY DEF config
  <1>2. MaxPlayers \in Nat /\ MaxPlayers < 65536
    BY MaxPlayersAssumption DEF Uint16Value
  <1>3. Cardinality(rm.players) \in Nat
    BY FS_CardinalityType DEF RoomOK, Seats
  <1>4. MaxPlayers > 0 => Cardinality(rm.players) <= MaxPlayers
    BY <1>1 DEF RoomOK, Seats
  <1>5. MaxPlayers > 0 =>
           Cardinality(rm.players) % 65536 = Cardinality(rm.players)
    BY <1>2, <1>3, <1>4
  <1> QED BY <1>1, <1>5, SameCount DEF Full, Uint16, Table!NoSeatBeside

\* A seat is left where the old client sat: a swap that finds the room full
\* has taken nobody out.
LEMMA SwapNotRefused ==
    ASSUME RoomOK(config, room), NEW old \in room.players,
           NEW v, v.players = room.players \ {old}, RoomOK(config, v)
    PROVE  ~Full(config, v)
  <1>1. IsFiniteSet(room.players) /\ Cardinality(room.players) \in Nat
    BY FS_CardinalityType DEF RoomOK, Seats
  <1>2. Cardinality(v.players) = Cardinality(room.players) - 1
    BY <1>1, FS_RemoveElement
  <1>3. MaxPlayers \in Nat
    BY MaxPlayersAssumption DEF Uint16Value
  <1>4. MaxPlayers > 0 => Cardinality(room.players) <= MaxPlayers
    BY DEF RoomOK, Seats, config
  <1>5. ~(MaxPlayers > 0 /\ Cardinality(v.players) >= MaxPlayers)
    BY <1>1, <1>2, <1>3, <1>4
  <1>6. ~Table!NoSeatBeside(v.players)
    BY <1>5, SameCount DEF Table!NoSeatBeside
  <1> QED BY <1>6, FullIsExact

-----------------------------------------------------------------------------
(* What the closures do to the seats and the door.                         *)

\* Module code after a change of the players leaves them and the door alone.
LEMMA HookKeeps ==
    ASSUME NEW rm \in RoomState, Armed(rm), NEW S \in SUBSET Client, NEW h
    PROVE  LET w == [rm EXCEPT !.players = S]
               k == cancelEmptyRemoval(w)
           IN  /\ RunHook(config, w, h).players = S
               /\ RunHook(config, w, h).isOpen = rm.isOpen
               /\ RunHook(config, k, h).players = S
               /\ RunHook(config, k, h).isOpen = rm.isOpen
  <1> DEFINE w == [rm EXCEPT !.players = S]
             k == cancelEmptyRemoval(w)
  <1>1. w \in RoomState /\ Armed(w) /\ w.players = S /\ w.isOpen = rm.isOpen
    BY DEF RoomState, Armed
  <1> HIDE DEF w
  <1>2. k \in RoomState /\ Armed(k) /\ k.players = S /\ k.isOpen = rm.isOpen
    BY <1>1, CancelLemma DEF Armed
  <1> HIDE DEF k
  <1>3. /\ RunHook(config, w, h).players = S
        /\ RunHook(config, w, h).isOpen = rm.isOpen
        /\ RunHook(config, k, h).players = S
        /\ RunHook(config, k, h).isOpen = rm.isOpen
    BY <1>1, <1>2, ConfigType, HookLemma
  <1> QED BY <1>3 DEF w, k

\* So it does when a client was taken out.
LEMMA VacateKeeps ==
    ASSUME NEW rm \in RoomState, Armed(rm), NEW c, NEW h
    PROVE  LET v == RunHook(config, [rm EXCEPT !.players = @ \ {c}], h)
           IN  v.players = rm.players \ {c} /\ v.isOpen = rm.isOpen
  <1> DEFINE S == rm.players \ {c}
  <1>1. S \in SUBSET Client
    BY DEF RoomState
  <1>2. [rm EXCEPT !.players = @ \ {c}] = [rm EXCEPT !.players = S]
    OBVIOUS
  <1> HIDE DEF S
  <1>3. /\ RunHook(config, [rm EXCEPT !.players = S], h).players = S
        /\ RunHook(config, [rm EXCEPT !.players = S], h).isOpen = rm.isOpen
    BY <1>1, HookKeeps
  <1> QED BY <1>2, <1>3 DEF S

(***************************************************************************)
(* A closure of a method does what the table allows that method, and its   *)
(* error says so.                                                          *)
(***************************************************************************)
LEMMA ClosureEffect ==
    ASSUME RoomOK(config, room), NEW e \in Entry, e.fn \in Method,
           NEW h1 \in Hooks, NEW h2 \in Hooks,
           room' = Closure(e, h1, h2).room
    PROVE  Table!Effect(e.fn, e.client, e.old, Closure(e, h1, h2).err = "nil")
  <1> DEFINE x == Closure(e, h1, h2)
  <1>1. room \in RoomState /\ Armed(room) /\ room.players \in SUBSET Client
    BY DEF RoomOK, RoomState
  <1>2. e.client \in Client /\ e.old \in Client
    BY DEF Entry
  <1>3. CASE e.fn = "Join"
    <2> DEFINE k == cancelEmptyRemoval([room EXCEPT !.players = @ \cup {e.client}])
    <2>1. x = JoinFn(config, room, e.client, h1)
      BY <1>3 DEF Closure
    <2>2. /\ RunHook(config, k, h1).players = room.players \cup {e.client}
          /\ RunHook(config, k, h1).isOpen = room.isOpen
      BY <1>1, <1>2, HookKeeps
    <2>3. Full(config, room) <=> Table!NoSeatBeside(room.players)
      BY FullIsExact
    <2>4. x = IF ~room.isOpen THEN Result(room, "closed", FALSE, FALSE)
              ELSE IF Full(config, room) THEN Result(room, "full", FALSE, FALSE)
              ELSE IF e.client \in room.players THEN Result(room, "nil", FALSE, FALSE)
              ELSE Result(RunHook(config, k, h1), "nil", TRUE, FALSE)
      BY <2>1 DEF JoinFn
    <2> HIDE DEF k, x
    <2>5. room' = x.room
      BY DEF x
    <2>6. CASE ~room.isOpen \/ Full(config, room)
      <3>1. room' = room /\ x.err # "nil"
        BY <2>4, <2>5, <2>6 DEF Result
      <3> QED BY <1>3, <2>3, <2>6, <3>1 DEF Table!Effect, x
    <2>7. CASE room.isOpen /\ ~Full(config, room)
      <3>1. room'.players = room.players \cup {e.client}
            /\ room'.isOpen = room.isOpen /\ x.err = "nil"
        BY <2>2, <2>4, <2>5, <2>7 DEF Result
      <3> QED BY <1>3, <2>3, <2>7, <3>1 DEF Table!Effect, x
    <2> QED BY <2>6, <2>7
  <1>4. CASE e.fn = "JoinReplace"
    <2> DEFINE v == IF e.old \in room.players
                      THEN RunHook(config, [room EXCEPT !.players = @ \ {e.old}], h1)
                      ELSE room
               k == cancelEmptyRemoval([v EXCEPT !.players = @ \cup {e.client}])
               empty == v.players = {} /\ ~v.keepOnEmpty
    <2>1. x = IF ~room.isOpen THEN Result(room, "closed", FALSE, FALSE)
              ELSE IF e.old \in room.players /\ h1 = "panic"
                THEN Result(v, "nil", TRUE, FALSE)
              ELSE IF Full(config, v) THEN Result(v, "full", FALSE, empty)
              ELSE Result(RunHook(config, k, h2), "nil", TRUE, FALSE)
      BY <1>4 DEF Closure, JoinReplaceFn
    <2>2. v.players = room.players \ {e.old} /\ v.isOpen = room.isOpen
      <3>1. /\ RunHook(config, [room EXCEPT !.players = @ \ {e.old}], h1).players
                 = room.players \ {e.old}
            /\ RunHook(config, [room EXCEPT !.players = @ \ {e.old}], h1).isOpen
                 = room.isOpen
        BY <1>1, VacateKeeps
      <3>2. e.old \notin room.players => room.players = room.players \ {e.old}
        OBVIOUS
      <3> QED BY <3>1, <3>2
    <2>3. RoomOK(config, v)
      BY VacateOK, ConfigType
    <2> HIDE DEF v
    <2>4. /\ RunHook(config, k, h2).players = v.players \cup {e.client}
          /\ RunHook(config, k, h2).isOpen = v.isOpen
      BY <1>2, <2>3, HookKeeps DEF RoomOK, RoomState
    <2>5. Full(config, v) <=> Table!NoSeatBeside(v.players)
      BY <2>3, FullIsExact
    <2> HIDE DEF k, x, empty
    <2>6. room' = x.room
      BY DEF x
    <2>7. CASE ~room.isOpen
      <3>1. room' = room /\ x.err # "nil"
        BY <2>1, <2>6, <2>7 DEF Result
      <3> QED BY <1>4, <2>7, <3>1 DEF Table!Effect, x
    <2>8. CASE room.isOpen /\ e.old \in room.players /\ h1 = "panic"
      <3>1. room' = v /\ x.err = "nil" /\ "panic" \in Hooks
        BY <2>1, <2>6, <2>8 DEF Result
      <3> QED BY <1>4, <2>2, <2>8, <3>1 DEF Table!Effect, x
    <2>9. CASE room.isOpen /\ ~(e.old \in room.players /\ h1 = "panic")
               /\ Full(config, v)
      <3>1. room' = v /\ x.err # "nil"
        BY <2>1, <2>6, <2>9 DEF Result
      <3>2. room = v
        <4>1. e.old \notin room.players
          BY <2>2, <2>3, <2>9, SwapNotRefused
        <4> QED BY <4>1 DEF v
      <3> QED BY <1>4, <2>2, <2>5, <2>9, <3>1, <3>2 DEF Table!Effect, x
    <2>10. CASE room.isOpen /\ ~(e.old \in room.players /\ h1 = "panic")
                /\ ~Full(config, v)
      <3>1. /\ room'.players = (room.players \ {e.old}) \cup {e.client}
            /\ room'.isOpen = room.isOpen /\ x.err = "nil"
        BY <2>1, <2>2, <2>4, <2>6, <2>10 DEF Result
      <3> QED BY <1>4, <2>2, <2>5, <2>10, <3>1 DEF Table!Effect, x
    <2> QED BY <2>7, <2>8, <2>9, <2>10
  <1>5. CASE e.fn = "Leave"
    <2> DEFINE v == RunHook(config, [room EXCEPT !.players = @ \ {e.client}], h1)
    <2>1. v.players = room.players \ {e.client} /\ v.isOpen = room.isOpen
      BY <1>1, VacateKeeps
    <2>2. x = IF e.client \notin room.players THEN Result(room, "nil", FALSE, FALSE)
              ELSE Result(v, "nil", TRUE, h1 # "panic" /\ v.players = {})
      BY <1>5 DEF Closure, LeaveFn
    <2> HIDE DEF v, x
    <2>3. room' = x.room
      BY DEF x
    <2>4. x.err = "nil" /\ room'.isOpen = room.isOpen
      BY <2>1, <2>2, <2>3 DEF Result
    <2>5. room'.players = room.players \ {e.client}
      <3>1. CASE e.client \notin room.players
        <4>1. room' = room
          BY <2>2, <2>3, <3>1 DEF Result
        <4> QED BY <3>1, <4>1
      <3>2. CASE e.client \in room.players
        BY <2>1, <2>2, <2>3, <3>2 DEF Result
      <3> QED BY <3>1, <3>2
    <2> QED BY <1>5, <2>4, <2>5 DEF Table!Effect, x
  <1>6. CASE e.fn \in {"Close", "Open"}
    <2>1. /\ room'.players = room.players
          /\ room'.isOpen = (e.fn = "Open")
          /\ x.err = "nil"
      BY <1>1, <1>6 DEF Closure, CloseFn, OpenFn, Result, RoomState
    <2> QED BY <1>6, <2>1 DEF Table!Effect
  <1>7. CASE e.fn = "Info"
    <2>1. room' = room
      BY <1>7 DEF Closure, InfoFn, Result
    <2> QED BY <1>7, <2>1 DEF Table!Effect
  <1>8. CASE e.fn = "HandleMessage"
    <2> DEFINE v == RunHook(config, room, h1)
    <2>1. v.players = room.players /\ v.isOpen = room.isOpen
      BY <1>1, ConfigType, HookLemma
    <2>2. x = IF e.client \notin room.players THEN Result(room, "notInRoom", FALSE, FALSE)
              ELSE Result(v, IF h1 = "panic" THEN "internal" ELSE "nil", FALSE, FALSE)
      BY <1>8 DEF Closure, HandleMessageFn
    <2> HIDE DEF v, x
    <2>3. room' = x.room
      BY DEF x
    <2>4. /\ room'.players = room.players /\ room'.isOpen = room.isOpen
          /\ x.err = "nil" => e.client \in room.players
      BY <2>1, <2>2, <2>3 DEF Result
    <2> QED BY <1>8, <2>4 DEF Table!Effect, x
  <1> QED BY <1>3, <1>4, <1>5, <1>6, <1>7, <1>8 DEF Method

-----------------------------------------------------------------------------
(* Orderly is inductive, relative to Inv.                                  *)

\* A new room has no calls.
LEMMA InitOrderly == Init => Orderly
  BY DEF Init, Orderly, Matched, Orphans, Ended, Shaped, IdleCall, NewCall

\* A step that leaves inbox and calls alone and does not take back the end.
LEMMA QuietOrderly ==
    ASSUME Orderly, UNCHANGED <<inbox, call>>, CtxDone => CtxDone', Ended'
    PROVE  Orderly'
  BY DEF Orderly, Matched, Orphans, Shaped

\* A caller without a closure in the inbox goes on to the call k.
LEMMA CallerOrderly ==
    ASSUME Inv, Orderly, NEW p \in Caller, NEW k,
           \A i \in DOMAIN inbox : inbox[i].by # p,
           call' = [call EXCEPT ![p] = k], UNCHANGED <<inbox, actor, lifecycle>>,
           k.pc = "left" => k.fn \in {"JoinReplace", "Leave"},
           k.fn = "Leave" => k.err = "nil"
    PROVE  Orderly'
  <1>1. call'[p] = k /\ \A q \in Caller \ {p} : call'[q] = call[q]
    BY DEF Inv, TypeOK
  <1>2. Matched' /\ Shaped'
    BY <1>1 DEF Orderly, Matched, Shaped
  <1> QED BY <1>2 DEF Orderly, Orphans, Ended, CtxDone

\* `r.inbox <- wrapped`: the closure is the one of the caller's call.
LEMMA SubmitOrderly ==
    ASSUME Inv, Orderly, NEW p \in Caller, Submit(p)
    PROVE  Orderly'
  <1> DEFINE e == CallEntry(p)
  <1>1. e.by = p /\ e.client = ClientOf[p] /\ e.old = call[p].old
    BY DEF CallEntry
  <1>2. /\ call'[p].fn = call[p].fn /\ call'[p].old = call[p].old
        /\ call'[p].err = call[p].err /\ call'[p].pc = "wait"
        /\ \A q \in Caller \ {p} : call'[q] = call[q]
    BY DEF Inv, TypeOK, CallState, Submit
  <1>3. inbox' = Append(inbox, e) /\ inbox \in Seq(Entry)
    BY DEF Submit, Inv, TypeOK
  <1> HIDE DEF e
  <1>4. /\ DOMAIN inbox' = 1 .. (Len(inbox) + 1)
        /\ DOMAIN inbox = 1 .. Len(inbox)
        /\ Len(inbox) \in Nat
        /\ inbox'[Len(inbox) + 1] = e
        /\ \A i \in DOMAIN inbox : inbox'[i] = inbox[i]
    BY <1>3
  <1>5. Matched'
    BY <1>1, <1>2, <1>4 DEF Orderly, Matched
  <1>6. Orphans' /\ Ended' /\ Shaped'
    BY <1>1, <1>2, <1>4 DEF Orderly, Orphans, Ended, Shaped, CtxDone, Submit
  <1> QED BY <1>5, <1>6 DEF Orderly

\* A caller gives up: its closure, if it is still queued, loses its caller.
LEMMA AbandonOrderly ==
    ASSUME Inv, Orderly, NEW p \in Caller, Abandon(p)
    PROVE  Orderly'
  <1>1. /\ DOMAIN inbox' = DOMAIN inbox
        /\ \A i \in DOMAIN inbox :
              /\ inbox[i].by # p => inbox'[i] = inbox[i]
              /\ inbox[i].by = p => inbox'[i].by = NoCaller
    <2>1. DOMAIN inbox' = DOMAIN inbox
      BY DEF Abandon
    <2>2. ASSUME NEW i \in DOMAIN inbox
          PROVE  /\ inbox[i].by # p => inbox'[i] = inbox[i]
                 /\ inbox[i].by = p => inbox'[i].by = NoCaller
      <3>1. inbox[i] \in Entry
        BY DEF Inv, TypeOK
      <3>2. inbox'[i] = IF inbox[i].by = p THEN [inbox[i] EXCEPT !.by = NoCaller]
                                           ELSE inbox[i]
        BY DEF Abandon
      <3> QED BY <3>1, <3>2 DEF Entry
    <2> QED BY <2>1, <2>2
  <1>2. call'[p] = IdleCall(p) /\ \A q \in Caller \ {p} : call'[q] = call[q]
    BY DEF Inv, TypeOK, Abandon
  <1>3. Matched'
    BY <1>1, <1>2, NoCallerAssumption DEF Orderly, Matched
  <1>4. Shaped'
    BY <1>2 DEF Orderly, Shaped, IdleCall, NewCall
  <1>5. Orphans' /\ Ended'
    BY DEF Orderly, Orphans, Ended, CtxDone, Abandon
  <1> QED BY <1>3, <1>4, <1>5 DEF Orderly

\* The other steps of a caller.
LEMMA CallerStepOrderly ==
    ASSUME Inv, Orderly, NEW p \in Caller, CallerStep(p)
    PROVE  Orderly'
  <1>1. CASE Submit(p)
    BY <1>1, SubmitOrderly
  <1>2. CASE Abandon(p)
    BY <1>2, AbandonOrderly
  <1> DEFINE k == call[p]
  <1>3. k \in CallState
    BY DEF Inv, TypeOK
  <1>4. CASE SubmitRefused(p) \/ PublishJoined(p)
    <2>1. \A i \in DOMAIN inbox : inbox[i].by # p
      BY <1>4 DEF Inv, Linked, SubmitRefused, PublishJoined
    <2>2. call' = [call EXCEPT ![p] = IdleCall(p)] /\ UNCHANGED <<inbox, actor, lifecycle>>
      BY <1>4 DEF SubmitRefused, PublishJoined
    <2>3. IdleCall(p).pc = "idle" /\ IdleCall(p).fn = "none"
      BY DEF IdleCall, NewCall
    <2> QED BY <2>1, <2>2, <2>3, CallerOrderly
  <1>5. CASE Receive(p)
    <2> DEFINE n == IF AfterDo(k) = "idle" THEN IdleCall(p)
                    ELSE [k EXCEPT !.pc = AfterDo(k)]
    <2>1. \A i \in DOMAIN inbox : inbox[i].by # p
      BY <1>5 DEF Inv, Linked, Receive
    <2>2. call' = [call EXCEPT ![p] = n] /\ UNCHANGED <<inbox, actor, lifecycle>>
      BY <1>5 DEF Receive
    <2>3. /\ n.pc = "left" => n.fn \in {"JoinReplace", "Leave"}
          /\ n.fn = "Leave" => n.err = "nil"
      BY <1>3 DEF Orderly, Shaped, AfterDo, IdleCall, NewCall, CallState
    <2> HIDE DEF n
    <2> QED BY <2>1, <2>2, <2>3, CallerOrderly
  <1>6. CASE PublishLeft(p)
    <2> DEFINE n == IF k.fn = "JoinReplace" THEN [k EXCEPT !.pc = "joined"]
                    ELSE IF k.empty THEN NewCall("submit", "Schedule", k.old)
                    ELSE IdleCall(p)
    <2>1. \A i \in DOMAIN inbox : inbox[i].by # p
      BY <1>6 DEF Inv, Linked, PublishLeft
    <2>2. call' = [call EXCEPT ![p] = n] /\ UNCHANGED <<inbox, actor, lifecycle>>
      BY <1>6 DEF PublishLeft
    <2>3. n.pc # "left" /\ n.fn # "Leave"
      BY <1>3 DEF IdleCall, NewCall, CallState
    <2> HIDE DEF n
    <2> QED BY <2>1, <2>2, <2>3, CallerOrderly
  <1> QED BY <1>1, <1>2, <1>4, <1>5, <1>6 DEF CallerStep

\* The loop takes a closure out of the inbox; a Leave reports no error.
LEMMA RunInboxOrderly ==
    ASSUME Inv, Orderly, RunInbox
    PROVE  Orderly'
  <1> DEFINE e == inbox[1]
  <1>1. /\ inbox \in Seq(Entry) /\ inbox # <<>> /\ inbox' = Tail(inbox)
        /\ UNCHANGED <<actor, lifecycle>>
    BY DEF Inv, TypeOK, RunInbox, RunClosure, RunGrace
  <1>2. /\ Head(inbox) = e /\ 1 \in DOMAIN inbox
        /\ \A i \in DOMAIN inbox' : i + 1 \in DOMAIN inbox
                                    /\ inbox'[i] = inbox[i + 1]
    BY <1>1, TailLemma
  <1>3. \A p \in Caller :
           /\ call'[p].pc = call[p].pc /\ call'[p].fn = call[p].fn
           /\ call'[p].old = call[p].old
           /\ call[p].fn = "Leave" => call'[p].err = "nil"
    <2>1. CASE RunGrace
      BY <2>1 DEF RunGrace, Orderly, Shaped
    <2>2. ASSUME NEW h1 \in Hooks, NEW h2 \in Hooks, RunClosure(h1, h2),
                 NEW p \in Caller
          PROVE  /\ call'[p].pc = call[p].pc /\ call'[p].fn = call[p].fn
                 /\ call'[p].old = call[p].old
                 /\ call[p].fn = "Leave" => call'[p].err = "nil"
      <3> DEFINE x == Closure(e, h1, h2)
      <3>1. call'[p] = IF p = e.by
                         THEN [call[p] EXCEPT !.ran = TRUE, !.err = x.err,
                                              !.changed = x.changed,
                                              !.empty = x.empty]
                         ELSE call[p]
        BY <1>2, <2>2 DEF RunClosure
      <3>2. call[p] \in CallState
        BY DEF Inv, TypeOK
      <3>3. p = e.by => e.fn = call[p].fn
        BY <1>2 DEF Inv, Linked
      <3>4. e.fn = "Leave" => x.err = "nil"
        BY DEF Closure, LeaveFn, Result
      <3> HIDE DEF e, x
      <3> QED BY <3>1, <3>2, <3>3, <3>4 DEF Orderly, Shaped, CallState
    <2> QED BY <2>1, <2>2 DEF RunInbox
  <1> HIDE DEF e
  <1>4. Matched'
    BY <1>2, <1>3 DEF Orderly, Matched
  <1>5. Orphans' /\ Ended'
    BY <1>1, <1>2 DEF Orderly, Orphans, Ended, CtxDone
  <1>6. Shaped'
    BY <1>3 DEF Orderly, Shaped
  <1> QED BY <1>4, <1>5, <1>6 DEF Orderly

\* Every step keeps Orderly.
LEMMA NextOrderly == Inv /\ Orderly /\ [Next]_vars => Orderly'
  <1> SUFFICES ASSUME Inv, Orderly, [Next]_vars PROVE Orderly'
    OBVIOUS
  <1>1. CASE UNCHANGED vars
    BY <1>1, QuietOrderly DEF vars, CtxDone, Orderly, Ended
  <1>2. ASSUME NEW p \in Caller, NEW fn \in Fns, NEW old \in Client,
               Call(p, fn, old)
        PROVE  Orderly'
    <2> DEFINE k == NewCall("submit", fn, old)
    <2>1. \A i \in DOMAIN inbox : inbox[i].by # p
      BY <1>2 DEF Inv, Linked, Call
    <2>2. call' = [call EXCEPT ![p] = k] /\ UNCHANGED <<inbox, actor, lifecycle>>
      BY <1>2 DEF Call
    <2>3. k.pc = "submit" /\ k.err = "nil"
      BY DEF NewCall
    <2> HIDE DEF k
    <2> QED BY <2>1, <2>2, <2>3, CallerOrderly
  <1>3. ASSUME NEW p \in Caller, CallerStep(p) PROVE Orderly'
    BY <1>3, CallerStepOrderly
  <1>4. CASE RunInbox
    BY <1>4, RunInboxOrderly
  <1>5. ASSUME NEW h \in Hooks, Tick(h) \/ Exit(h) PROVE Orderly'
    BY <1>5, QuietOrderly DEF Tick, Exit, CtxDone, Orderly, Ended
  <1>6. ASSUME NEW t \in Timer, ExpireTimer(t) \/ GraceRefused(t) PROVE Orderly'
    BY <1>6, QuietOrderly DEF ExpireTimer, GraceRefused, CtxDone, Orderly, Ended
  <1>7. ASSUME NEW t \in Timer, SubmitGrace(t) PROVE Orderly'
    <2> DEFINE e == GraceEntry(t)
    <2>1. e.by \notin Caller /\ e.fn = "Grace"
      BY NoCallerAssumption DEF GraceEntry
    <2>2. inbox' = Append(inbox, e) /\ inbox \in Seq(Entry)
      BY <1>7 DEF SubmitGrace, Inv, TypeOK
    <2> HIDE DEF e
    <2>3. /\ DOMAIN inbox' = 1 .. (Len(inbox) + 1)
          /\ DOMAIN inbox = 1 .. Len(inbox)
          /\ Len(inbox) \in Nat
          /\ inbox'[Len(inbox) + 1] = e
          /\ \A i \in DOMAIN inbox : inbox'[i] = inbox[i]
      BY <2>2
    <2>4. Matched' /\ Orphans' /\ Ended' /\ Shaped'
      BY <1>7, <2>1, <2>3 DEF Orderly, Matched, Orphans, Ended, Shaped, CtxDone,
                              SubmitGrace
    <2> QED BY <2>4 DEF Orderly
  <1>8. CASE Remove \/ OnEmpty \/ Cancel \/ Removed
    BY <1>8, QuietOrderly DEF Remove, OnEmpty, Cancel, Removed, CtxDone, Orderly, Ended
  <1> QED BY <1>1, <1>2, <1>3, <1>4, <1>5, <1>6, <1>7, <1>8 DEF Next, TimerStep

-----------------------------------------------------------------------------
(* The mapping: initial states and steps.                                  *)

\* A new room is an empty table that takes players.
LEMMA InitRefines == Init => Table!Init
  <1> SUFFICES ASSUME Init PROVE Table!Init
    OBVIOUS
  <1> DEFINE w == [ players |-> {}, isOpen |-> TRUE, keepOnEmpty |-> FALSE,
                    emptyTimer |-> NoTimer, timers |-> [t \in Timer |-> "free"],
                    onEmptyDue |-> FALSE ]
  <1>1. PICK h \in Hooks : room = newRoom(config, h)
    BY DEF Init
  <1>2. w \in RoomState /\ Armed(w) /\ w.players = {} /\ w.isOpen = TRUE
    BY DEF RoomState, TimerState, Armed
  <1>3. room = RunHook(config, w, h)
    BY <1>1 DEF newRoom
  <1> HIDE DEF w
  <1>4. room.players = {} /\ room.isOpen = TRUE
    BY <1>2, <1>3, ConfigType, HookLemma
  <1>5. \A p \in Caller : opOf(p) = Table!NoOp
    BY DEF Init, opOf, IdleCall, NewCall, Table!NoOp
  <1> QED BY <1>4, <1>5 DEF Init, Table!Init

\* A step of one caller moves that caller's call only.
LEMMA OpFrame ==
    ASSUME Inv, NEW p \in Caller, NEW k, call' = [call EXCEPT ![p] = k]
    PROVE  [q \in Caller |-> opOf(q)]' =
             [[q \in Caller |-> opOf(q)] EXCEPT ![p] = opOf(p)']
  <1>1. \A q \in Caller \ {p} : call'[q] = call[q]
    BY DEF Inv, TypeOK
  <1>2. \A q \in Caller \ {p} : opOf(q)' = opOf(q)
    BY <1>1 DEF opOf
  <1> QED BY <1>2

\* A call that stays where it is for the table.
LEMMA OpStays ==
    ASSUME Inv, NEW p \in Caller, NEW k, call' = [call EXCEPT ![p] = k],
           opOf(p)' = opOf(p), room'.players = room.players,
           room'.isOpen = room.isOpen, lifecycle' = lifecycle
    PROVE  UNCHANGED Table!vars
  <1>1. [q \in Caller |-> opOf(q)]' = [q \in Caller |-> opOf(q)]
    BY OpFrame
  <1> QED BY <1>1 DEF Table!vars

\* A call that returns.
LEMMA OpReturns ==
    ASSUME Inv, NEW p \in Caller, call' = [call EXCEPT ![p] = IdleCall(p)],
           opOf(p).pc = "done", room'.players = room.players,
           room'.isOpen = room.isOpen, lifecycle' = lifecycle
    PROVE  Table!Return(p)
  <1>1. call'[p] = IdleCall(p)
    BY DEF Inv, TypeOK
  <1>2. opOf(p)' = Table!NoOp
    BY <1>1 DEF opOf, IdleCall, NewCall, Table!NoOp
  <1> QED BY <1>2, OpFrame DEF Table!Return

\* A caller that found the room begins a call.
LEMMA CallRefines ==
    ASSUME Inv, NEW p \in Caller, NEW fn \in Fns, NEW old \in Client,
           Call(p, fn, old)
    PROVE  Table!Begin(p)
  <1>1. opOf(p) = Table!NoOp
    BY DEF Call, opOf, Table!NoOp
  <1>2. call'[p] = NewCall("submit", fn, old)
    BY DEF Inv, TypeOK, Call
  <1>3. fn \in Table!Method /\ fn # "Schedule"
    BY FnsAssumption DEF Method, Table!Method
  <1>4. opOf(p)' = Table!Pending(fn, old)
    BY <1>2, <1>3 DEF opOf, NewCall, Table!Pending
  <1>5. [q \in Caller |-> opOf(q)]' =
           [[q \in Caller |-> opOf(q)] EXCEPT ![p] = Table!Pending(fn, old)]
    BY <1>4, OpFrame DEF Call
  <1> QED BY <1>1, <1>3, <1>5 DEF Call, Table!Begin

\* do returns false: the call is given up.
LEMMA GiveUpRefines ==
    ASSUME Inv, NEW p \in Caller, SubmitRefused(p) \/ Abandon(p)
    PROVE  Table!GiveUp(p)
  <1>1. call' = [call EXCEPT ![p] = IdleCall(p)] /\ call[p].pc # "idle"
    BY DEF SubmitRefused, Abandon
  <1>2. call'[p] = IdleCall(p)
    BY <1>1 DEF Inv, TypeOK
  <1>3. opOf(p)' = Table!NoOp
    BY <1>2 DEF opOf, IdleCall, NewCall, Table!NoOp
  <1>4. opOf(p).pc # "idle"
    BY <1>1 DEF opOf
  <1>5. opOf(p) # Table!NoOp
    BY <1>4 DEF Table!NoOp
  <1>6. lifecycle \in {"cancelled", "removed"} /\ UNCHANGED <<room, lifecycle>>
    BY DEF SubmitRefused, Abandon, CtxDone
  <1> QED BY <1>1, <1>3, <1>5, <1>6, OpFrame DEF Table!GiveUp

\* The other steps of a caller are a return, or nothing the table shows.
LEMMA CallerStepRefines ==
    ASSUME Inv, Orderly, NEW p \in Caller, CallerStep(p)
    PROVE  Table!GiveUp(p) \/ Table!Return(p) \/ UNCHANGED Table!vars
  <1> DEFINE k == call[p]
  <1>1. k \in CallState /\ call \in [Caller -> CallState] /\ room \in RoomState
    BY DEF Inv, TypeOK
  <1>2. CASE SubmitRefused(p) \/ Abandon(p)
    BY <1>2, GiveUpRefines
  <1>3. CASE Submit(p)
    <2>1. call' = [call EXCEPT ![p] = [k EXCEPT !.pc = "wait"]]
      BY <1>1, <1>3 DEF Submit
    <2>2. call'[p] = [k EXCEPT !.pc = "wait"]
      BY <1>1, <2>1
    <2>3. opOf(p)' = opOf(p)
      BY <1>1, <1>3, <2>2 DEF opOf, Submit, CallState, Inv, Fresh
    <2> QED BY <1>3, <2>1, <2>3, OpStays DEF Submit
  <1>4. CASE PublishJoined(p)
    <2>1. opOf(p).pc = "done"
      BY <1>4 DEF PublishJoined, opOf
    <2> QED BY <1>4, <2>1, OpReturns DEF PublishJoined
  <1>5. CASE Receive(p)
    <2>1. room'.players = room.players /\ room'.isOpen = room.isOpen
      BY <1>1, <1>5 DEF Receive, RoomState
    <2>2. opOf(p).pc = "done"
      BY <1>5 DEF Receive, opOf
    <2>3. CASE AfterDo(k) = "idle"
      BY <1>5, <2>1, <2>2, <2>3, OpReturns DEF Receive
    <2>4. CASE AfterDo(k) # "idle"
      <3>1. call' = [call EXCEPT ![p] = [k EXCEPT !.pc = AfterDo(k)]]
        BY <1>5, <2>4 DEF Receive
      <3>2. call'[p] = [k EXCEPT !.pc = AfterDo(k)]
        BY <1>1, <3>1
      <3>3. AfterDo(k) \in {"left", "joined"}
        BY <2>4 DEF AfterDo
      <3>4. opOf(p)' = opOf(p)
        BY <1>1, <1>5, <3>2, <3>3 DEF opOf, Receive, CallState
      <3> QED BY <1>5, <2>1, <3>1, <3>4, OpStays DEF Receive
    <2> QED BY <2>3, <2>4
  <1>6. CASE PublishLeft(p)
    <2>1. /\ k.pc = "left" /\ k.fn \in {"JoinReplace", "Leave"}
          /\ k.fn = "Leave" => k.err = "nil"
      BY <1>6 DEF PublishLeft, Orderly, Shaped
    <2>2. UNCHANGED <<room, lifecycle>>
      BY <1>6 DEF PublishLeft
    <2>3. CASE k.fn = "JoinReplace"
      <3>1. call' = [call EXCEPT ![p] = [k EXCEPT !.pc = "joined"]]
        BY <1>6, <2>3 DEF PublishLeft
      <3>2. call'[p] = [k EXCEPT !.pc = "joined"]
        BY <1>1, <3>1
      <3>3. opOf(p)' = opOf(p)
        BY <1>1, <2>1, <2>3, <3>2 DEF opOf, CallState
      <3> QED BY <2>2, <3>1, <3>3, OpStays
    <2>4. CASE k.fn = "Leave" /\ k.empty
      <3>1. call' = [call EXCEPT ![p] = NewCall("submit", "Schedule", k.old)]
        BY <1>6, <2>4 DEF PublishLeft
      <3>2. call'[p] = NewCall("submit", "Schedule", k.old)
        BY <1>1, <3>1
      <3>3. opOf(p)' = opOf(p)
        <4>1. opOf(p)' = [pc |-> "done", fn |-> "Leave", old |-> k.old, ok |-> TRUE]
          BY <3>2 DEF opOf, NewCall
        <4>2. opOf(p) = [pc |-> "done", fn |-> "Leave", old |-> k.old,
                         ok |-> k.err = "nil"]
          BY <2>1, <2>4 DEF opOf
        <4>3. (k.err = "nil") = TRUE
          BY <2>1, <2>4
        <4> QED BY <4>1, <4>2, <4>3
      <3> QED BY <2>2, <3>1, <3>3, OpStays
    <2>5. CASE k.fn = "Leave" /\ ~k.empty
      <3>1. opOf(p).pc = "done"
        BY <2>1, <2>5 DEF opOf
      <3> QED BY <1>6, <2>2, <2>5, <3>1, OpReturns DEF PublishLeft
    <2> QED BY <2>1, <2>3, <2>4, <2>5
  <1> QED BY <1>2, <1>3, <1>4, <1>5, <1>6 DEF CallerStep

(***************************************************************************)
(* The step of the actor that runs a closure is where the call takes       *)
(* effect; the second closure of Leave shows nothing; and a closure whose  *)
(* caller has given up takes effect late.                                  *)
(***************************************************************************)
LEMMA RunClosureRefines ==
    ASSUME Inv, Orderly, NEW h1 \in Hooks, NEW h2 \in Hooks, RunClosure(h1, h2)
    PROVE  \/ \E p \in Caller : Table!TakeEffect(p)
           \/ Table!Late
           \/ UNCHANGED Table!vars
  <1>0. PICK e : e = inbox[1]
    OBVIOUS
  <1> DEFINE x == Closure(e, h1, h2)
             n(p) == [call[p] EXCEPT !.ran = TRUE, !.err = x.err,
                                     !.changed = x.changed, !.empty = x.empty]
  <1>1. inbox \in Seq(Entry) /\ inbox # <<>> /\ inbox' = Tail(inbox)
    BY DEF Inv, TypeOK, RunClosure
  <1>2. Head(inbox) = e /\ e \in Entry /\ 1 \in DOMAIN inbox
    BY <1>0, <1>1, TailLemma
  <1>3. /\ room' = x.room /\ lifecycle' = lifecycle /\ actor = "loop"
        /\ call' = [p \in Caller |-> IF p = e.by THEN n(p) ELSE call[p]]
        /\ e.fn # "Grace"
    BY <1>2 DEF RunClosure
  <1>4. \A p \in Caller : p = e.by =>
           /\ call[p].pc = "wait" /\ ~call[p].ran /\ e.fn = call[p].fn
           /\ e.client = ClientOf[p] /\ e.old = call[p].old
    BY <1>0, <1>2 DEF Inv, Linked, Orderly, Matched
  <1>5. call \in [Caller -> CallState] /\ RoomOK(config, room)
    BY DEF Inv, TypeOK
  <1>6. \A p \in Caller : p = e.by => call' = [call EXCEPT ![p] = n(p)]
    BY <1>3, <1>5
  <1>7. e.by \notin Caller => call' = call
    BY <1>3, <1>5
  <1>8. CASE e.fn = "Schedule"
    <2>1. x = ScheduleFn(config, room)
      BY <1>8 DEF Closure
    <2>2. room'.players = room.players /\ room'.isOpen = room.isOpen
      <3>1. room' = scheduleEmptyRemoval(config, room)
        <4>1. room' = x.room
          BY <1>3
        <4> HIDE DEF x
        <4> QED BY <2>1, <4>1 DEF ScheduleFn, Result
      <3>2. room \in RoomState /\ Armed(room)
        BY <1>5 DEF RoomOK
      <3> QED BY <3>1, <3>2, ScheduleLemma, ConfigType
    <2>3. CASE e.by \in Caller
      <3>1. PICK p \in Caller : p = e.by
        BY <2>3
      <3>2. call' = [call EXCEPT ![p] = n(p)]
        BY <1>6, <3>1
      <3>3. call'[p] = n(p) /\ call[p] \in CallState
        BY <1>5, <3>2
      <3>4. opOf(p)' = opOf(p)
        BY <1>4, <1>8, <3>1, <3>3 DEF opOf, CallState
      <3> HIDE DEF x, n
      <3> QED BY <1>3, <2>2, <3>2, <3>4, OpStays
    <2>4. CASE e.by \notin Caller
      BY <1>3, <1>7, <2>2, <2>4 DEF Table!vars, opOf
    <2> QED BY <2>3, <2>4
  <1>9. CASE e.fn # "Schedule"
    <2> DEFINE ok == x.err = "nil"
    <2>1. e.fn \in Method /\ e.fn \in Table!Method /\ e.client \in Client /\ e.old \in Client
      BY <1>2, <1>3, <1>9 DEF Entry, Method, Table!Method
    <2>2. Table!Effect(e.fn, e.client, e.old, ok)
      BY <1>2, <1>3, <1>5, <2>1, ClosureEffect
    <2>3. ok \in BOOLEAN
      OBVIOUS
    <2>4. CASE e.by \in Caller
      <3>1. PICK p \in Caller : p = e.by
        BY <2>4
      <3>2. call' = [call EXCEPT ![p] = n(p)]
        BY <1>6, <3>1
      <3>3. call'[p] = n(p) /\ call[p] \in CallState
        BY <1>5, <3>2
      <3>4. opOf(p) = Table!Pending(e.fn, e.old)
        BY <1>4, <1>9, <3>1 DEF opOf, Table!Pending
      <3>5. opOf(p)' = Table!Done(e.fn, e.old, ok)
        <4>1. /\ call'[p].pc = "wait" /\ call'[p].ran /\ call'[p].fn = e.fn
              /\ call'[p].old = e.old /\ call'[p].err = x.err
          BY <1>4, <3>1, <3>3 DEF CallState
        <4> HIDE DEF x, n
        <4> QED BY <1>9, <4>1 DEF opOf, Table!Done
      <3> HIDE DEF x, ok, n
      <3>6. [q \in Caller |-> opOf(q)]' =
               [[q \in Caller |-> opOf(q)] EXCEPT ![p] = Table!Done(e.fn, e.old, ok)]
        BY <3>2, <3>5, OpFrame
      <3>7. /\ opOf(p).pc = "pending" /\ opOf(p).fn = e.fn /\ opOf(p).old = e.old
        BY <3>4 DEF Table!Pending
      <3>8. ClientOf[p] = e.client
        BY <1>4, <3>1
      <3>9. Table!TakeEffect(p)
        BY <1>3, <2>2, <2>3, <3>6, <3>7, <3>8 DEF Table!TakeEffect
      <3> QED BY <3>9
    <2>5. CASE e.by \notin Caller
      <3>1. CtxDone
        BY <1>0, <1>2, <1>3, <2>5 DEF Orderly, Orphans
      <3>2. lifecycle = "cancelled"
        BY <1>3, <3>1 DEF CtxDone, Orderly, Ended
      <3>3. [q \in Caller |-> opOf(q)]' = [q \in Caller |-> opOf(q)]
        BY <1>7, <2>5 DEF opOf
      <3> HIDE DEF x, ok
      <3>4. Table!Late
        BY <1>3, <2>1, <2>2, <2>3, <3>2, <3>3 DEF Table!Late
      <3> QED BY <3>4
    <2> QED BY <2>4, <2>5
  <1> QED BY <1>8, <1>9

\* A step that touches neither players, door, calls nor the removal.
LEMMA HiddenStep ==
    ASSUME room'.players = room.players, room'.isOpen = room.isOpen,
           UNCHANGED <<call, lifecycle>>
    PROVE  UNCHANGED Table!vars
  BY DEF Table!vars, opOf

\* Every step is a step of the table or shows nothing there.
LEMMA NextRefines == Inv /\ Orderly /\ [Next]_vars => [Table!Next]_(Table!vars)
  <1> SUFFICES ASSUME Inv, Orderly, [Next]_vars
               PROVE  Table!Next \/ UNCHANGED Table!vars
    OBVIOUS
  <1>0. room \in RoomState /\ Armed(room)
    BY DEF Inv, RoomOK
  <1>1. CASE UNCHANGED vars
    BY <1>1, HiddenStep DEF vars
  <1>2. ASSUME NEW p \in Caller, NEW fn \in Fns, NEW old \in Client,
               Call(p, fn, old)
        PROVE  Table!Next
    BY <1>2, CallRefines DEF Table!Next
  <1>3. ASSUME NEW p \in Caller, CallerStep(p)
        PROVE  Table!Next \/ UNCHANGED Table!vars
    BY <1>3, CallerStepRefines DEF Table!Next
  <1>4. ASSUME NEW h1 \in Hooks, NEW h2 \in Hooks, RunClosure(h1, h2)
        PROVE  Table!Next \/ UNCHANGED Table!vars
    BY <1>4, RunClosureRefines DEF Table!Next
  <1>5. CASE RunGrace
    <2>1. room'.players = room.players /\ room'.isOpen = room.isOpen
      BY <1>0, <1>5 DEF RunGrace, GraceFn, RoomState
    <2> QED BY <1>5, <2>1, HiddenStep DEF RunGrace
  <1>6. ASSUME NEW h \in Hooks, Tick(h) PROVE UNCHANGED Table!vars
    BY <1>0, <1>6, ConfigType, HookLemma, HiddenStep DEF Tick
  <1>7. ASSUME NEW h \in Hooks, Exit(h) PROVE UNCHANGED Table!vars
    <2> DEFINE k == cancelEmptyRemoval(room)
    <2>1. /\ k \in RoomState /\ Armed(k)
          /\ k.players = room.players /\ k.isOpen = room.isOpen
      BY <1>0, CancelLemma DEF Armed
    <2>2. room' = RunHook(config, k, h)
      BY <1>7 DEF Exit
    <2> HIDE DEF k
    <2> QED BY <1>7, <2>1, <2>2, ConfigType, HookLemma, HiddenStep DEF Exit
  <1>8. ASSUME NEW t \in Timer, TimerStep(t) PROVE UNCHANGED Table!vars
    <2>1. room'.players = room.players /\ room'.isOpen = room.isOpen
      BY <1>0, <1>8 DEF TimerStep, ExpireTimer, SubmitGrace, GraceRefused, RoomState
    <2> QED BY <1>8, <2>1, HiddenStep DEF TimerStep, ExpireTimer, SubmitGrace, GraceRefused
  <1>9. CASE Remove \/ OnEmpty \/ Cancel \/ Removed
    <2>1. /\ room'.players = room.players /\ room'.isOpen = room.isOpen
          /\ UNCHANGED call
      BY <1>0, <1>9 DEF Remove, OnEmpty, Cancel, Removed, RoomState
    <2>2. [q \in Caller |-> opOf(q)]' = [q \in Caller |-> opOf(q)]
      BY <2>1 DEF opOf
    <2>3. \/ UNCHANGED lifecycle
          \/ lifecycle = "registered" /\ lifecycle' = "unregistered"
          \/ lifecycle = "unregistered" /\ lifecycle' = "cancelled"
          \/ lifecycle = "cancelled" /\ lifecycle' = "removed"
      BY <1>9 DEF Remove, OnEmpty, Cancel, Removed
    <2>4. CASE UNCHANGED lifecycle
      BY <2>1, <2>4, HiddenStep
    <2>5. CASE ~UNCHANGED lifecycle
      BY <2>1, <2>2, <2>3, <2>5 DEF Table!Next, Table!RemovalGoesOn
    <2> QED BY <2>4, <2>5
  <1> QED BY <1>1, <1>2, <1>3, <1>4, <1>5, <1>6, <1>7, <1>8, <1>9 DEF Next, RunInbox

(***************************************************************************)
(* The room implements the table of seats: each call of Join, JoinReplace, *)
(* Leave, Close, Open, the readers and HandleMessage takes effect once, in *)
(* the step of the actor that runs its closure, and returns what it did; a *)
(* refused swap evicts nobody; no seat changes once the room is removed    *)
(* (room.go:143-162, 179-285, 533-562).                                    *)
(***************************************************************************)
THEOREM RoomImplementsSeatTable == Spec => ImplementsSeatTable
  <1>1. Init => Orderly /\ Table!Init
    BY InitOrderly, InitRefines
  <1>2. Inv /\ Orderly /\ [Next]_vars => Orderly'
    BY NextOrderly
  <1>3. Inv /\ Orderly /\ [Next]_vars => [Table!Next]_(Table!vars)
    BY NextRefines
  <1> QED BY <1>1, <1>2, <1>3, Invariance, PTL
          DEF Spec, SafetySpec, ImplementsSeatTable, Table!Spec

-----------------------------------------------------------------------------
(* A swap does not count as the room emptying.                             *)

\* Module code arms no removal of a room that has players.
LEMMA HookOnSeated ==
    ASSUME NEW cfg, NEW rm \in RoomState, rm.players # {},
           rm.emptyTimer = NoTimer, NEW h
    PROVE  RunHook(cfg, rm, h).emptyTimer = NoTimer
  BY DEF RunHook, SetKeepOnEmpty, cancelEmptyRemoval, RoomState

\* A swap that changes the players seats the new client, with nothing armed.
LEMMA SwapSeats ==
    ASSUME RoomOK(config, room), NEW old \in Client, NEW c \in Client,
           NEW hl \in Hooks, NEW hj \in Hooks, "panic" \notin Hooks,
           JoinReplaceFn(config, room, old, c, hl, hj).room.players # room.players
    PROVE  LET y == JoinReplaceFn(config, room, old, c, hl, hj).room
           IN  c \in y.players /\ y.emptyTimer = NoTimer
  <1> DEFINE v == IF old \in room.players
                    THEN RunHook(config, [room EXCEPT !.players = @ \ {old}], hl)
                    ELSE room
             w == [v EXCEPT !.players = @ \cup {c}]
             k == cancelEmptyRemoval(w)
             x == JoinReplaceFn(config, room, old, c, hl, hj)
             empty == v.players = {} /\ ~v.keepOnEmpty
  <1>1. x = IF ~room.isOpen THEN Result(room, "closed", FALSE, FALSE)
            ELSE IF Full(config, v) THEN Result(v, "full", FALSE, empty)
            ELSE Result(RunHook(config, k, hj), "nil", TRUE, FALSE)
    BY DEF JoinReplaceFn
  <1>2. RoomOK(config, v)
    BY VacateOK, ConfigType
  <1>3. old \in room.players => v.players = room.players \ {old}
    BY VacateKeeps DEF RoomOK
  <1>4. old \notin room.players => v = room
    OBVIOUS
  <1>5. x.room.players # room.players
    OBVIOUS
  <1> HIDE DEF v
  <1>6. w \in RoomState /\ Armed(w) /\ w.players = v.players \cup {c}
    BY <1>2 DEF RoomOK, RoomState, Armed
  <1> HIDE DEF w
  <1>7. k \in RoomState /\ k.players = v.players \cup {c} /\ k.emptyTimer = NoTimer
        /\ Armed(k)
    BY <1>6, CancelLemma DEF Armed
  <1> HIDE DEF k
  <1>8. RunHook(config, k, hj).players = k.players
        /\ RunHook(config, k, hj).emptyTimer = NoTimer
    <2>1. k.players # {}
      BY <1>7
    <2>2. RunHook(config, k, hj).emptyTimer = NoTimer
      BY <1>7, <2>1, HookOnSeated
    <2>3. RunHook(config, k, hj).players = k.players
      BY <1>7, ConfigType, HookLemma
    <2> QED BY <2>2, <2>3
  <1> HIDE DEF x, empty
  <1>9. room.isOpen /\ ~Full(config, v)
    <2>1. CASE ~room.isOpen
      BY <1>1, <1>5, <2>1 DEF Result
    <2>2. CASE Full(config, v)
      <3>1. v = room
        BY <1>2, <1>3, <1>4, <2>2, SwapNotRefused
      <3> QED BY <1>1, <1>5, <2>2, <3>1 DEF Result
    <2> QED BY <2>1, <2>2
  <1>10. x.room = RunHook(config, k, hj)
    BY <1>1, <1>9 DEF Result
  <1> QED BY <1>7, <1>8, <1>10 DEF x

(***************************************************************************)
(* With a grace and without panics, a reconnect that swaps clients leaves  *)
(* the new one seated, no removal armed and none started, whatever the     *)
(* hooks do with the keep while the room is empty inside the closure       *)
(* (room.go:216-244).                                                      *)
(***************************************************************************)
THEOREM SwapIsNoEmptying ==
    EmptyGrace /\ "panic" \notin Hooks => (Spec => SwapNeverStartsRemoval)
  <1> SUFFICES ASSUME EmptyGrace, "panic" \notin Hooks
               PROVE  Spec => SwapNeverStartsRemoval
    OBVIOUS
  <1> DEFINE Good ==
        \A e \in {inbox[i] : i \in DOMAIN inbox \cap {1}} :
          /\ inbox' = Tail(inbox)
          /\ e.fn = "JoinReplace"
          /\ room'.players # room.players
          => /\ e.client \in room'.players
             /\ room'.emptyTimer = NoTimer
             /\ room'.onEmptyDue = room.onEmptyDue
  <1>1. Inv /\ [Next]_vars => [Good]_vars
    <2> SUFFICES ASSUME Inv, Next,
                        NEW e \in {inbox[i] : i \in DOMAIN inbox \cap {1}},
                        inbox' = Tail(inbox), e.fn = "JoinReplace",
                        room'.players # room.players
                 PROVE  /\ e.client \in room'.players
                        /\ room'.emptyTimer = NoTimer
                        /\ room'.onEmptyDue = room.onEmptyDue
      OBVIOUS
    <2>1. inbox \in Seq(Entry) /\ room \in RoomState /\ Armed(room) /\ RoomOK(config, room)
      BY DEF Inv, TypeOK, RoomOK
    <2>2. e = inbox[1] /\ inbox # <<>> /\ e = Head(inbox) /\ e \in Entry
      BY <2>1
    <2>3. ASSUME NEW p \in Caller, CallerStep(p) PROVE FALSE
      <3>1. CASE Receive(p)
        BY <2>1, <3>1 DEF Receive, RoomState
      <3>2. CASE ~Receive(p)
        BY <2>3, <3>2 DEF CallerStep, Submit, SubmitRefused, Abandon, PublishLeft,
                          PublishJoined
      <3> QED BY <3>1, <3>2
    <2>4. ASSUME NEW p \in Caller, NEW fn \in Fns, NEW old \in Client,
                 Call(p, fn, old)
          PROVE  FALSE
      BY <2>4 DEF Call
    <2>5. ASSUME NEW h \in Hooks, Tick(h) PROVE FALSE
      BY <2>1, <2>5, ConfigType, HookLemma DEF Tick
    <2>6. ASSUME NEW h \in Hooks, Exit(h) PROVE FALSE
      <3> DEFINE k == cancelEmptyRemoval(room)
      <3>1. k \in RoomState /\ Armed(k) /\ k.players = room.players
        BY <2>1, CancelLemma DEF Armed
      <3>2. room' = RunHook(config, k, h)
        BY <2>6 DEF Exit
      <3> HIDE DEF k
      <3> QED BY <3>1, <3>2, ConfigType, HookLemma
    <2>7. ASSUME NEW t \in Timer, TimerStep(t) PROVE FALSE
      BY <2>1, <2>7 DEF TimerStep, ExpireTimer, SubmitGrace, GraceRefused, RoomState
    <2>8. CASE Remove \/ OnEmpty \/ Cancel \/ Removed
      BY <2>1, <2>8 DEF Remove, OnEmpty, Cancel, Removed, RoomState
    <2>9. CASE RunGrace
      BY <2>2, <2>9 DEF RunGrace
    <2>10. ASSUME NEW h1 \in Hooks, NEW h2 \in Hooks, RunClosure(h1, h2)
           PROVE  /\ e.client \in room'.players
                  /\ room'.emptyTimer = NoTimer
                  /\ room'.onEmptyDue = room.onEmptyDue
      <3> DEFINE x == JoinReplaceFn(config, room, e.old, e.client, h1, h2)
      <3>1. e.client \in Client /\ e.old \in Client
        BY <2>2 DEF Entry
      <3>2. Closure(e, h1, h2) = x
        BY DEF Closure
      <3>3. room' = x.room
        BY <2>2, <2>10, <3>2 DEF RunClosure
      <3>4. x.room.onEmptyDue = room.onEmptyDue
        BY <2>1, <3>1, ConfigType, QuietClosures DEF config
      <3>5. e.client \in x.room.players /\ x.room.emptyTimer = NoTimer
        BY <2>1, <3>1, <3>3, SwapSeats
      <3> QED BY <3>3, <3>4, <3>5
    <2> QED BY <2>3, <2>4, <2>5, <2>6, <2>7, <2>8, <2>9, <2>10 DEF Next, RunInbox
  <1> QED BY <1>1, Invariance, PTL DEF Spec, SafetySpec, SwapNeverStartsRemoval
-----------------------------------------------------------------------------
(* The presence events add up to the seats.                                *)

\* No two goroutines act for the same client.
OneCallerEach == \A p, q \in Caller : ClientOf[p] = ClientOf[q] => p = q

\* Nobody is in a JoinReplace.
NoSwaps == \A p \in Caller : call[p].fn # "JoinReplace"

\* Where a caller is, or will be once it receives the signal that waits.
Heading(p) ==
    IF call[p].pc = "wait" /\ call[p].ran THEN AfterDo(call[p]) ELSE call[p].pc

(***************************************************************************)
(* The events and the seats agree on the client of p, but for the event p  *)
(* still has to publish.                                                   *)
(***************************************************************************)
Reported(p) ==
    /\ Heading(p) = "joined" => ClientOf[p] \in room.players
    /\ Heading(p) = "left" => ClientOf[p] \notin room.players
    /\ Heading(p) \notin {"joined", "left"}
         => (ClientOf[p] \in announced <=> ClientOf[p] \in room.players)

\* Until the room is shut down; nobody sits there without a goroutine.
Presence ==
    ~CtxDone =>
        /\ \A p \in Caller : Reported(p)
        /\ announced \cup room.players \subseteq {ClientOf[p] : p \in Caller}

\* A new room has no players and no events.
LEMMA InitPresence == Init => Presence /\ NoSwaps
  <1> SUFFICES ASSUME Init PROVE Presence /\ NoSwaps
    OBVIOUS
  <1>1. room.players = {}
    BY InitRefines DEF Table!Init
  <1>2. \A p \in Caller : Heading(p) = "idle" /\ call[p].fn # "JoinReplace"
    BY DEF Init, Heading, IdleCall, NewCall
  <1> QED BY <1>1, <1>2 DEF Init, Presence, Reported, NoSwaps

\* A step that leaves players, calls and events alone.
LEMMA QuietPresence ==
    ASSUME Presence, room'.players = room.players, UNCHANGED <<call, announced>>,
           CtxDone => CtxDone'
    PROVE  Presence'
  BY DEF Presence, Reported, Heading

(***************************************************************************)
(* A step of one caller that changes no seat: it may publish an event of   *)
(* its own client, of which nobody else has one left to publish.           *)
(***************************************************************************)
LEMMA CallerPresence ==
    ASSUME Inv, OneCallerEach, Presence, NEW p \in Caller, NEW k,
           call' = [call EXCEPT ![p] = k], room'.players = room.players,
           lifecycle' = lifecycle,
           \/ announced' = announced
           \/ announced' = announced \ {ClientOf[p]}
           \/ announced' = announced \cup {ClientOf[p]},
           ~CtxDone => Reported(p)'
    PROVE  Presence'
  <1> SUFFICES ASSUME ~CtxDone PROVE Presence'
    BY DEF Presence, CtxDone
  <1>1. \A q \in Caller \ {p} : call'[q] = call[q] /\ ClientOf[q] # ClientOf[p]
    BY DEF Inv, TypeOK, OneCallerEach
  <1>2. ASSUME NEW q \in Caller \ {p} PROVE Reported(q)'
    <2>1. Heading(q)' = Heading(q)
      BY <1>1 DEF Heading
    <2>2. ClientOf[q] \in announced' <=> ClientOf[q] \in announced
      BY <1>1
    <2>3. Reported(q)
      BY DEF Presence
    <2> QED BY <2>1, <2>2, <2>3 DEF Reported
  <1>3. announced' \cup room'.players \subseteq {ClientOf[q] : q \in Caller}
    BY DEF Presence
  <1> QED BY <1>2, <1>3 DEF Presence

(***************************************************************************)
(* What the closures of the other methods do to the players, and what they *)
(* tell their caller: a seat taken or given up is always reported, also if *)
(* module code panics.                                                     *)
(***************************************************************************)
LEMMA ClosureReports ==
    ASSUME RoomOK(config, room), NEW e \in Entry, NEW h1 \in Hooks, NEW h2 \in Hooks,
           e.fn \notin {"JoinReplace", "Grace"}
    PROVE  LET x == Closure(e, h1, h2) IN
           \/ /\ e.fn = "Join" /\ x.err = "nil" /\ x.changed
              /\ x.room.players = room.players \cup {e.client}
           \/ /\ e.fn = "Leave" /\ x.changed
              /\ x.room.players = room.players \ {e.client}
           \/ /\ x.room.players = room.players
              /\ e.fn \in {"Join", "Leave"} => ~x.changed
  <1> DEFINE x == Closure(e, h1, h2)
             Goal == \/ /\ e.fn = "Join" /\ x.err = "nil" /\ x.changed
                        /\ x.room.players = room.players \cup {e.client}
                     \/ /\ e.fn = "Leave" /\ x.changed
                        /\ x.room.players = room.players \ {e.client}
                     \/ /\ x.room.players = room.players
                        /\ e.fn \in {"Join", "Leave"} => ~x.changed
  <1> SUFFICES Goal
    OBVIOUS
  <1>1. room \in RoomState /\ Armed(room) /\ room.players \in SUBSET Client
    BY DEF RoomOK, RoomState
  <1>2. e.client \in Client
    BY DEF Entry
  <1>3. CASE e.fn = "Join"
    <2> DEFINE k == cancelEmptyRemoval([room EXCEPT !.players = @ \cup {e.client}])
    <2>1. RunHook(config, k, h1).players = room.players \cup {e.client}
      BY <1>1, <1>2, HookKeeps
    <2>2. x = IF ~room.isOpen THEN Result(room, "closed", FALSE, FALSE)
              ELSE IF Full(config, room) THEN Result(room, "full", FALSE, FALSE)
              ELSE IF e.client \in room.players THEN Result(room, "nil", FALSE, FALSE)
              ELSE Result(RunHook(config, k, h1), "nil", TRUE, FALSE)
      BY <1>3 DEF Closure, JoinFn
    <2> HIDE DEF k, x
    <2> QED BY <1>3, <2>1, <2>2 DEF Result
  <1>4. CASE e.fn = "Leave"
    <2> DEFINE v == RunHook(config, [room EXCEPT !.players = @ \ {e.client}], h1)
    <2>1. v.players = room.players \ {e.client}
      BY <1>1, VacateKeeps
    <2>2. x = IF e.client \notin room.players THEN Result(room, "nil", FALSE, FALSE)
              ELSE Result(v, "nil", TRUE, h1 # "panic" /\ v.players = {})
      BY <1>4 DEF Closure, LeaveFn
    <2> HIDE DEF v, x
    <2> QED BY <1>4, <2>1, <2>2 DEF Result
  <1>5. CASE e.fn = "Schedule"
    <2>1. x.room = scheduleEmptyRemoval(config, room)
      BY <1>5 DEF Closure, ScheduleFn, Result
    <2>2. scheduleEmptyRemoval(config, room).players = room.players
      BY <1>1, ScheduleLemma, ConfigType
    <2> HIDE DEF x
    <2> QED BY <1>5, <2>1, <2>2
  <1>6. CASE e.fn \in {"Close", "Open", "Info"}
    BY <1>1, <1>6 DEF Closure, CloseFn, OpenFn, InfoFn, Result, RoomState
  <1>7. CASE e.fn = "HandleMessage"
    <2> DEFINE v == RunHook(config, room, h1)
    <2>1. v.players = room.players
      BY <1>1, ConfigType, HookLemma
    <2>2. x = IF e.client \notin room.players THEN Result(room, "notInRoom", FALSE, FALSE)
              ELSE Result(v, IF h1 = "panic" THEN "internal" ELSE "nil", FALSE, FALSE)
      BY <1>7 DEF Closure, HandleMessageFn
    <2> HIDE DEF v, x
    <2> QED BY <1>7, <2>1, <2>2 DEF Result
  <1> HIDE DEF Goal
  <1> QED BY <1>3, <1>4, <1>5, <1>6, <1>7 DEF Entry, Method

\* The loop runs a closure: its caller will publish what it did.
LEMMA RunClosurePresence ==
    ASSUME Inv, Orderly, OneCallerEach, NoSwaps, Presence,
           NEW h1 \in Hooks, NEW h2 \in Hooks, RunClosure(h1, h2)
    PROVE  Presence'
  <1> SUFFICES ASSUME ~CtxDone PROVE Presence'
    BY DEF RunClosure, Presence, CtxDone
  <1>0. PICK e : e = inbox[1]
    OBVIOUS
  <1> DEFINE x == Closure(e, h1, h2)
  <1>1. inbox \in Seq(Entry) /\ inbox # <<>>
    BY DEF Inv, TypeOK, RunClosure
  <1>2. Head(inbox) = e /\ e \in Entry /\ 1 \in DOMAIN inbox
    BY <1>0, <1>1, TailLemma
  <1>3. /\ room' = x.room /\ UNCHANGED <<lifecycle, announced>> /\ e.fn # "Grace"
        /\ call' = [q \in Caller |->
                      IF q = e.by
                        THEN [call[q] EXCEPT !.ran = TRUE, !.err = x.err,
                                             !.changed = x.changed, !.empty = x.empty]
                        ELSE call[q]]
    BY <1>2 DEF RunClosure
  <1>4. PICK p \in Caller : p = e.by
    BY <1>0, <1>2, <1>3 DEF Orderly, Orphans
  <1>5. /\ call[p].pc = "wait" /\ ~call[p].ran /\ e.fn = call[p].fn
        /\ e.client = ClientOf[p] /\ e.fn # "JoinReplace"
    BY <1>0, <1>2, <1>4 DEF Inv, Linked, Orderly, Matched, NoSwaps
  <1>6. \/ /\ e.fn = "Join" /\ x.err = "nil" /\ x.changed
           /\ x.room.players = room.players \cup {e.client}
        \/ /\ e.fn = "Leave" /\ x.changed
           /\ x.room.players = room.players \ {e.client}
        \/ /\ x.room.players = room.players
           /\ e.fn \in {"Join", "Leave"} => ~x.changed
    BY <1>2, <1>3, <1>5, ClosureReports DEF Inv
  <1> HIDE DEF x
  <1>7. /\ call'[p].pc = "wait" /\ call'[p].ran /\ call'[p].fn = e.fn
        /\ call'[p].err = x.err /\ call'[p].changed = x.changed
    BY <1>3, <1>4, <1>5 DEF Inv, TypeOK, CallState
  <1>8. \A q \in Caller \ {p} : call'[q] = call[q] /\ ClientOf[q] # ClientOf[p]
    BY <1>3, <1>4 DEF OneCallerEach
  <1>9. Heading(p)' =
          IF e.fn = "Join" /\ x.err = "nil" /\ x.changed THEN "joined"
          ELSE IF e.fn = "Leave" /\ x.changed THEN "left" ELSE "idle"
    BY <1>5, <1>7 DEF Heading, AfterDo
  <1>10. Heading(p) = "wait" /\ Reported(p)
    BY <1>5 DEF Heading, Presence
  <1>11. Reported(p)'
    BY <1>3, <1>5, <1>6, <1>9, <1>10 DEF Reported
  <1>12. ASSUME NEW q \in Caller \ {p} PROVE Reported(q)'
    <2>1. Heading(q)' = Heading(q)
      BY <1>8 DEF Heading
    <2>2. ClientOf[q] \in room'.players <=> ClientOf[q] \in room.players
      BY <1>3, <1>5, <1>6, <1>8
    <2>3. Reported(q)
      BY DEF Presence
    <2> QED BY <1>3, <2>1, <2>2, <2>3 DEF Reported
  <1>13. announced' \cup room'.players \subseteq {ClientOf[q] : q \in Caller}
    BY <1>3, <1>5, <1>6 DEF Presence
  <1> QED BY <1>11, <1>12, <1>13 DEF Presence

\* The steps of a caller: an event is published for the seat it is about.
LEMMA CallerStepPresence ==
    ASSUME Inv, Orderly, OneCallerEach, NoSwaps, Presence,
           NEW p \in Caller, CallerStep(p)
    PROVE  Presence'
  <1> DEFINE k == call[p]
  <1>1. k \in CallState /\ call \in [Caller -> CallState] /\ room \in RoomState
    BY DEF Inv, TypeOK
  <1>2. ~CtxDone => Reported(p)
    BY DEF Presence
  <1>3. CASE SubmitRefused(p) \/ Abandon(p)
    BY <1>3 DEF SubmitRefused, Abandon, Presence, CtxDone
  <1>4. CASE Submit(p)
    <2>1. call' = [call EXCEPT ![p] = [k EXCEPT !.pc = "wait"]]
      BY <1>1, <1>4 DEF Submit
    <2>2. call'[p] = [k EXCEPT !.pc = "wait"]
      BY <1>1, <2>1
    <2>3. Heading(p) = "submit" /\ Heading(p)' = "wait"
      BY <1>1, <1>4, <2>2 DEF Heading, Submit, CallState, Inv, Fresh
    <2>4. ~CtxDone => Reported(p)'
      BY <1>2, <1>4, <2>3 DEF Reported, Submit
    <2> QED BY <1>4, <2>1, <2>4, CallerPresence DEF Submit
  <1>5. CASE Receive(p)
    <2> DEFINE n == IF AfterDo(k) = "idle" THEN IdleCall(p)
                    ELSE [k EXCEPT !.pc = AfterDo(k)]
    <2>1. room'.players = room.players /\ UNCHANGED <<lifecycle, announced>>
      BY <1>1, <1>5 DEF Receive, RoomState
    <2>2. call' = [call EXCEPT ![p] = n]
      BY <1>5 DEF Receive
    <2>3. call'[p] = n
      BY <1>1, <2>2
    <2>4. n.pc = AfterDo(k) /\ n.pc # "wait"
      BY <1>1 DEF AfterDo, IdleCall, NewCall, CallState
    <2> HIDE DEF n
    <2>5. Heading(p)' = Heading(p)
      BY <1>5, <2>3, <2>4 DEF Heading, Receive
    <2>6. ~CtxDone => Reported(p)'
      BY <1>2, <2>1, <2>5 DEF Reported
    <2> QED BY <2>1, <2>2, <2>6, CallerPresence
  <1>6. CASE PublishLeft(p)
    <2> DEFINE n == IF k.empty THEN NewCall("submit", "Schedule", k.old)
                    ELSE IdleCall(p)
    <2>1. k.fn # "JoinReplace"
      BY DEF NoSwaps
    <2>2. /\ call' = [call EXCEPT ![p] = n] /\ announced' = announced \ {ClientOf[p]}
          /\ UNCHANGED <<room, lifecycle>> /\ k.pc = "left"
      BY <1>6, <2>1 DEF PublishLeft
    <2>3. call'[p] = n
      BY <1>1, <2>2
    <2>4. n.pc \in {"submit", "idle"}
      BY DEF NewCall, IdleCall
    <2> HIDE DEF n
    <2>5. Heading(p) = "left" /\ Heading(p)' \in {"submit", "idle"}
      BY <2>2, <2>3, <2>4 DEF Heading
    <2>6. ~CtxDone => Reported(p)'
      BY <1>2, <2>2, <2>5 DEF Reported
    <2> QED BY <2>2, <2>6, CallerPresence
  <1>7. CASE PublishJoined(p)
    <2>1. /\ call' = [call EXCEPT ![p] = IdleCall(p)]
          /\ announced' = announced \cup {ClientOf[p]}
          /\ UNCHANGED <<room, lifecycle>> /\ k.pc = "joined"
      BY <1>7 DEF PublishJoined
    <2>2. call'[p] = IdleCall(p)
      BY <1>1, <2>1
    <2>3. Heading(p) = "joined" /\ Heading(p)' = "idle"
      BY <2>1, <2>2 DEF Heading, IdleCall, NewCall
    <2>4. ~CtxDone => Reported(p)'
      BY <1>2, <2>1, <2>3 DEF Reported
    <2> QED BY <2>1, <2>4, CallerPresence
  <1> QED BY <1>3, <1>4, <1>5, <1>6, <1>7 DEF CallerStep

\* No step begins a JoinReplace where the callers do not use it.
LEMMA NextNoSwaps ==
    "JoinReplace" \notin Fns => (Inv /\ NoSwaps /\ [Next]_vars => NoSwaps')
  <1> SUFFICES ASSUME "JoinReplace" \notin Fns, Inv, NoSwaps, [Next]_vars,
                      NEW p \in Caller
               PROVE  call'[p].fn # "JoinReplace"
    BY DEF NoSwaps
  <1>1. call[p].fn # "JoinReplace" /\ call \in [Caller -> CallState]
        /\ call[p] \in CallState
    BY DEF NoSwaps, Inv, TypeOK
  <1>2. ASSUME NEW q \in Caller, NEW fn \in Fns, NEW old \in Client, Call(q, fn, old)
        PROVE  call'[p].fn # "JoinReplace"
    BY <1>1, <1>2 DEF Call, NewCall
  <1>3. ASSUME NEW q \in Caller, CallerStep(q)
        PROVE  call'[p].fn # "JoinReplace"
    <2>1. CASE Submit(q) \/ SubmitRefused(q) \/ Abandon(q) \/ PublishJoined(q)
      BY <1>1, <2>1 DEF Submit, SubmitRefused, Abandon, PublishJoined, IdleCall,
                        NewCall, CallState
    <2>2. CASE Receive(q)
      BY <1>1, <2>2 DEF Receive, IdleCall, NewCall, CallState
    <2>3. CASE PublishLeft(q)
      BY <1>1, <2>3 DEF PublishLeft, IdleCall, NewCall, CallState
    <2> QED BY <1>3, <2>1, <2>2, <2>3 DEF CallerStep
  <1>4. ASSUME NEW h1 \in Hooks, NEW h2 \in Hooks, RunClosure(h1, h2)
        PROVE  call'[p].fn # "JoinReplace"
    <2> DEFINE x == Closure(Head(inbox), h1, h2)
    <2>1. call'[p] = IF p = Head(inbox).by
                       THEN [call[p] EXCEPT !.ran = TRUE, !.err = x.err,
                                            !.changed = x.changed, !.empty = x.empty]
                       ELSE call[p]
      BY <1>4 DEF RunClosure
    <2> HIDE DEF x
    <2> QED BY <1>1, <2>1 DEF CallState
  <1>5. CASE UNCHANGED call
    BY <1>1, <1>5
  <1> QED BY <1>2, <1>3, <1>4, <1>5
          DEF Next, vars, RunInbox, RunGrace, Tick, Exit, TimerStep, ExpireTimer,
              SubmitGrace, GraceRefused, Remove, OnEmpty, Cancel, Removed

\* Every step keeps Presence.
LEMMA NextPresence ==
    OneCallerEach =>
      (Inv /\ Orderly /\ NoSwaps /\ Presence /\ [Next]_vars => Presence')
  <1> SUFFICES ASSUME OneCallerEach, Inv, Orderly, NoSwaps, Presence, [Next]_vars
               PROVE  Presence'
    OBVIOUS
  <1>0. room \in RoomState /\ Armed(room)
    BY DEF Inv, RoomOK
  <1>1. CASE UNCHANGED vars
    BY <1>1, QuietPresence DEF vars, CtxDone
  <1>2. ASSUME NEW p \in Caller, NEW fn \in Fns, NEW old \in Client,
               Call(p, fn, old)
        PROVE  Presence'
    <2> DEFINE k == NewCall("submit", fn, old)
    <2>1. call' = [call EXCEPT ![p] = k] /\ UNCHANGED <<room, lifecycle, announced>>
          /\ call[p].pc = "idle"
      BY <1>2 DEF Call
    <2>2. call'[p] = k /\ k.pc = "submit"
      BY <2>1 DEF Inv, TypeOK, NewCall
    <2> HIDE DEF k
    <2>3. Heading(p) = "idle" /\ Heading(p)' = "submit"
      BY <2>1, <2>2 DEF Heading
    <2>4. ~CtxDone => Reported(p)'
      BY <2>1, <2>3 DEF Presence, Reported
    <2> QED BY <2>1, <2>4, CallerPresence
  <1>3. ASSUME NEW p \in Caller, CallerStep(p) PROVE Presence'
    BY <1>3, CallerStepPresence
  <1>4. ASSUME NEW h1 \in Hooks, NEW h2 \in Hooks, RunClosure(h1, h2)
        PROVE  Presence'
    BY <1>4, RunClosurePresence
  <1>5. CASE RunGrace
    <2>1. room'.players = room.players
      BY <1>0, <1>5 DEF RunGrace, GraceFn, RoomState
    <2> QED BY <1>5, <2>1, QuietPresence DEF RunGrace, CtxDone
  <1>6. ASSUME NEW h \in Hooks, Tick(h) PROVE Presence'
    <2>1. room'.players = room.players
      BY <1>0, <1>6, ConfigType, HookLemma DEF Tick
    <2> QED BY <1>6, <2>1, QuietPresence DEF Tick, CtxDone
  <1>7. ASSUME NEW h \in Hooks, Exit(h) PROVE Presence'
    BY <1>7 DEF Exit, Presence, CtxDone
  <1>8. ASSUME NEW t \in Timer, TimerStep(t) PROVE Presence'
    <2>1. room'.players = room.players
      BY <1>0, <1>8 DEF TimerStep, ExpireTimer, SubmitGrace, GraceRefused, RoomState
    <2> QED BY <1>8, <2>1, QuietPresence
            DEF TimerStep, ExpireTimer, SubmitGrace, GraceRefused, CtxDone
  <1>9. CASE Remove \/ OnEmpty \/ Cancel \/ Removed
    <2>1. room'.players = room.players
      BY <1>0, <1>9 DEF Remove, OnEmpty, Cancel, Removed, RoomState
    <2> QED BY <1>9, <2>1, QuietPresence DEF Remove, OnEmpty, Cancel, Removed, CtxDone
  <1> QED BY <1>1, <1>2, <1>3, <1>4, <1>5, <1>6, <1>7, <1>8, <1>9 DEF Next, RunInbox

(***************************************************************************)
(* The events published outside the actor add up to the seats whenever no  *)
(* call is in flight and the room was not shut down, for any clients, cap, *)
(* inbox capacity and module code, panicking hooks included                *)
(* (room.go:181-213, 261-285).  Each client is served by one goroutine     *)
(* (two of them may publish its events in the wrong order), and nobody     *)
(* uses JoinReplace, which publishes two events whatever it did.           *)
(***************************************************************************)
THEOREM EventsAddUp ==
    OneCallerEach /\ "JoinReplace" \notin Fns => (Spec => []PresenceSettles)
  <1> SUFFICES ASSUME OneCallerEach, "JoinReplace" \notin Fns
               PROVE  Spec => []PresenceSettles
    OBVIOUS
  <1>1. Init => Orderly /\ Presence /\ NoSwaps
    BY InitOrderly, InitPresence
  <1>2. Inv /\ Orderly /\ NoSwaps /\ Presence /\ [Next]_vars
          => Orderly' /\ NoSwaps' /\ Presence'
    BY NextOrderly, NextNoSwaps, NextPresence
  <1>3. Inv /\ Presence => PresenceSettles
    <2> SUFFICES ASSUME Presence, ~CtxDone, \A p \in Caller : call[p].pc = "idle"
                 PROVE  announced = room.players
      BY DEF PresenceSettles
    <2>1. \A p \in Caller : Heading(p) = "idle"
      BY DEF Heading
    <2>2. \A p \in Caller : ClientOf[p] \in announced <=> ClientOf[p] \in room.players
      BY <2>1 DEF Presence, Reported
    <2>3. ASSUME NEW c PROVE c \in announced <=> c \in room.players
      <3>1. CASE c \notin announced \cup room.players
        BY <3>1
      <3>2. CASE c \in announced \cup room.players
        <4>1. c \in {ClientOf[p] : p \in Caller}
          BY <3>2 DEF Presence
        <4>2. PICK p \in Caller : c = ClientOf[p]
          BY <4>1
        <4> QED BY <2>2, <4>2
      <3> QED BY <3>1, <3>2
    <2> QED BY <2>3
  <1> QED BY <1>1, <1>2, <1>3, Invariance, PTL DEF Spec, SafetySpec
=============================================================================
