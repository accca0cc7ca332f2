----------------------------- MODULE RoomProofs -----------------------------
(***************************************************************************)
(* Safety of the room actor for any number of callers, clients and timers, *)
(* any cap, any inbox capacity and any module code.                        *)
(***************************************************************************)
EXTENDS Room, RoomOpsProofs

\* The configuration of the room is one.
LEMMA ConfigType == config \in RoomConfig
  BY MaxPlayersAssumption, EmptyGraceAssumption DEF config, RoomConfig

(***************************************************************************)
(* The inductive invariant.  TypeOK needs to know that a call in progress  *)
(* names a method; the seats need finiteness (RoomOK); and what a closure  *)
(* writes back to its caller needs the link between the two: an entry of   *)
(* the inbox that has a caller is the only one of that caller, the caller  *)
(* waits for it, and it runs the caller's method.                          *)
(***************************************************************************)
Named == \A p \in Caller : call[p].pc # "idle" => call[p].fn # "none"

Fresh == \A p \in Caller : call[p].pc = "submit" => ~call[p].ran

Linked ==
    \A i \in DOMAIN inbox : \A p \in Caller :
        inbox[i].by = p => /\ call[p].pc = "wait"
                           /\ ~call[p].ran
                           /\ inbox[i].fn = call[p].fn

Unique ==
    \A i, j \in DOMAIN inbox :
        inbox[i].by \in Caller /\ inbox[i].by = inbox[j].by => i = j

Waited ==
    \A p \in Caller :
        call[p].pc = "wait" /\ ~call[p].ran
            => \E i \in DOMAIN inbox : inbox[i].by = p

SwapLeavesNoGap ==
    \A p \in Caller : call[p].fn = "JoinReplace" => ~call[p].empty

Inv ==
    /\ TypeOK
    /\ RoomOK(config, room)
    /\ Named
    /\ Fresh
    /\ Linked
    /\ Unique
    /\ Waited
    /\ SwapLeavesNoGap

\* A caller outside a call has the shape of one.
LEMMA IdleCallType ==
    ASSUME NEW p \in Caller
    PROVE  IdleCall(p) \in CallState
  BY ClientOfAssumption DEF IdleCall, NewCall, CallState, Err

\* The initial state satisfies the invariant.
LEMMA InitInv == Init => Inv
  <1> SUFFICES ASSUME Init PROVE Inv
    OBVIOUS
  <1>1. RoomOK(config, room)
    BY NewRoomOK, ConfigType DEF Init
  <1>2. TypeOK
    BY <1>1, IdleCallType, InboxCapAssumption DEF Init, TypeOK, RoomOK, Entry
  <1>3. Named /\ Fresh /\ Linked /\ Unique /\ Waited /\ SwapLeavesNoGap
    BY DEF Init, Named, Fresh, Linked, Unique, Waited, SwapLeavesNoGap, IdleCall, NewCall
  <1> QED BY <1>1, <1>2, <1>3 DEF Inv

\* Every closure leaves a sound room behind and results of the right type.
LEMMA ClosureOK ==
    ASSUME RoomOK(config, room), NEW e \in Entry, NEW h1, NEW h2
    PROVE  LET x == Closure(e, h1, h2)
           IN  /\ x \in ResultType
               /\ RoomOK(config, x.room)
               /\ e.fn = "JoinReplace" => ~x.empty
  <1> DEFINE x == Closure(e, h1, h2)
  <1> SUFFICES /\ x \in ResultType
               /\ RoomOK(config, x.room)
               /\ e.fn = "JoinReplace" => ~x.empty
    OBVIOUS
  <1>1. e.client \in Client /\ e.old \in Client
    BY DEF Entry
  <1>2. CASE e.fn = "Join"
    BY <1>1, <1>2, JoinOK, ConfigType DEF Closure
  <1>3. CASE e.fn = "JoinReplace"
    BY <1>1, <1>3, JoinReplaceOK, ConfigType DEF Closure
  <1>4. CASE e.fn = "Leave"
    BY <1>1, <1>4, LeaveOK, ConfigType DEF Closure
  <1>5. CASE e.fn = "Schedule"
    BY <1>5, ScheduleOK, ConfigType DEF Closure
  <1>6. CASE e.fn = "HandleMessage"
    BY <1>1, <1>6, HandleMessageOK, ConfigType DEF Closure
  <1>7. CASE e.fn = "Close"
    BY <1>7, DoorOK, ConfigType DEF Closure
  <1>8. CASE e.fn = "Open"
    BY <1>8, DoorOK, ConfigType DEF Closure
  <1>9. CASE e.fn \in {"Info", "Grace"}
    BY <1>9, DoorOK, ConfigType DEF Closure
  <1> QED BY <1>2, <1>3, <1>4, <1>5, <1>6, <1>7, <1>8, <1>9 DEF Entry, Method

-----------------------------------------------------------------------------
(* Steps of a caller.                                                      *)

\* A caller that found the room in the map starts a call.
LEMMA CallInv ==
    ASSUME Inv, NEW p \in Caller, NEW fn \in Fns, NEW old \in Client,
           Call(p, fn, old)
    PROVE  Inv'
  <1>1. NewCall("submit", fn, old) \in CallState /\ fn # "none"
    BY FnsAssumption DEF NewCall, CallState, Err, Method
  <1>2. TypeOK'
    BY <1>1 DEF Inv, TypeOK, Call
  <1>3. RoomOK(config, room)'
    BY DEF Inv, Call, RoomOK, Seats, Armed, config
  <1>4. Named' /\ Fresh' /\ Linked' /\ Unique' /\ Waited' /\ SwapLeavesNoGap'
    BY <1>1 DEF Inv, TypeOK, Call, NewCall, Named, Fresh, Linked, Unique,
                Waited, SwapLeavesNoGap
  <1> QED BY <1>2, <1>3, <1>4 DEF Inv

\* `r.inbox <- ...`: a new closure joins the inbox, its caller waits.
LEMMA SubmitInv ==
    ASSUME Inv, NEW p \in Caller, Submit(p)
    PROVE  Inv'
  <1>1. CallEntry(p) \in Entry /\ CallEntry(p).by = p /\ CallEntry(p).fn = call[p].fn
    <2>1. call[p] \in CallState /\ call[p].fn # "none"
      BY DEF Inv, TypeOK, Named, Submit
    <2>2. 1 \in Timer
      BY MaxExpiredAssumption DEF Timer
    <2> QED BY <2>1, <2>2, ClientOfAssumption DEF CallEntry, Entry, CallState
  <1> DEFINE e == CallEntry(p)
  <1> HIDE DEF e
  <1>2. inbox' = Append(inbox, e) /\ e \in Entry /\ e.by = p /\ e.fn = call[p].fn
    BY <1>1 DEF Submit, e
  <1>3. TypeOK'
    <2>1. inbox' \in Seq(Entry) /\ Len(inbox') <= InboxCap
      BY <1>2, InboxCapAssumption DEF Inv, TypeOK, Submit, InboxHasSpace
    <2>2. call' \in [Caller -> CallState]
      BY DEF Inv, TypeOK, Submit, CallState
    <2> QED BY <2>1, <2>2 DEF Inv, TypeOK, Submit
  <1>4. RoomOK(config, room)'
    BY DEF Inv, Submit, RoomOK, Seats, Armed, config
  <1>5. Named' /\ Fresh' /\ SwapLeavesNoGap'
    BY DEF Inv, TypeOK, CallState, Submit, Named, Fresh, SwapLeavesNoGap
  <1>6. \A i \in DOMAIN inbox : inbox[i].by # p
    BY DEF Inv, Linked, Submit
  <1>7. /\ DOMAIN inbox' = 1 .. (Len(inbox) + 1)
        /\ DOMAIN inbox = 1 .. Len(inbox)
        /\ Len(inbox) \in Nat
        /\ inbox'[Len(inbox) + 1] = e
        /\ \A i \in DOMAIN inbox : inbox'[i] = inbox[i]
    BY <1>2 DEF Inv, TypeOK
  <1>8. ~call[p].ran
    BY DEF Inv, Fresh, Submit
  <1>9. Linked'
    BY <1>2, <1>6, <1>7, <1>8 DEF Inv, TypeOK, CallState, Submit, Linked
  <1>10. Unique'
    BY <1>2, <1>6, <1>7 DEF Inv, Unique
  <1>11. Waited'
    <2>1. SUFFICES ASSUME NEW q \in Caller,
                          call'[q].pc = "wait", ~call'[q].ran
                   PROVE  \E i \in DOMAIN inbox' : inbox'[i].by = q
      BY DEF Waited
    <2>2. CASE q = p
      BY <1>2, <1>7, <2>2
    <2>3. CASE q # p
      <3>1. call'[q] = call[q]
        BY <2>3 DEF Inv, TypeOK, Submit
      <3>2. PICK i \in DOMAIN inbox : inbox[i].by = q
        BY <2>1, <3>1 DEF Inv, Waited
      <3> QED BY <1>7, <3>2
    <2> QED BY <2>2, <2>3
  <1> QED BY <1>3, <1>4, <1>5, <1>9, <1>10, <1>11 DEF Inv

\* A caller whose closure is not in the inbox ends its call.
LEMMA EndCallInv ==
    ASSUME Inv, NEW p \in Caller, \A i \in DOMAIN inbox : inbox[i].by # p,
           call' = [call EXCEPT ![p] = IdleCall(p)], UNCHANGED inbox
    PROVE  /\ call' \in [Caller -> CallState]
           /\ Named' /\ Fresh' /\ Linked' /\ Unique' /\ Waited' /\ SwapLeavesNoGap'
  <1>1. IdleCall(p) \in CallState
    BY IdleCallType
  <1>2. call' \in [Caller -> CallState]
    BY <1>1 DEF Inv, TypeOK
  <1>3. call'[p].pc = "idle" /\ ~call'[p].ran /\ call'[p].fn = "none"
    BY DEF Inv, TypeOK, IdleCall, NewCall
  <1>4. \A q \in Caller \ {p} : call'[q] = call[q]
    BY DEF Inv, TypeOK
  <1> QED BY <1>2, <1>3, <1>4 DEF Inv, Named, Fresh, Linked, Unique, Waited,
                                  SwapLeavesNoGap

\* `<-r.ctx.Done()` in the first select of do: nothing was submitted.
LEMMA SubmitRefusedInv ==
    ASSUME Inv, NEW p \in Caller, SubmitRefused(p)
    PROVE  Inv'
  <1>1. \A i \in DOMAIN inbox : inbox[i].by # p
    BY DEF Inv, Linked, SubmitRefused
  <1>2. /\ call' \in [Caller -> CallState]
        /\ Named' /\ Fresh' /\ Linked' /\ Unique' /\ Waited' /\ SwapLeavesNoGap'
    BY <1>1, EndCallInv DEF SubmitRefused
  <1>3. TypeOK' /\ RoomOK(config, room)'
    BY <1>2 DEF Inv, TypeOK, SubmitRefused, RoomOK, Seats, Armed, config
  <1> QED BY <1>2, <1>3 DEF Inv

\* `<-r.ctx.Done()` in the second select: the closure may still be queued.
LEMMA AbandonInv ==
    ASSUME Inv, NEW p \in Caller, Abandon(p)
    PROVE  Inv'
  <1>1. /\ DOMAIN inbox' = DOMAIN inbox
        /\ Len(inbox') = Len(inbox)
        /\ inbox' \in Seq(Entry)
        /\ \A i \in DOMAIN inbox :
              /\ inbox'[i].fn = inbox[i].fn
              /\ inbox'[i].by = IF inbox[i].by = p THEN NoCaller ELSE inbox[i].by
    <2> DEFINE n == Len(inbox)
    <2>1. inbox \in Seq(Entry) /\ n \in Nat /\ DOMAIN inbox = 1 .. n
      BY DEF Inv, TypeOK
    <2>2. DOMAIN inbox' = 1 .. n
      BY <2>1 DEF Abandon
    <2>3. ASSUME NEW i \in 1 .. n
          PROVE  /\ inbox'[i] \in Entry
                 /\ inbox'[i].fn = inbox[i].fn
                 /\ inbox'[i].by = IF inbox[i].by = p THEN NoCaller ELSE inbox[i].by
      <3>1. inbox[i] \in Entry
        BY <2>1
      <3>2. inbox'[i] = IF inbox[i].by = p THEN [inbox[i] EXCEPT !.by = NoCaller]
                                           ELSE inbox[i]
        BY <2>1 DEF Abandon
      <3> QED BY <3>1, <3>2 DEF Entry
    <2>4. inbox' \in [1 .. n -> Entry]
      <3>1. inbox' = [i \in 1 .. n |-> inbox'[i]]
        BY <2>1, <2>2 DEF Abandon
      <3> QED BY <2>3, <3>1
    <2>5. inbox' \in Seq(Entry) /\ Len(inbox') = n
      BY <2>1, <2>2, <2>4
    <2> QED BY <2>1, <2>2, <2>3, <2>5
  <1>2. IdleCall(p) \in CallState
    BY IdleCallType
  <1>3. call'[p].pc = "idle" /\ ~call'[p].ran /\ call'[p].fn = "none"
    BY DEF Inv, TypeOK, Abandon, IdleCall, NewCall
  <1>4. \A q \in Caller \ {p} : call'[q] = call[q]
    BY DEF Inv, TypeOK, Abandon
  <1>5. TypeOK'
    BY <1>1, <1>2 DEF Inv, TypeOK, Abandon
  <1>6. RoomOK(config, room)'
    BY DEF Inv, Abandon, RoomOK, Seats, Armed, config
  <1>7. Named' /\ Fresh' /\ SwapLeavesNoGap'
    BY <1>3, <1>4 DEF Inv, Named, Fresh, SwapLeavesNoGap
  <1>8. Linked' /\ Unique' /\ Waited'
    BY <1>1, <1>3, <1>4, NoCallerAssumption DEF Inv, Linked, Unique, Waited
  <1> QED BY <1>5, <1>6, <1>7, <1>8 DEF Inv

\* `<-done`: the caller reads what its closure left behind.
LEMMA ReceiveInv ==
    ASSUME Inv, NEW p \in Caller, Receive(p)
    PROVE  Inv'
  <1>1. \A i \in DOMAIN inbox : inbox[i].by # p
    BY DEF Inv, Linked, Receive
  <1>2. RoomOK(config, room)' /\ room' \in RoomState
    BY DEF Inv, TypeOK, Receive, RoomOK, Seats, Armed, config, RoomState
  <1>3. CASE AfterDo(call[p]) = "idle"
    <2>1. /\ call' \in [Caller -> CallState]
          /\ Named' /\ Fresh' /\ Linked' /\ Unique' /\ Waited' /\ SwapLeavesNoGap'
      BY <1>1, <1>3, EndCallInv DEF Receive
    <2> QED BY <1>2, <2>1 DEF Inv, TypeOK, Receive
  <1>4. CASE AfterDo(call[p]) # "idle"
    <2>1. AfterDo(call[p]) \in {"joined", "left"}
      BY <1>4 DEF AfterDo
    <2>2. /\ call' \in [Caller -> CallState]
          /\ \A q \in Caller \ {p} : call'[q] = call[q]
          /\ call'[p].pc \in {"joined", "left"}
          /\ call'[p].fn = call[p].fn
          /\ call'[p].empty = call[p].empty
      BY <1>4, <2>1 DEF Inv, TypeOK, Receive, CallState
    <2>3. Named' /\ Fresh' /\ Linked' /\ Unique' /\ Waited' /\ SwapLeavesNoGap'
      BY <1>1, <2>2 DEF Inv, Receive, Named, Fresh, Linked, Unique, Waited,
                        SwapLeavesNoGap
    <2> QED BY <1>2, <2>2, <2>3 DEF Inv, TypeOK, Receive
  <1> QED BY <1>3, <1>4

\* The caller publishes PlayerLeft after its closure ran.
LEMMA PublishLeftInv ==
    ASSUME Inv, NEW p \in Caller, PublishLeft(p)
    PROVE  Inv'
  <1>1. \A i \in DOMAIN inbox : inbox[i].by # p
    BY DEF Inv, Linked, PublishLeft
  <1>2. RoomOK(config, room)' /\ announced' \in SUBSET Client
    BY DEF Inv, TypeOK, PublishLeft, RoomOK, Seats, Armed, config
  <1>3. CASE call[p].fn # "JoinReplace" /\ ~call[p].empty
    <2>1. /\ call' \in [Caller -> CallState]
          /\ Named' /\ Fresh' /\ Linked' /\ Unique' /\ Waited' /\ SwapLeavesNoGap'
      BY <1>1, <1>3, EndCallInv DEF PublishLeft
    <2> QED BY <1>2, <2>1 DEF Inv, TypeOK, PublishLeft
  <1>4. CASE call[p].fn = "JoinReplace" \/ call[p].empty
    <2>1. /\ call' \in [Caller -> CallState]
          /\ \A q \in Caller \ {p} : call'[q] = call[q]
          /\ call'[p].pc \in {"submit", "joined"}
          /\ call'[p].pc = "submit" => ~call'[p].ran
          /\ call'[p].fn # "none"
          /\ call'[p].fn = "JoinReplace" => ~call'[p].empty
      <3>1. call[p] \in CallState
        BY DEF Inv, TypeOK
      <3>2. CASE call[p].fn = "JoinReplace"
        BY <3>1, <3>2 DEF Inv, TypeOK, PublishLeft, CallState, SwapLeavesNoGap
      <3>3. CASE call[p].fn # "JoinReplace"
        <4>1. NewCall("submit", "Schedule", call[p].old) \in CallState
          BY <3>1 DEF NewCall, CallState, Err
        <4>2. call' = [call EXCEPT ![p] = NewCall("submit", "Schedule", call[p].old)]
          BY <1>4, <3>3 DEF PublishLeft
        <4> QED BY <4>1, <4>2 DEF Inv, TypeOK, NewCall
      <3> QED BY <3>2, <3>3
    <2>2. Named' /\ Fresh' /\ Linked' /\ Unique' /\ Waited' /\ SwapLeavesNoGap'
      BY <1>1, <2>1 DEF Inv, PublishLeft, Named, Fresh, Linked, Unique, Waited,
                        SwapLeavesNoGap
    <2> QED BY <1>2, <2>1, <2>2 DEF Inv, TypeOK, PublishLeft
  <1> QED BY <1>3, <1>4

\* The caller publishes PlayerJoined after its closure ran.
LEMMA PublishJoinedInv ==
    ASSUME Inv, NEW p \in Caller, PublishJoined(p)
    PROVE  Inv'
  <1>1. \A i \in DOMAIN inbox : inbox[i].by # p
    BY DEF Inv, Linked, PublishJoined
  <1>2. /\ call' \in [Caller -> CallState]
        /\ Named' /\ Fresh' /\ Linked' /\ Unique' /\ Waited' /\ SwapLeavesNoGap'
    BY <1>1, EndCallInv DEF PublishJoined
  <1>3. TypeOK' /\ RoomOK(config, room)'
    BY <1>2, ClientOfAssumption
       DEF Inv, TypeOK, PublishJoined, RoomOK, Seats, Armed, config
  <1> QED BY <1>2, <1>3 DEF Inv

-----------------------------------------------------------------------------
(* Steps of the actor.                                                     *)

\* What taking the first closure out of the inbox does to the others.
LEMMA TailLemma ==
    ASSUME inbox \in Seq(Entry), inbox # <<>>, inbox' = Tail(inbox)
    PROVE  /\ inbox' \in Seq(Entry)
           /\ Head(inbox) = inbox[1] /\ 1 \in DOMAIN inbox
           /\ inbox[1] \in Entry
           /\ Len(inbox') = Len(inbox) - 1
           /\ \A i \in DOMAIN inbox' : i + 1 \in DOMAIN inbox
                                       /\ i + 1 # 1 /\ i \in Nat
                                       /\ inbox'[i] = inbox[i + 1]
           /\ \A i \in DOMAIN inbox :
                 i # 1 => i - 1 \in DOMAIN inbox' /\ inbox'[i - 1] = inbox[i]
  OBVIOUS

\* The loop runs the closure at the head of the inbox.
LEMMA RunClosureInv ==
    ASSUME Inv, NEW h1 \in Hooks, NEW h2 \in Hooks, RunClosure(h1, h2)
    PROVE  Inv'
  <1> DEFINE e == inbox[1]
             x == Closure(e, h1, h2)
  <1>1. inbox \in Seq(Entry) /\ inbox # <<>> /\ inbox' = Tail(inbox)
    BY DEF Inv, TypeOK, RunClosure
  <1>2. Head(inbox) = e /\ e \in Entry
    BY <1>1, TailLemma
  <1>3. /\ x \in ResultType
        /\ RoomOK(config, x.room)
        /\ e.fn = "JoinReplace" => ~x.empty
    BY <1>2, ClosureOK DEF Inv
  <1>4. /\ room' = x.room
        /\ call' = [p \in Caller |->
                      IF p = e.by
                        THEN [call[p] EXCEPT !.ran = TRUE, !.err = x.err,
                                             !.changed = x.changed,
                                             !.empty = x.empty]
                        ELSE call[p]]
        /\ UNCHANGED <<actor, lifecycle, announced>>
    BY <1>2 DEF RunClosure
  <1> HIDE DEF x
  <1>5. x.err \in Err /\ x.changed \in BOOLEAN /\ x.empty \in BOOLEAN
        /\ x.room \in RoomState
    BY <1>3 DEF ResultType
  <1>6. \A p \in Caller :
           /\ call'[p] \in CallState
           /\ call'[p].pc = call[p].pc
           /\ call'[p].fn = call[p].fn
           /\ p # e.by => call'[p] = call[p]
           /\ p = e.by => call'[p].ran /\ call'[p].empty = x.empty
    <2> TAKE p \in Caller
    <2>1. call[p] \in CallState
      BY DEF Inv, TypeOK
    <2> QED BY <1>4, <1>5, <2>1 DEF CallState
  <1>7. TypeOK'
    <2>1. call' \in [Caller -> CallState]
      BY <1>4, <1>6
    <2>2. inbox' \in Seq(Entry) /\ Len(inbox') <= InboxCap
      BY <1>1, TailLemma, InboxCapAssumption DEF Inv, TypeOK
    <2> QED BY <1>4, <1>5, <2>1, <2>2 DEF Inv, TypeOK
  <1>8. RoomOK(config, room)'
    BY <1>3, <1>4 DEF RoomOK, Seats, Armed, config
  <1>9. Named'
    BY <1>6 DEF Inv, Named
  <1>10. /\ 1 \in DOMAIN inbox
         /\ \A i \in DOMAIN inbox' : i + 1 \in DOMAIN inbox
                                     /\ i + 1 # 1 /\ i \in Nat
                                     /\ inbox'[i] = inbox[i + 1]
         /\ \A i \in DOMAIN inbox :
               i # 1 => i - 1 \in DOMAIN inbox' /\ inbox'[i - 1] = inbox[i]
    BY <1>1, TailLemma
  <1>11. e.by \in Caller => call[e.by].pc = "wait" /\ e.fn = call[e.by].fn
    BY <1>10 DEF Inv, Linked
  <1>12. Fresh'
    BY <1>6, <1>11 DEF Inv, Fresh
  <1>13. SwapLeavesNoGap'
    BY <1>3, <1>6, <1>11 DEF Inv, SwapLeavesNoGap
  <1>14. \A i \in DOMAIN inbox' : inbox'[i].by \in Caller => inbox'[i].by # e.by
    BY <1>10 DEF Inv, Unique
  <1> HIDE DEF e
  <1>15. Linked'
    BY <1>6, <1>10, <1>14 DEF Inv, Linked
  <1>16. Unique'
    <2>1. SUFFICES ASSUME NEW i \in DOMAIN inbox', NEW j \in DOMAIN inbox',
                          inbox'[i].by \in Caller, inbox'[i].by = inbox'[j].by
                   PROVE  i = j
      BY DEF Unique
    <2>2. i + 1 = j + 1
      BY <1>10, <2>1 DEF Inv, Unique
    <2> QED BY <1>10, <2>2
  <1>17. Waited'
    <2>1. SUFFICES ASSUME NEW p \in Caller, call'[p].pc = "wait", ~call'[p].ran
                   PROVE  \E i \in DOMAIN inbox' : inbox'[i].by = p
      BY DEF Waited
    <2>2. p # e.by /\ call'[p] = call[p]
      BY <1>6, <2>1
    <2>3. PICK i \in DOMAIN inbox : inbox[i].by = p
      BY <2>1, <2>2 DEF Inv, Waited
    <2>4. i # 1
      BY <2>2, <2>3 DEF e
    <2> QED BY <1>10, <2>3, <2>4
  <1> QED BY <1>7, <1>8, <1>9, <1>12, <1>13, <1>15, <1>16, <1>17 DEF Inv

\* The loop runs the closure of an expired grace timer.
LEMMA RunGraceInv ==
    ASSUME Inv, RunGrace
    PROVE  Inv'
  <1> DEFINE e == inbox[1]
  <1>1. inbox \in Seq(Entry) /\ inbox # <<>> /\ inbox' = Tail(inbox)
    BY DEF Inv, TypeOK, RunGrace
  <1>2. /\ Head(inbox) = e /\ e \in Entry
        /\ 1 \in DOMAIN inbox
        /\ \A i \in DOMAIN inbox' : i + 1 \in DOMAIN inbox
                                    /\ i + 1 # 1 /\ i \in Nat
                                    /\ inbox'[i] = inbox[i + 1]
        /\ \A i \in DOMAIN inbox :
              i # 1 => i - 1 \in DOMAIN inbox' /\ inbox'[i - 1] = inbox[i]
    BY <1>1, TailLemma
  <1>3. e.fn = "Grace" /\ e.timer \in Timer /\ room' = GraceFn(room, e.timer)
    BY <1>2 DEF RunGrace, Entry
  <1>4. e.by \notin Caller
    <2>1. ASSUME e.by \in Caller PROVE FALSE
      <3>1. call[e.by].fn = "Grace"
        BY <1>2, <1>3, <2>1 DEF Inv, Linked
      <3>2. call[e.by] \in CallState
        BY <2>1 DEF Inv, TypeOK
      <3> QED BY <3>1, <3>2 DEF CallState, Method
    <2> QED BY <2>1
  <1>5. /\ room' \in RoomState /\ room'.players = room.players
        /\ Armed(room')
    BY <1>3 DEF Inv, TypeOK, RoomOK, GraceFn, RoomState, TimerState, Armed
  <1>6. RoomOK(config, room)'
    BY <1>5 DEF Inv, RoomOK, Seats, Armed, config
  <1>7. TypeOK'
    <2>1. inbox' \in Seq(Entry) /\ Len(inbox') <= InboxCap
      BY <1>1, TailLemma, InboxCapAssumption DEF Inv, TypeOK
    <2> QED BY <1>5, <2>1 DEF Inv, TypeOK, RunGrace
  <1>8. Named' /\ Fresh' /\ SwapLeavesNoGap'
    BY DEF Inv, RunGrace, Named, Fresh, SwapLeavesNoGap
  <1>9. Linked'
    BY <1>2 DEF Inv, RunGrace, Linked
  <1>10. Unique'
    <2>1. SUFFICES ASSUME NEW i \in DOMAIN inbox', NEW j \in DOMAIN inbox',
                          inbox'[i].by \in Caller, inbox'[i].by = inbox'[j].by
                   PROVE  i = j
      BY DEF Unique
    <2>2. i + 1 = j + 1
      BY <1>2, <2>1 DEF Inv, Unique
    <2> QED BY <1>2, <2>2
  <1>11. Waited'
    <2>1. SUFFICES ASSUME NEW p \in Caller, call[p].pc = "wait", ~call[p].ran
                   PROVE  \E i \in DOMAIN inbox' : inbox'[i].by = p
      BY DEF Waited, RunGrace
    <2>2. PICK i \in DOMAIN inbox : inbox[i].by = p
      BY <2>1 DEF Inv, Waited
    <2>3. i # 1
      BY <1>4, <2>2
    <2> QED BY <1>2, <2>2, <2>3
  <1> QED BY <1>6, <1>7, <1>8, <1>9, <1>10, <1>11 DEF Inv

\* A step that leaves the inbox and the calls alone.
LEMMA RoomStepInv ==
    ASSUME Inv, UNCHANGED <<inbox, call>>, RoomOK(config, room'),
           actor' \in {"loop", "exited"}, announced' = announced,
           lifecycle' \in {"registered", "unregistered", "cancelled", "removed"}
    PROVE  Inv'
  <1>1. TypeOK' /\ RoomOK(config, room)'
    BY DEF Inv, TypeOK, RoomOK, Seats, Armed, config
  <1>2. Named' /\ Fresh' /\ Linked' /\ Unique' /\ Waited' /\ SwapLeavesNoGap'
    BY DEF Inv, Named, Fresh, Linked, Unique, Waited, SwapLeavesNoGap
  <1> QED BY <1>1, <1>2 DEF Inv

\* The loop runs OnTick.
LEMMA TickInv ==
    ASSUME Inv, NEW h \in Hooks, Tick(h)
    PROVE  Inv'
  <1>1. RoomOK(config, room')
    BY HookOK, ConfigType DEF Inv, Tick
  <1> QED BY <1>1, RoomStepInv DEF Inv, TypeOK, Tick

\* The loop returns when the context is cancelled.
LEMMA ExitInv ==
    ASSUME Inv, NEW h \in Hooks, Exit(h)
    PROVE  Inv'
  <1> DEFINE k == cancelEmptyRemoval(room)
  <1>1. RoomOK(config, k)
    BY CancelLemma DEF Inv, RoomOK, Armed, Seats
  <1> HIDE DEF k
  <1>2. RoomOK(config, RunHook(config, k, h))
    BY <1>1, ConfigType, HookOK
  <1>3. RoomOK(config, room')
    BY <1>2 DEF Exit, k
  <1> QED BY <1>3, RoomStepInv DEF Inv, TypeOK, Exit

-----------------------------------------------------------------------------
(* Steps of the timers and of the removal.                                 *)

\* Only scheduleEmptyRemoval starts a timer.
LEMMA TimerMoveOK ==
    ASSUME Inv, NEW t \in Timer, NEW s \in {"free", "expired", "queued"},
           room' = [room EXCEPT !.timers[t] = s]
    PROVE  RoomOK(config, room')
  BY DEF Inv, RoomOK, Seats, Armed, RoomState, TimerState

\* A grace timer expires, or its goroutine finds the room cancelled.
LEMMA TimerInv ==
    ASSUME Inv, NEW t \in Timer, ExpireTimer(t) \/ GraceRefused(t)
    PROVE  Inv'
  <1>1. RoomOK(config, room')
    BY TimerMoveOK DEF ExpireTimer, GraceRefused
  <1>2. CASE ExpireTimer(t)
    BY <1>1, <1>2, RoomStepInv DEF Inv, TypeOK, ExpireTimer
  <1>3. CASE GraceRefused(t)
    BY <1>1, <1>3, RoomStepInv DEF Inv, TypeOK, GraceRefused
  <1> QED BY <1>2, <1>3

\* The goroutine of an expired grace timer submits its closure.
LEMMA SubmitGraceInv ==
    ASSUME Inv, NEW t \in Timer, SubmitGrace(t)
    PROVE  Inv'
  <1> DEFINE e == GraceEntry(t)
  <1>1. e \in Entry /\ e.by = NoCaller
    BY ClientAssumption DEF GraceEntry, Entry
  <1>2. inbox' = Append(inbox, e)
    BY DEF SubmitGrace
  <1> HIDE DEF e
  <1>3. RoomOK(config, room')
    BY TimerMoveOK DEF SubmitGrace
  <1>4. TypeOK'
    <2>1. inbox' \in Seq(Entry) /\ Len(inbox') <= InboxCap
      BY <1>1, <1>2, InboxCapAssumption DEF Inv, TypeOK, SubmitGrace, InboxHasSpace
    <2> QED BY <1>3, <2>1 DEF Inv, TypeOK, RoomOK, SubmitGrace
  <1>5. RoomOK(config, room)'
    BY <1>3 DEF RoomOK, Seats, Armed, config
  <1>6. Named' /\ Fresh' /\ SwapLeavesNoGap'
    BY DEF Inv, SubmitGrace, Named, Fresh, SwapLeavesNoGap
  <1>7. /\ DOMAIN inbox' = 1 .. (Len(inbox) + 1)
        /\ DOMAIN inbox = 1 .. Len(inbox)
        /\ Len(inbox) \in Nat
        /\ inbox'[Len(inbox) + 1].by \notin Caller
        /\ \A i \in DOMAIN inbox : inbox'[i] = inbox[i]
    BY <1>1, <1>2, NoCallerAssumption DEF Inv, TypeOK
  <1>8. Linked'
    BY <1>7 DEF Inv, SubmitGrace, Linked
  <1>9. Unique'
    BY <1>7 DEF Inv, Unique
  <1>10. Waited'
    <2>1. SUFFICES ASSUME NEW p \in Caller, call[p].pc = "wait", ~call[p].ran
                   PROVE  \E i \in DOMAIN inbox' : inbox'[i].by = p
      BY DEF Waited, SubmitGrace
    <2>2. PICK i \in DOMAIN inbox : inbox[i].by = p
      BY <2>1 DEF Inv, Waited
    <2> QED BY <1>7, <2>2
  <1> QED BY <1>4, <1>5, <1>6, <1>8, <1>9, <1>10 DEF Inv

\* Removal of the room from the map, cancellation and wait.
LEMMA LifecycleInv ==
    ASSUME Inv, Remove \/ OnEmpty \/ Cancel \/ Removed
    PROVE  Inv'
  <1>1. CASE Remove \/ Cancel \/ Removed
    <2>1. RoomOK(config, room')
      BY <1>1 DEF Inv, Remove, Cancel, Removed
    <2> QED BY <1>1, <2>1, RoomStepInv DEF Inv, TypeOK, Remove, Cancel, Removed
  <1>2. CASE OnEmpty
    <2>1. RoomOK(config, room')
      BY <1>2 DEF Inv, OnEmpty, RoomOK, RoomState, Seats, Armed
    <2> QED BY <1>2, <2>1, RoomStepInv DEF Inv, TypeOK, OnEmpty
  <1> QED BY <1>1, <1>2

-----------------------------------------------------------------------------
\* Every step keeps the invariant.
LEMMA NextInv == Inv /\ [Next]_vars => Inv'
  <1> SUFFICES ASSUME Inv, [Next]_vars PROVE Inv'
    OBVIOUS
  <1>1. CASE UNCHANGED vars
    <2>1. room' = room /\ UNCHANGED <<inbox, call>> /\ actor' = actor
          /\ lifecycle' = lifecycle /\ announced' = announced
      BY <1>1 DEF vars
    <2>2. RoomOK(config, room')
      BY <2>1 DEF Inv
    <2> QED BY <2>1, <2>2, RoomStepInv DEF Inv, TypeOK
  <1>2. ASSUME NEW p \in Caller, NEW fn \in Fns, NEW old \in Client,
               Call(p, fn, old)
        PROVE  Inv'
    BY <1>2, CallInv
  <1>3. ASSUME NEW p \in Caller, CallerStep(p) PROVE Inv'
    BY <1>3, SubmitInv, SubmitRefusedInv, AbandonInv, ReceiveInv,
       PublishLeftInv, PublishJoinedInv DEF CallerStep
  <1>4. CASE RunInbox
    BY <1>4, RunClosureInv, RunGraceInv DEF RunInbox
  <1>5. ASSUME NEW h \in Hooks, Exit(h) PROVE Inv'
    BY <1>5, ExitInv
  <1>6. ASSUME NEW h \in Hooks, Tick(h) PROVE Inv'
    BY <1>6, TickInv
  <1>7. ASSUME NEW t \in Timer, TimerStep(t) PROVE Inv'
    BY <1>7, TimerInv, SubmitGraceInv DEF TimerStep
  <1>8. CASE Remove \/ OnEmpty \/ Cancel \/ Removed
    BY <1>8, LifecycleInv
  <1> QED BY <1>1, <1>2, <1>3, <1>4, <1>5, <1>6, <1>7, <1>8 DEF Next

\* Every reachable state satisfies the inductive invariant.
THEOREM Invariance == Spec => []Inv
  <1>1. Init => Inv
    BY InitInv
  <1>2. Inv /\ [Next]_vars => Inv'
    BY NextInv
  <1> QED BY <1>1, <1>2, PTL DEF Spec, SafetySpec

(***************************************************************************)
(* The variables keep their types, and the inbox its capacity: do and the  *)
(* timers only send when the channel has room (room.go:151-161).           *)
(***************************************************************************)
THEOREM TypeCorrect == Spec => []TypeOK
  <1>1. Inv => TypeOK
    BY DEF Inv
  <1> QED BY <1>1, Invariance, PTL

(***************************************************************************)
(* No interleaving of joins, swaps and leaves seats more players than      *)
(* MaxPlayers, although the cap is compared with a truncated count         *)
(* (room.go:188, 233).                                                     *)
(***************************************************************************)
THEOREM CapacityRespected == Spec => []SeatLimit
  <1>1. Inv => SeatLimit
    BY DEF Inv, RoomOK, Seats, SeatLimit, config
  <1> QED BY <1>1, Invariance, PTL

(***************************************************************************)
(* No grace timer ticks that the room could not stop (room.go:311-336).    *)
(***************************************************************************)
THEOREM TimersUnderControl == Spec => []TickingTimerIsArmed
  <1>1. Inv => TickingTimerIsArmed
    BY DEF Inv, RoomOK, Armed, TickingTimerIsArmed
  <1> QED BY <1>1, Invariance, PTL

(***************************************************************************)
(* A caller of do that waits is always owed exactly one signal             *)
(* (room.go:143-162).                                                      *)
(***************************************************************************)
THEOREM WakeupsNotLost == Spec => []NoLostWakeup
  <1>1. Inv => NoLostWakeup
    <2> SUFFICES ASSUME Inv, NEW p \in Caller
                 PROVE  LET mine == {i \in DOMAIN inbox : inbox[i].by = p}
                        IN  IF call[p].pc = "wait" /\ ~call[p].ran
                              THEN \E i \in mine : mine = {i} /\ inbox[i].fn = call[p].fn
                              ELSE mine = {}
      BY DEF NoLostWakeup
    <2> DEFINE mine == {i \in DOMAIN inbox : inbox[i].by = p}
    <2>1. CASE call[p].pc = "wait" /\ ~call[p].ran
      <3>1. PICK i \in DOMAIN inbox : inbox[i].by = p
        BY <2>1 DEF Inv, Waited
      <3>2. inbox[i].fn = call[p].fn
        BY <3>1 DEF Inv, Linked
      <3>3. mine = {i}
        BY <3>1 DEF Inv, Unique
      <3> QED BY <2>1, <3>1, <3>2, <3>3
    <2>2. CASE ~(call[p].pc = "wait" /\ ~call[p].ran)
      <3>1. mine = {}
        BY <2>2 DEF Inv, Linked
      <3> QED BY <2>2, <3>1
    <2> QED BY <2>1, <2>2
  <1> QED BY <1>1, Invariance, PTL

(***************************************************************************)
(* With a positive EmptyGrace, the removal of an emptied room is only ever *)
(* started on a room that is empty and not kept: the closure of the timer  *)
(* looks again, and nothing else starts it (room.go:320-326).  Without a   *)
(* grace this is false; see the run room_instant_removal.                  *)
(***************************************************************************)
THEOREM GraceRemovesOnlyEmptyRooms ==
    EmptyGrace => (Spec => RemovalStartsOnEmptyRoom)
  <1> SUFFICES ASSUME EmptyGrace PROVE Spec => RemovalStartsOnEmptyRoom
    OBVIOUS
  <1> DEFINE Starts == ~room.onEmptyDue /\ room'.onEmptyDue
             Good   == Starts => room'.players = {} /\ ~room'.keepOnEmpty
  <1>1. Inv /\ [Next]_vars => [Good]_vars
    <2> SUFFICES ASSUME Inv, Next PROVE Good
      OBVIOUS
    <2>1. room \in RoomState /\ Armed(room)
      BY DEF Inv, RoomOK
    <2>2. config.emptyGrace
      BY DEF config
    <2>3. CASE UNCHANGED room
      BY <2>3
    <2>4. ASSUME NEW p \in Caller, Receive(p) PROVE Good
      <3>1. room'.onEmptyDue = room.onEmptyDue
        BY <2>1, <2>4 DEF Receive, Inv, SwapLeavesNoGap, RoomState
      <3> QED BY <3>1
    <2>5. ASSUME NEW h1 \in Hooks, NEW h2 \in Hooks, RunClosure(h1, h2) PROVE Good
      <3> DEFINE e == inbox[1]
      <3>1. Head(inbox) = e /\ e \in Entry
        BY <2>5, TailLemma DEF RunClosure, Inv, TypeOK
      <3>2. room' = Closure(e, h1, h2).room
        BY <2>5, <3>1 DEF RunClosure
      <3>3. e.client \in Client /\ e.old \in Client
        BY <3>1 DEF Entry
      <3> HIDE DEF e
      <3>4. /\ JoinFn(config, room, e.client, h1).room.onEmptyDue = room.onEmptyDue
            /\ JoinReplaceFn(config, room, e.old, e.client, h1, h2).room.onEmptyDue
                 = room.onEmptyDue
            /\ LeaveFn(config, room, e.client, h1).room.onEmptyDue = room.onEmptyDue
            /\ HandleMessageFn(config, room, e.client, h1).room.onEmptyDue
                 = room.onEmptyDue
            /\ ScheduleFn(config, room).room.onEmptyDue = room.onEmptyDue
        BY <2>1, <2>2, <3>3, ConfigType, QuietClosures
      <3>5. /\ CloseFn(room).room.onEmptyDue = room.onEmptyDue
            /\ OpenFn(room).room.onEmptyDue = room.onEmptyDue
            /\ InfoFn(room).room.onEmptyDue = room.onEmptyDue
        BY <2>1 DEF CloseFn, OpenFn, InfoFn, Result, RoomState
      <3>6. Closure(e, h1, h2).room.onEmptyDue = room.onEmptyDue
        BY <3>4, <3>5 DEF Closure
      <3> QED BY <3>2, <3>6
    <2>6. CASE RunGrace
      BY <2>1, <2>6 DEF RunGrace, GraceFn, RoomState
    <2>7. ASSUME NEW h \in Hooks, Tick(h) PROVE Good
      BY <2>1, <2>2, <2>7, HookLemma, ConfigType DEF Tick
    <2>8. ASSUME NEW h \in Hooks, Exit(h) PROVE Good
      <3> DEFINE k == cancelEmptyRemoval(room)
      <3>1. k \in RoomState /\ Armed(k) /\ k.onEmptyDue = room.onEmptyDue
        BY <2>1, CancelLemma DEF Armed
      <3>2. room' = RunHook(config, k, h)
        BY <2>8 DEF Exit
      <3> HIDE DEF k
      <3> QED BY <2>2, <3>1, <3>2, HookLemma, ConfigType
    <2>9. ASSUME NEW t \in Timer, TimerStep(t) PROVE Good
      BY <2>1, <2>9 DEF TimerStep, ExpireTimer, SubmitGrace, GraceRefused, RoomState
    <2>10. CASE OnEmpty
      BY <2>1, <2>10 DEF OnEmpty, RoomState
    <2>11. ASSUME NEW p \in Caller, CallerStep(p) PROVE UNCHANGED room \/ Receive(p)
      BY <2>11 DEF CallerStep, Submit, SubmitRefused, Abandon, PublishLeft,
                   PublishJoined
    <2>12. ASSUME NEW p \in Caller, NEW fn \in Fns, NEW old \in Client,
                  Call(p, fn, old)
           PROVE  UNCHANGED room
      BY <2>12 DEF Call
    <2>13. CASE Remove \/ Cancel \/ Removed
      BY <2>3, <2>13 DEF Remove, Cancel, Removed
    <2> QED BY <2>3, <2>4, <2>5, <2>6, <2>7, <2>8, <2>9, <2>10, <2>11, <2>12,
               <2>13 DEF Next, RunInbox
  <1> QED BY <1>1, Invariance, PTL DEF Spec, SafetySpec, RemovalStartsOnEmptyRoom
=============================================================================
