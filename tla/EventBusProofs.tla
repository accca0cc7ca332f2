--------------------------- MODULE EventBusProofs ---------------------------
(***************************************************************************)
(* Safety of the event bus for any number of subscribers and publishers.   *)
(***************************************************************************)
EXTENDS EventBus, FiniteSetTheorems, TLAPS

-----------------------------------------------------------------------------
(* The inductive invariant.                                                *)

\* A goroutine between two attempts, or in no call, holds no instance.
EmptyHanded ==
    \A s \in Subscriber :
        proc[s].pc \in {"idle", "get", "load"} => proc[s].t = NoInstance

\* The steps of a call belong to the call that was made last.
InLastCall ==
    \A s \in Subscriber :
        /\ proc[s].pc \in {"get", "add", "check", "undo"} => last[s] = "Subscribe"
        /\ proc[s].pc \in {"load", "remove", "isEmpty", "delete"}
              => last[s] = "Unsubscribe"

\* An instance that was found replaced never comes back to the map while a
\* goroutine holds it: undoing takes nobody out of the topic in use.
UndoIsOffTheMap ==
    \A s \in Subscriber : proc[s].pc = "undo" => topics # proc[s].t

\* A subscriber that unsubscribes is in the topic in use only until it has
\* removed itself from it, and it is that topic it is about to remove.
LeavesTopicInUse ==
    \A s \in Subscriber :
        /\ last[s] = "Unsubscribe"
        /\ topics # NoInstance
        /\ s \in subs[topics]
        => proc[s].pc = "load" \/ (proc[s].pc = "remove" /\ proc[s].t = topics)

\* Somebody is about to fill, look at or delete an empty topic in use.
EmptyTopicIsSeen ==
    topics # NoInstance /\ subs[topics] = {} =>
        \E s \in Subscriber :
            proc[s].t = topics /\ proc[s].pc \in {"add", "isEmpty", "delete"}

\* A publisher that is about to take its snapshot will not find those who
\* were gone when it began.
SnapshotWithoutTheGone ==
    \A q \in Publisher :
        /\ \A s \in pub[q].barred : last[s] = "Unsubscribe"
        /\ pub[q].pc = "send" =>
              pub[q].t \in Instance /\ subs[pub[q].t] \cap pub[q].barred = {}

Inv ==
    /\ TypeOK
    /\ EmptyHanded
    /\ InLastCall
    /\ UndoIsOffTheMap
    /\ LeavesTopicInUse
    /\ EmptyTopicIsSeen
    /\ SnapshotWithoutTheGone
    /\ NoDeliveryToTheGone

-----------------------------------------------------------------------------
(* A fresh instance.                                                       *)

\* The values a function takes are no more than its arguments.
LEMMA ImageBound ==
    ASSUME NEW S, IsFiniteSet(S), NEW f, NEW T, T = {f[x] : x \in S}
    PROVE  IsFiniteSet(T) /\ Cardinality(T) <= Cardinality(S)
  <1> DEFINE g == [x \in S |-> f[x]]
  <1>1. g \in Surjection(S, T)
    BY DEF Surjection
  <1> QED BY <1>1, FS_Surjection

(***************************************************************************)
(* When a goroutine asks for an instance and the map has none, one is      *)
(* left: the others hold at most one each.                                 *)
(***************************************************************************)
LEMMA FreshInstance ==
    ASSUME TypeOK, EmptyHanded, NEW s \in Subscriber, proc[s].pc = "get",
           topics = NoInstance
    PROVE  Fresh \in Instance /\ ~Reachable(Fresh)
  <1>1. SUFFICES \E i \in Instance : ~Reachable(i)
    BY <1>1 DEF Fresh
  <1>2. SUFFICES ASSUME \A i \in Instance : Reachable(i)
                 PROVE  FALSE
    BY <1>2
  <1> DEFINE S == Subscriber \ {s}
             p == [x \in Subscriber |-> proc[x].t]
             q == [x \in Publisher |-> pub[x].t]
             A == {p[x] : x \in S}
             B == {q[x] : x \in Publisher}
  <1>3. IsFiniteSet(S) /\ Cardinality(S) = Cardinality(Subscriber) - 1
    BY InstanceAssumption, FS_RemoveElement
  <1>4. /\ Cardinality(Subscriber) \in Nat /\ Cardinality(Publisher) \in Nat
        /\ Cardinality(Instance) \in Nat
    BY InstanceAssumption, FS_CardinalityType
  <1>5. IsFiniteSet(A) /\ Cardinality(A) <= Cardinality(S)
    <2> HIDE DEF p, S
    <2> QED BY <1>3, ImageBound
  <1>6. IsFiniteSet(B) /\ Cardinality(B) <= Cardinality(Publisher)
    <2> HIDE DEF q
    <2> QED BY InstanceAssumption, ImageBound
  <1>7. Instance \subseteq A \cup B
    <2> SUFFICES ASSUME NEW i \in Instance PROVE i \in A \cup B
      OBVIOUS
    <2>1. topics # i /\ proc[s].t # i
      BY NoInstanceAssumption DEF EmptyHanded
    <2>2. CASE \E x \in Subscriber : proc[x].t = i
      BY <2>1, <2>2
    <2>3. CASE \E x \in Publisher : pub[x].t = i
      BY <2>3
    <2> QED BY <1>2, <2>1, <2>2, <2>3 DEF Reachable
  <1> HIDE DEF A, B, S
  <1>8. IsFiniteSet(A \cup B) /\ Cardinality(A \cup B) <= Cardinality(A) + Cardinality(B)
    <2>1. IsFiniteSet(A \cap B)
      BY <1>5, FS_Intersection
    <2>2. /\ Cardinality(A) \in Nat /\ Cardinality(B) \in Nat
          /\ Cardinality(A \cap B) \in Nat
      BY <1>5, <1>6, <2>1, FS_CardinalityType
    <2>3. /\ IsFiniteSet(A \cup B)
          /\ Cardinality(A \cup B)
               = Cardinality(A) + Cardinality(B) - Cardinality(A \cap B)
      BY <1>5, <1>6, FS_Union
    <2> QED BY <2>2, <2>3
  <1>9. Cardinality(Instance) <= Cardinality(A \cup B)
    BY <1>7, <1>8, FS_Subset
  <1>10. /\ Cardinality(A) \in Nat /\ Cardinality(B) \in Nat
         /\ Cardinality(A \cup B) \in Nat /\ Cardinality(S) \in Nat
    BY <1>3, <1>5, <1>6, <1>8, FS_CardinalityType
  <1> QED BY <1>3, <1>4, <1>5, <1>6, <1>8, <1>9, <1>10, InstanceAssumption

-----------------------------------------------------------------------------
(* Invariance.                                                             *)

\* Nobody has called yet.
LEMMA InitInv == Init => Inv
  <1> SUFFICES ASSUME Init PROVE Inv
    OBVIOUS
  <1>1. TypeOK
    BY DEF Init, TypeOK, ProcState, PubState, Idle, PubIdle
  <1> QED
    BY <1>1 DEF Init, Inv, EmptyHanded, InLastCall, UndoIsOffTheMap,
       LeavesTopicInUse, EmptyTopicIsSeen, SnapshotWithoutTheGone,
       NoDeliveryToTheGone, Idle, PubIdle

\* The call begins; whoever subscribes again may be served again.
LEMMA BeginInv ==
    ASSUME Inv, NEW s \in Subscriber, Subscribe(s) \/ Unsubscribe(s)
    PROVE  Inv'
  <1>1. TypeOK'
    <2>1. pub' \in [Publisher -> PubState]
      <3>1. CASE Subscribe(s)
        <4>1. ASSUME NEW x \in Publisher
              PROVE  [pub[x] EXCEPT !.barred = @ \ {s}] \in PubState
          BY DEF Inv, TypeOK, PubState
        <4> QED BY <3>1, <4>1 DEF Subscribe
      <3>2. CASE Unsubscribe(s)
        BY <3>2 DEF Inv, TypeOK, Unsubscribe
      <3> QED BY <3>1, <3>2
    <2>2. CASE Subscribe(s)
      BY <2>1, <2>2 DEF Inv, TypeOK, Subscribe, ProcState, At
    <2>3. CASE Unsubscribe(s)
      BY <2>1, <2>3 DEF Inv, TypeOK, Unsubscribe, ProcState, At
    <2> QED BY <2>2, <2>3
  <1>2. EmptyHanded' /\ InLastCall' /\ UndoIsOffTheMap'
    BY DEF Inv, TypeOK, EmptyHanded, InLastCall, UndoIsOffTheMap, Subscribe,
           Unsubscribe, At, ProcState
  <1>3. LeavesTopicInUse' /\ EmptyTopicIsSeen'
    <2>1. LeavesTopicInUse'
      <3>1. CASE Subscribe(s)
        BY <3>1 DEF Inv, TypeOK, LeavesTopicInUse, Subscribe, ProcState
      <3>2. CASE Unsubscribe(s)
        BY <3>2 DEF Inv, TypeOK, LeavesTopicInUse, Unsubscribe, At, ProcState
      <3> QED BY <3>1, <3>2
    <2>2. \A r \in Subscriber : r # s => proc'[r] = proc[r]
      BY DEF Inv, TypeOK, Subscribe, Unsubscribe
    <2>3. topics' = topics /\ subs' = subs /\ proc[s].pc = "idle"
      BY DEF Subscribe, Unsubscribe
    <2>4. EmptyTopicIsSeen'
      BY <2>2, <2>3 DEF Inv, EmptyTopicIsSeen
    <2> QED BY <2>1, <2>4
  <1>4. SnapshotWithoutTheGone' /\ NoDeliveryToTheGone'
    <2>1. CASE Subscribe(s)
      BY <2>1 DEF Inv, TypeOK, SnapshotWithoutTheGone, NoDeliveryToTheGone,
                  Subscribe, PubState
    <2>2. CASE Unsubscribe(s)
      BY <2>2 DEF Inv, TypeOK, SnapshotWithoutTheGone, NoDeliveryToTheGone,
                  Unsubscribe, PubState
    <2> QED BY <2>1, <2>2
  <1> QED BY <1>1, <1>2, <1>3, <1>4 DEF Inv

\* The topic in use, or a fresh one that nobody refers to.
LEMMA GetTopicInv ==
    ASSUME Inv, NEW s \in Subscriber, GetTopic(s)
    PROVE  Inv'
  <1> DEFINE t == IF topics = NoInstance THEN Fresh ELSE topics
  <1>1. /\ t \in Instance
        /\ topics = NoInstance => \A r \in Subscriber : proc[r].t # t
    BY FreshInstance DEF Inv, TypeOK, GetTopic, Reachable
  <1>2. /\ proc[s].pc = "get"
        /\ topics' = t
        /\ subs' = IF topics = NoInstance THEN [subs EXCEPT ![t] = {}] ELSE subs
        /\ proc' = [proc EXCEPT ![s] = At("add", t)]
        /\ UNCHANGED <<pub, last>>
        /\ topics # NoInstance => t = topics
    BY DEF GetTopic
  <1> HIDE DEF t
  <1>3. TypeOK'
    BY <1>1, <1>2 DEF Inv, TypeOK, ProcState, At
  <1>4. EmptyHanded' /\ InLastCall' /\ UndoIsOffTheMap'
    BY <1>1, <1>2 DEF Inv, TypeOK, EmptyHanded, InLastCall, UndoIsOffTheMap, At,
       ProcState
  <1>5. LeavesTopicInUse'
    BY <1>1, <1>2 DEF Inv, TypeOK, LeavesTopicInUse, InLastCall, At, ProcState
  <1>6. EmptyTopicIsSeen'
    BY <1>1, <1>2 DEF Inv, TypeOK, EmptyTopicIsSeen, At, ProcState
  <1>7. SnapshotWithoutTheGone' /\ NoDeliveryToTheGone'
    BY <1>1, <1>2 DEF Inv, TypeOK, SnapshotWithoutTheGone, NoDeliveryToTheGone,
       PubState
  <1> QED BY <1>3, <1>4, <1>5, <1>6, <1>7 DEF Inv

\* Add and the two removals write one instance, in their own name only.
LEMMA WriteInv ==
    ASSUME Inv, NEW s \in Subscriber, Add(s) \/ Undo(s) \/ Remove(s)
    PROVE  Inv'
  <1>1. proc[s].t \in Instance /\ topics' = topics /\ pub' = pub /\ last' = last
    BY DEF Inv, TypeOK, Add, Undo, Remove
  <1>2. TypeOK'
    <2>1. CASE Add(s)
      BY <1>1, <2>1 DEF Inv, TypeOK, Add, ProcState
    <2>2. CASE Undo(s)
      BY <1>1, <2>2 DEF Inv, TypeOK, Undo, ProcState, At
    <2>3. CASE Remove(s)
      BY <1>1, <2>3 DEF Inv, TypeOK, Remove, ProcState
    <2> QED BY <2>1, <2>2, <2>3
  <1>3. EmptyHanded' /\ InLastCall' /\ UndoIsOffTheMap'
    <2>1. CASE Add(s)
      BY <1>1, <2>1 DEF Inv, TypeOK, EmptyHanded, InLastCall, UndoIsOffTheMap,
         Add, ProcState
    <2>2. CASE Undo(s)
      BY <1>1, <2>2 DEF Inv, TypeOK, EmptyHanded, InLastCall, UndoIsOffTheMap,
         Undo, At, ProcState
    <2>3. CASE Remove(s)
      BY <1>1, <2>3 DEF Inv, TypeOK, EmptyHanded, InLastCall, UndoIsOffTheMap,
         Remove, ProcState
    <2> QED BY <2>1, <2>2, <2>3
  <1>4. CASE Add(s)
    <2>1. LeavesTopicInUse'
      BY <1>1, <1>4 DEF Inv, TypeOK, LeavesTopicInUse, InLastCall, Add, ProcState
    <2>2. EmptyTopicIsSeen'
      <3>1. \A r \in Subscriber : r # s => proc'[r] = proc[r]
        BY <1>4 DEF Inv, TypeOK, Add
      <3>2. s \in subs'[proc[s].t]
        BY <1>1, <1>4 DEF Inv, TypeOK, Add
      <3>3. \A i \in Instance : i # proc[s].t => subs'[i] = subs[i]
        BY <1>1, <1>4 DEF Inv, TypeOK, Add
      <3> QED BY <1>1, <3>1, <3>2, <3>3 DEF Inv, TypeOK, EmptyTopicIsSeen
    <2>3. SnapshotWithoutTheGone' /\ NoDeliveryToTheGone'
      <3>1. last[s] = "Subscribe"
        BY <1>4 DEF Add, Inv, InLastCall
      <3> QED BY <1>1, <1>4, <3>1 DEF Inv, TypeOK, SnapshotWithoutTheGone,
                 NoDeliveryToTheGone, Add, PubState
    <2> QED BY <1>2, <1>3, <2>1, <2>2, <2>3 DEF Inv
  <1>5. CASE Undo(s) \/ Remove(s)
    <2>1. subs' = [subs EXCEPT ![proc[s].t] = @ \ {s}]
      BY <1>5 DEF Undo, Remove
    <2>2. LeavesTopicInUse'
      BY <1>1, <1>5, <2>1 DEF Inv, TypeOK, LeavesTopicInUse, InLastCall, Undo,
         Remove, At, ProcState
    <2>3. EmptyTopicIsSeen'
      BY <1>1, <1>5, <2>1 DEF Inv, TypeOK, EmptyTopicIsSeen, UndoIsOffTheMap,
         Undo, Remove, At, ProcState
    <2>4. SnapshotWithoutTheGone' /\ NoDeliveryToTheGone'
      BY <1>1, <2>1 DEF Inv, TypeOK, SnapshotWithoutTheGone,
         NoDeliveryToTheGone, PubState
    <2> QED BY <1>2, <1>3, <2>2, <2>3, <2>4 DEF Inv
  <1> QED BY <1>4, <1>5

\* The steps that look at the map or at an instance.
LEMMA LookInv ==
    ASSUME Inv, NEW s \in Subscriber, Check(s) \/ Load(s) \/ IsEmpty(s)
    PROVE  Inv'
  <1>1. topics' = topics /\ subs' = subs /\ pub' = pub /\ last' = last
    BY DEF Check, Load, IsEmpty
  <1>2. TypeOK'
    BY <1>1 DEF Inv, TypeOK, Check, Load, IsEmpty, ProcState, At, Idle
  <1>3. EmptyHanded' /\ InLastCall' /\ UndoIsOffTheMap'
    BY <1>1 DEF Inv, TypeOK, EmptyHanded, InLastCall, UndoIsOffTheMap, Check,
       Load, IsEmpty, At, Idle, ProcState
  <1>4. LeavesTopicInUse'
    BY <1>1 DEF Inv, TypeOK, LeavesTopicInUse, InLastCall, Check, Load, IsEmpty,
       At, Idle, ProcState
  <1>5. EmptyTopicIsSeen'
    BY <1>1 DEF Inv, TypeOK, EmptyTopicIsSeen, Check, Load, IsEmpty, At, Idle,
       ProcState
  <1>6. SnapshotWithoutTheGone' /\ NoDeliveryToTheGone'
    BY <1>1 DEF Inv, SnapshotWithoutTheGone, NoDeliveryToTheGone
  <1> QED BY <1>2, <1>3, <1>4, <1>5, <1>6 DEF Inv

\* CompareAndDelete.
LEMMA DeleteInv ==
    ASSUME Inv, NEW s \in Subscriber, Delete(s)
    PROVE  Inv'
  <1>1. TypeOK'
    BY DEF Inv, TypeOK, Delete, ProcState, Idle
  <1>2. EmptyHanded' /\ InLastCall'
    BY DEF Inv, TypeOK, EmptyHanded, InLastCall, Delete, Idle, ProcState
  <1>3. UndoIsOffTheMap'
    BY NoInstanceAssumption DEF Inv, TypeOK, UndoIsOffTheMap, Delete, Idle, ProcState
  <1>4. LeavesTopicInUse' /\ EmptyTopicIsSeen'
    BY DEF Inv, TypeOK, LeavesTopicInUse, EmptyTopicIsSeen, Delete, Idle, ProcState
  <1>5. SnapshotWithoutTheGone' /\ NoDeliveryToTheGone'
    BY DEF Inv, SnapshotWithoutTheGone, NoDeliveryToTheGone, Delete
  <1> QED BY <1>1, <1>2, <1>3, <1>4, <1>5 DEF Inv

\* A publisher reads the map, then the instance, and serves its snapshot.
LEMMA PublishInv ==
    ASSUME Inv, NEW q \in Publisher, Publish(q) \/ PublishStep(q)
    PROVE  Inv'
  <1>1. UNCHANGED <<topics, subs, proc, last>>
    BY DEF Publish, PublishStep, Snapshot, Deliver, Return
  <1>2. EmptyHanded' /\ InLastCall' /\ UndoIsOffTheMap'
    BY <1>1 DEF Inv, EmptyHanded, InLastCall, UndoIsOffTheMap
  <1>3. LeavesTopicInUse' /\ EmptyTopicIsSeen'
    BY <1>1 DEF Inv, LeavesTopicInUse, EmptyTopicIsSeen
  <1>4. TypeOK' /\ SnapshotWithoutTheGone' /\ NoDeliveryToTheGone'
    <2>1. CASE Publish(q)
      <3>1. subs[topics] \cap {s \in Subscriber : Gone(s)} = {}
        BY <2>1 DEF Inv, TypeOK, LeavesTopicInUse, Gone, Publish
      <3>2. TypeOK'
        BY <1>1, <2>1 DEF Inv, TypeOK, Publish, PubState, Gone
      <3> QED BY <1>1, <2>1, <3>1, <3>2 DEF Inv, TypeOK, SnapshotWithoutTheGone,
                 NoDeliveryToTheGone, Publish, Gone, PubState
    <2>2. CASE Snapshot(q)
      <3>1. TypeOK'
        <4>1. subs[pub[q].t] \subseteq Subscriber
          BY <2>2 DEF Inv, TypeOK, Snapshot, SnapshotWithoutTheGone
        <4>2. pub' \in [Publisher -> PubState]
          <5> DEFINE v == [pub[q] EXCEPT !.pc = "deliver", !.t = NoInstance,
                                         !.pending = subs[pub[q].t]]
          <5>1. v \in PubState
            BY <4>1 DEF Inv, TypeOK, PubState
          <5>2. pub' = [pub EXCEPT ![q] = v]
            BY <2>2 DEF Inv, TypeOK, Snapshot, PubState
          <5> HIDE DEF v
          <5> QED BY <5>1, <5>2 DEF Inv, TypeOK
        <4> QED BY <1>1, <4>2 DEF Inv, TypeOK
      <3> QED BY <1>1, <2>2, <3>1 DEF Inv, TypeOK, SnapshotWithoutTheGone,
                 NoDeliveryToTheGone, Snapshot, PubState
    <2>3. ASSUME NEW s \in Subscriber, Deliver(q, s)
          PROVE  TypeOK' /\ SnapshotWithoutTheGone' /\ NoDeliveryToTheGone'
      <3>1. TypeOK'
        BY <1>1, <2>3 DEF Inv, TypeOK, Deliver, PubState
      <3> QED BY <1>1, <2>3, <3>1 DEF Inv, TypeOK, SnapshotWithoutTheGone,
                 NoDeliveryToTheGone, Deliver, PubState
    <2>4. CASE Return(q)
      <3>1. TypeOK'
        BY <1>1, <2>4 DEF Inv, TypeOK, Return, PubState, PubIdle
      <3> QED BY <1>1, <2>4, <3>1 DEF Inv, TypeOK, SnapshotWithoutTheGone,
                 NoDeliveryToTheGone, Return, PubState, PubIdle
    <2> QED BY <2>1, <2>2, <2>3, <2>4 DEF PublishStep
  <1> QED BY <1>2, <1>3, <1>4 DEF Inv

\* Every step keeps the invariant.
LEMMA NextInv ==
    ASSUME Inv, [Next]_vars
    PROVE  Inv'
  <1>1. CASE Next
    BY <1>1, BeginInv, GetTopicInv, WriteInv, LookInv, DeleteInv, PublishInv
       DEF Next, CallStep
  <1>2. CASE UNCHANGED vars
    BY <1>2 DEF vars, Inv, TypeOK, EmptyHanded, InLastCall, UndoIsOffTheMap,
       LeavesTopicInUse, EmptyTopicIsSeen, SnapshotWithoutTheGone,
       NoDeliveryToTheGone
  <1> QED BY <1>1, <1>2

\* The invariant holds in every reachable state.
THEOREM BusInvariance == Spec => []Inv
  BY InitInv, NextInv, PTL DEF Spec

-----------------------------------------------------------------------------
(* The theorems.                                                           *)

\* Type correctness: no goroutine uses a *Topic it did not get (eventbus.go:21-53).
THEOREM BusTypeCorrect == Spec => []TypeOK
  <1>1. Inv => TypeOK
    BY DEF Inv
  <1> QED BY <1>1, BusInvariance, PTL

(***************************************************************************)
(* Unsubscribe is final, for any number of subscribers and publishers: an  *)
(* event published after it returned does not reach the subscriber before  *)
(* it subscribes again (eventbus.go:42-53, topic.go:43-63).                *)
(***************************************************************************)
THEOREM UnsubscribeIsFinal == Spec => []NoDeliveryToTheGone
  <1>1. Inv => NoDeliveryToTheGone
    BY DEF Inv
  <1> QED BY <1>1, BusInvariance, PTL

(***************************************************************************)
(* The bus does not leak topics: with no call in flight the map holds no   *)
(* topic without subscribers (eventbus.go:40-53).                          *)
(***************************************************************************)
THEOREM NoTopicLeaks == Spec => []NoEmptyTopicStays
  <1>1. Inv => NoEmptyTopicStays
    BY DEF Inv, EmptyTopicIsSeen, NoEmptyTopicStays
  <1> QED BY <1>1, BusInvariance, PTL

\* A step that takes a quiet subscriber out of the topic in use is the
\* deletion of the topic by another goroutine.
LEMMA LossIsDeletion ==
    ASSUME Inv, [Next]_vars, NEW s \in Subscriber,
           last[s] = "Subscribe", proc[s].pc = "idle", InPlace(s), ~InPlace(s)'
    PROVE  \E r \in Subscriber \ {s} : proc[r].pc = "delete" /\ proc'[r].pc = "idle"
  <1>1. CASE UNCHANGED vars
    BY <1>1 DEF vars, InPlace
  <1>2. ASSUME NEW r \in Subscriber, Subscribe(r) \/ Unsubscribe(r) \/ CallStep(r)
        PROVE  r # s /\ proc[r].pc = "delete" /\ proc'[r].pc = "idle"
    <2>1. CASE Delete(r)
      BY <2>1 DEF Delete, Idle, Inv, TypeOK
    <2>2. CASE Subscribe(r) \/ Unsubscribe(r) \/ Check(r) \/ Load(r) \/ IsEmpty(r)
      BY <2>2 DEF Subscribe, Unsubscribe, Check, Load, IsEmpty, InPlace
    <2>3. CASE GetTopic(r)
      BY <2>3 DEF GetTopic, InPlace
    <2>4. CASE Add(r) \/ Undo(r) \/ Remove(r)
      BY <2>4 DEF Add, Undo, Remove, InPlace, Inv, TypeOK
    <2> QED BY <1>2, <2>1, <2>2, <2>3, <2>4 DEF CallStep
  <1>3. ASSUME NEW q \in Publisher, Publish(q) \/ PublishStep(q)
        PROVE  FALSE
    BY <1>3 DEF Publish, PublishStep, Snapshot, Deliver, Return, InPlace
  <1> QED BY <1>1, <1>2, <1>3 DEF Next

(***************************************************************************)
(* A subscription in place is undone by nobody but a goroutine that saw    *)
(* the topic empty and deletes it (eventbus.go:26-53): the one loss the    *)
(* code allows is the race of isEmpty and CompareAndDelete.                *)
(***************************************************************************)
THEOREM OnlyDeletionLoses == Spec => OnlyDeleteLoses
  <1>1. Inv /\ [Next]_vars =>
          [\A s \in Subscriber :
             last[s] = "Subscribe" /\ proc[s].pc = "idle" /\ InPlace(s) /\ ~InPlace(s)'
             => \E r \in Subscriber \ {s} : proc[r].pc = "delete" /\ proc'[r].pc = "idle"
          ]_vars
    BY LossIsDeletion
  <1> QED BY <1>1, BusInvariance, PTL DEF Spec, OnlyDeleteLoses
=============================================================================
