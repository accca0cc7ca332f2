------------------------------ MODULE EventBus ------------------------------
(***************************************************************************)
(* One topic name of the event bus (src/eventbus/eventbus.go, topic.go).   *)
(* Names are independent entries of a sync.Map, so one name is the whole   *)
(* of the protocol.                                                        *)
(*                                                                         *)
(* The map holds the current *Topic instance of the name or nothing; every *)
(* instance has its own subscribers behind its own lock.  A step is one    *)
(* atomic operation of the map (LoadOrStore, Load, CompareAndDelete) or    *)
(* one critical section of an instance.  Each subscriber is driven by one  *)
(* goroutine, which subscribes and unsubscribes it in turn; publishers are *)
(* goroutines of their own.                                                *)
(***************************************************************************)
EXTENDS Naturals, FiniteSets

CONSTANTS
    Subscriber,  \* subscribers, each with the goroutine that drives it
    Publisher,   \* goroutines that publish to the name
    Instance,    \* names for *Topic instances, reused once unreachable
    NoInstance   \* no instance: the map has no entry, a variable is unset

ASSUME NoInstanceAssumption == NoInstance \notin Instance

(***************************************************************************)
(* A goroutine refers to one instance at most, and one that needs a fresh  *)
(* instance refers to none while the map is empty: a name is always left.  *)
(***************************************************************************)
ASSUME InstanceAssumption ==
    /\ IsFiniteSet(Subscriber) /\ IsFiniteSet(Publisher) /\ IsFiniteSet(Instance)
    /\ Cardinality(Instance) >= Cardinality(Subscriber) + Cardinality(Publisher)

VARIABLES
    topics,  \* the instance the map holds for the name, or NoInstance
    subs,    \* subs[i]: i.subscribers
    proc,    \* proc[s]: where the goroutine of s is, and its local t
    pub,     \* pub[q]: the same for a publisher, with the rest of its snapshot
    last     \* history: the call the goroutine of s made last

vars == <<topics, subs, proc, pub, last>>

ProcState ==
    [ pc : {"idle", "get", "add", "check", "undo",
            "load", "remove", "isEmpty", "delete"},
      t  : Instance \cup {NoInstance} ]

(***************************************************************************)
(* pending: the subscribers of the snapshot not yet served.  barred is     *)
(* history: who had unsubscribed before this Publish began and has not     *)
(* subscribed since.                                                       *)
(***************************************************************************)
PubState ==
    [ pc      : {"idle", "send", "deliver"},
      t       : Instance \cup {NoInstance},
      pending : SUBSET Subscriber,
      barred  : SUBSET Subscriber ]

Idle == [pc |-> "idle", t |-> NoInstance]
PubIdle == [pc |-> "idle", t |-> NoInstance, pending |-> {}, barred |-> {}]

At(pc, t) == [pc |-> pc, t |-> t]

Init ==
    /\ topics = NoInstance
    /\ subs = [i \in Instance |-> {}]
    /\ proc = [s \in Subscriber |-> Idle]
    /\ pub = [q \in Publisher |-> PubIdle]
    /\ last = [s \in Subscriber |-> "Unsubscribe"]

\* An instance nothing refers to stands for one newTopic allocates.
Reachable(i) ==
    \/ topics = i
    \/ \E s \in Subscriber : proc[s].t = i
    \/ \E q \in Publisher : pub[q].t = i

Fresh == CHOOSE i \in Instance : ~Reachable(i)

-----------------------------------------------------------------------------
(* Subscribe.                                                              *)

Subscribe(s) ==
    /\ proc[s].pc = "idle"
    /\ proc' = [proc EXCEPT ![s] = At("get", NoInstance)]
    /\ last' = [last EXCEPT ![s] = "Subscribe"]
    /\ pub' = [q \in Publisher |-> [pub[q] EXCEPT !.barred = @ \ {s}]]
    /\ UNCHANGED <<topics, subs>>

\* Mutant of GetTopic: Store instead of LoadOrStore.
GetTopicStore(s) ==
    /\ proc[s].pc = "get"
    /\ topics' = Fresh
    /\ subs' = [subs EXCEPT ![Fresh] = {}]
    /\ proc' = [proc EXCEPT ![s] = At("add", Fresh)]
    /\ UNCHANGED <<pub, last>>

\* getTopic: LoadOrStore(name, newTopic())
GetTopic(s) ==
    LET t == IF topics = NoInstance THEN Fresh ELSE topics IN
    /\ proc[s].pc = "get"
    /\ topics' = t
    /\ subs' = IF topics = NoInstance THEN [subs EXCEPT ![t] = {}] ELSE subs
    /\ proc' = [proc EXCEPT ![s] = At("add", t)]
    /\ UNCHANGED <<pub, last>>

Add(s) ==
    /\ proc[s].pc = "add"
    /\ subs' = [subs EXCEPT ![proc[s].t] = @ \cup {s}]
    /\ proc' = [proc EXCEPT ![s].pc = "check"]
    /\ UNCHANGED <<topics, pub, last>>

\* Mutant of Check: the comparison of the instances is inverted.
CheckInverted(s) ==
    /\ proc[s].pc = "check"
    /\ proc' = [proc EXCEPT ![s] = IF topics # proc[s].t THEN Idle
                                   ELSE At("undo", proc[s].t)]
    /\ UNCHANGED <<topics, subs, pub, last>>

\* if v, ok := topics.Load(name); ok && v == t { return }
Check(s) ==
    /\ proc[s].pc = "check"
    /\ proc' = [proc EXCEPT ![s] = IF topics = proc[s].t THEN Idle
                                   ELSE At("undo", proc[s].t)]
    /\ UNCHANGED <<topics, subs, pub, last>>

\* t.remove(sub), and around the loop again.
Undo(s) ==
    /\ proc[s].pc = "undo"
    /\ subs' = [subs EXCEPT ![proc[s].t] = @ \ {s}]
    /\ proc' = [proc EXCEPT ![s] = At("get", NoInstance)]
    /\ UNCHANGED <<topics, pub, last>>

-----------------------------------------------------------------------------
(* Unsubscribe.                                                            *)

Unsubscribe(s) ==
    /\ proc[s].pc = "idle"
    /\ proc' = [proc EXCEPT ![s] = At("load", NoInstance)]
    /\ last' = [last EXCEPT ![s] = "Unsubscribe"]
    /\ UNCHANGED <<topics, subs, pub>>

\* Mutant of Load: the ok of the map lookup is ignored.
LoadUnchecked(s) ==
    /\ proc[s].pc = "load"
    /\ proc' = [proc EXCEPT ![s] = At("remove", topics)]
    /\ UNCHANGED <<topics, subs, pub, last>>

\* v, ok := topics.Load(name); if !ok { return }
Load(s) ==
    /\ proc[s].pc = "load"
    /\ proc' = [proc EXCEPT ![s] = IF topics = NoInstance THEN Idle
                                   ELSE At("remove", topics)]
    /\ UNCHANGED <<topics, subs, pub, last>>

\* Mutant of Remove: the delete misses the subscriber's key.
RemoveMissesKey(s) ==
    /\ proc[s].pc = "remove"
    /\ proc' = [proc EXCEPT ![s].pc = "isEmpty"]
    /\ UNCHANGED <<topics, subs, pub, last>>

\* t.remove(sub)
Remove(s) ==
    /\ proc[s].pc = "remove"
    /\ subs' = [subs EXCEPT ![proc[s].t] = @ \ {s}]
    /\ proc' = [proc EXCEPT ![s].pc = "isEmpty"]
    /\ UNCHANGED <<topics, pub, last>>

\* Mutant of IsEmpty: the last subscriber to leave still counts.
IsEmptyOffByOne(s) ==
    /\ proc[s].pc = "isEmpty"
    /\ proc' = [proc EXCEPT ![s] = IF subs[proc[s].t] \cup {s} = {}
                                     THEN At("delete", proc[s].t) ELSE Idle]
    /\ UNCHANGED <<topics, subs, pub, last>>

\* t.isEmpty()
IsEmpty(s) ==
    /\ proc[s].pc = "isEmpty"
    /\ proc' = [proc EXCEPT ![s] = IF subs[proc[s].t] = {}
                                     THEN At("delete", proc[s].t) ELSE Idle]
    /\ UNCHANGED <<topics, subs, pub, last>>

\* topics.CompareAndDelete(name, t)
Delete(s) ==
    /\ proc[s].pc = "delete"
    /\ topics' = IF topics = proc[s].t THEN NoInstance ELSE topics
    /\ proc' = [proc EXCEPT ![s] = Idle]
    /\ UNCHANGED <<subs, pub, last>>

-----------------------------------------------------------------------------
(* Publish.                                                                *)

Gone(s) == proc[s].pc = "idle" /\ last[s] = "Unsubscribe"

\* topics.Load(name)
Publish(q) ==
    /\ pub[q].pc = "idle"
    /\ topics # NoInstance
    /\ pub' = [pub EXCEPT ![q] = [pc |-> "send", t |-> topics, pending |-> {},
                                  barred |-> {s \in Subscriber : Gone(s)}]]
    /\ UNCHANGED <<topics, subs, proc, last>>

\* send: the snapshot, under the instance's lock
Snapshot(q) ==
    /\ pub[q].pc = "send"
    /\ pub' = [pub EXCEPT ![q].pc = "deliver", ![q].t = NoInstance,
                          ![q].pending = subs[pub[q].t]]
    /\ UNCHANGED <<topics, subs, proc, last>>

\* deliver: a panic of sub.Send is recovered, so the next one is served too.
Deliver(q, s) ==
    /\ pub[q].pc = "deliver"
    /\ s \in pub[q].pending
    /\ pub' = [pub EXCEPT ![q].pending = @ \ {s}]
    /\ UNCHANGED <<topics, subs, proc, last>>

Return(q) ==
    /\ pub[q].pc = "deliver"
    /\ pub[q].pending = {}
    /\ pub' = [pub EXCEPT ![q] = PubIdle]
    /\ UNCHANGED <<topics, subs, proc, last>>

-----------------------------------------------------------------------------
CallStep(s) ==
    \/ GetTopic(s) \/ Add(s) \/ Check(s) \/ Undo(s)
    \/ Load(s) \/ Remove(s) \/ IsEmpty(s) \/ Delete(s)

PublishStep(q) ==
    Snapshot(q) \/ (\E s \in Subscriber : Deliver(q, s)) \/ Return(q)

Next ==
    \/ \E s \in Subscriber : Subscribe(s) \/ Unsubscribe(s) \/ CallStep(s)
    \/ \E q \in Publisher : Publish(q) \/ PublishStep(q)

\* A goroutine inside a call keeps running; nobody has to make a call.
Fairness ==
    /\ \A s \in Subscriber : WF_vars(CallStep(s))
    /\ \A q \in Publisher : WF_vars(PublishStep(q))

Spec == Init /\ [][Next]_vars /\ Fairness

-----------------------------------------------------------------------------
(* Properties.                                                             *)

(***************************************************************************)
(* The types of the variables, and: a goroutine inside a topic operation   *)
(* has an instance in hand (no nil *Topic is used).                        *)
(***************************************************************************)
TypeOK ==
    /\ topics \in Instance \cup {NoInstance}
    /\ subs \in [Instance -> SUBSET Subscriber]
    /\ proc \in [Subscriber -> ProcState]
    /\ \A s \in Subscriber :
          proc[s].pc \notin {"idle", "get", "load"} => proc[s].t \in Instance
    /\ pub \in [Publisher -> PubState]
    /\ last \in [Subscriber -> {"Subscribe", "Unsubscribe"}]

(***************************************************************************)
(* Unsubscribe is final: once it returned, and until the next Subscribe,   *)
(* no event published after it reaches the subscriber, although topics are *)
(* deleted and created again in the meantime (eventbus.go:42-53).          *)
(***************************************************************************)
NoDeliveryToTheGone ==
    \A q \in Publisher : pub[q].pending \cap pub[q].barred = {}

(***************************************************************************)
(* The bus does not grow: with no call in flight, the map holds no topic   *)
(* without subscribers (eventbus.go:40-41).                                *)
(***************************************************************************)
NoEmptyTopicStays ==
    (topics # NoInstance /\ \A s \in Subscriber : proc[s].pc = "idle")
        => subs[topics] # {}

(***************************************************************************)
(* A subscription that is in place is never undone by another goroutine    *)
(* but by one that saw the topic empty and deletes it (eventbus.go:49-52): *)
(* retries, new topics and other removals leave it alone.                  *)
(***************************************************************************)
InPlace(s) == topics # NoInstance /\ s \in subs[topics]

OnlyDeleteLoses ==
    [][\A s \in Subscriber :
         last[s] = "Subscribe" /\ proc[s].pc = "idle" /\ InPlace(s) /\ ~InPlace(s)'
         => \E r \in Subscriber \ {s} : proc[r].pc = "delete" /\ proc'[r].pc = "idle"
      ]_vars

(***************************************************************************)
(* Lock-freedom: the retries of Subscribe cannot keep every caller busy    *)
(* for ever; again and again some call returns (eventbus.go:29-38).        *)
(***************************************************************************)
SomeCallReturns == []<>(\E s \in Subscriber : proc[s].pc = "idle")

(***************************************************************************)
(* "... so it is never lost" (eventbus.go:26-28): when Subscribe returned, *)
(* and until Unsubscribe is called, the subscriber is in the topic the map *)
(* holds.                                                                  *)
(***************************************************************************)
SubscriptionNeverLost ==
    \A s \in Subscriber :
        proc[s].pc = "idle" /\ last[s] = "Subscribe" => InPlace(s)
=============================================================================
