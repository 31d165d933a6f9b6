------------------------------ MODULE EventBus ------------------------------
(***************************************************************************)
(* The publish-subscribe bus of pkg/event/bus.go.  Subscribe, the removal  *)
(* of a subscription and the gathering of the receivers of an event are    *)
(* critical sections under the mutex, hence one step each; closing a       *)
(* channel, sending to it and receiving from it happen outside.            *)
(* Every subscription has the type "", so the table is one slice.          *)
(***************************************************************************)
EXTENDS EventDelivery, Naturals, FiniteSets

CONSTANTS
  SyncEvents,   \* the calls of PublishSync among them
  Wants,        \* the events the filter of a subscription lets through
  Cap           \* the capacity of a subscriber's channel

ASSUME BusAssumption ==
  /\ SyncEvents \subseteq Events
  /\ Wants \in [Subs -> SUBSET Events]
  /\ Cap \in Nat \ {0}

VARIABLES
  table,      \* the subscriptions, in the order of the slice
  id,         \* the identifier of each: a reading of the clock
  clock,      \* the last reading
  sub,        \* how far the life of each subscription is
  closed,     \* the subscriptions whose channel is closed
  todo,       \* the receivers it has gathered and not served yet
  bus,        \* how far the call of Close is
  panicked    \* the program died: send on a closed channel

vars == <<table, id, clock, sub, chan, closed, publish, todo, bus, panicked, got,
          dropped, entitled>>

TypeOK ==
  /\ table \in Seq(Subs)
  /\ id \in [Subs -> Nat] /\ clock \in Nat
  /\ sub \in [Subs -> {"none", "active", "closing", "removed"}]
  /\ chan \in [Subs -> Seq(Events)] /\ \A s \in Subs : Len(chan[s]) <= Cap
  /\ closed \subseteq Subs
  /\ publish \in [Events -> {"idle", "sending", "done", "canceled"}]
  /\ todo \in [Events -> SUBSET Subs]
  /\ bus \in {"open", "closing", "closed"}
  /\ panicked \in BOOLEAN
  /\ got \in [Subs -> Seq(Events)]
  /\ dropped \subseteq Events \X Subs
  /\ entitled \in [Events -> SUBSET Subs]

Init ==
  /\ table = <<>>
  /\ id = [s \in Subs |-> 0] /\ clock = 0
  /\ sub = [s \in Subs |-> "none"]
  /\ chan = [s \in Subs |-> <<>>]
  /\ closed = {}
  /\ publish = [e \in Events |-> "idle"]
  /\ todo = [e \in Events |-> {}]
  /\ bus = "open" /\ panicked = FALSE
  /\ got = [s \in Subs |-> <<>>]
  /\ dropped = {}
  /\ entitled = [e \in Events |-> {}]

-----------------------------------------------------------------------------
(***************************************************************************)
(* Subscriptions                                                           *)
(***************************************************************************)
SubAt(s, from, to) == sub[s] = from /\ sub' = [sub EXCEPT ![s] = to]

\* The identifier is time.Now().UnixNano() taken under the mutex; the readings of
\* two calls are assumed to differ.
Subscribe(s) ==
  /\ SubAt(s, "none", "active")
  /\ clock' = clock + 1
  /\ id' = [id EXCEPT ![s] = clock']
  /\ table' = Append(table, s)
  /\ UNCHANGED <<chan, closed, publish, todo, bus, panicked, got, dropped, entitled>>

\* The first half of unsubscribe: close(ch), before the mutex is taken.
CloseChannel(s) ==
  /\ SubAt(s, "active", "closing")
  /\ closed' = closed \cup {s}
  /\ UNCHANGED <<table, id, clock, chan, publish, todo, bus, panicked, got,
                 dropped, entitled>>

SameID(s) == {i \in DOMAIN table : id[table[i]] = id[s]}

\* The table without the first entry that has the identifier of s.
Without(s) ==
  IF SameID(s) = {} THEN table
  ELSE RemoveAt(table, CHOOSE j \in SameID(s) : \A k \in SameID(s) : j <= k)

\* Mutant: the wait group is not told.
RemoveSub_NotDone(s) ==
  /\ sub[s] = "closing"
  /\ table' = Without(s)
  /\ UNCHANGED <<id, clock, sub, chan, closed, publish, todo, bus, panicked, got,
                 dropped, entitled>>

\* The second half: leave the table and the wait group.
RemoveSub(s) ==
  /\ SubAt(s, "closing", "removed")
  /\ table' = Without(s)
  /\ UNCHANGED <<id, clock, chan, closed, publish, todo, bus, panicked, got,
                 dropped, entitled>>

\* The owner of the subscription receives; a closed channel can be drained.
Receive(s) ==
  /\ chan[s] # <<>>
  /\ got' = [got EXCEPT ![s] = Append(@, Head(chan[s]))]
  /\ chan' = [chan EXCEPT ![s] = Tail(@)]
  /\ UNCHANGED <<table, id, clock, sub, closed, publish, todo, bus, panicked,
                 dropped, entitled>>

-----------------------------------------------------------------------------
(***************************************************************************)
(* Publish and PublishSync                                                 *)
(***************************************************************************)
PublishAt(e, from, to) == publish[e] = from /\ publish' = [publish EXCEPT ![e] = to]

\* The context of the call is done when it begins.
Refuse(e) ==
  /\ PublishAt(e, "idle", "canceled")
  /\ UNCHANGED <<table, id, clock, sub, chan, closed, todo, bus, panicked, got,
                 dropped, entitled>>

Receivers(e) == {s \in ToSet(table) : e \in Wants[s]}

\* Collect the channels under the read lock.
Gather(e) ==
  /\ PublishAt(e, "idle", "sending")
  /\ todo' = [todo EXCEPT ![e] = Receivers(e)]
  /\ entitled' = [entitled EXCEPT ![e] = {s \in Subs : sub[s] = "active" /\ e \in Wants[s]}]
  /\ UNCHANGED <<table, id, clock, sub, chan, closed, bus, panicked, got, dropped>>

\* The receiver whose turn it is. They are served in the order of the slice,
\* which is the order in which they subscribed.
Turn(e, s) ==
  /\ publish[e] = "sending" /\ s \in todo[e]
  /\ \A r \in todo[e] : id[s] <= id[r]
Advance(e, s) == todo' = [todo EXCEPT ![e] = @ \ {s}]

Send(e, s) ==
  /\ Turn(e, s)
  /\ s \notin closed /\ Len(chan[s]) < Cap
  /\ chan' = [chan EXCEPT ![s] = Append(@, e)]
  /\ Advance(e, s)
  /\ UNCHANGED <<table, id, clock, sub, closed, publish, bus, panicked, got,
                 dropped, entitled>>

\* A send to a closed channel panics, with or without a default case.
Panic(e, s) ==
  /\ Turn(e, s)
  /\ s \in closed
  /\ panicked' = TRUE
  /\ UNCHANGED <<table, id, clock, sub, chan, closed, publish, todo, bus, got,
                 dropped, entitled>>

\* Mutant: one full channel ends the whole Publish.
Drop_Rest(e, s) ==
  /\ Turn(e, s)
  /\ s \notin closed /\ Len(chan[s]) = Cap
  /\ dropped' = dropped \cup {<<e, s>>}
  /\ todo' = [todo EXCEPT ![e] = {}]
  /\ UNCHANGED <<table, id, clock, sub, chan, closed, publish, bus, panicked, got,
                 entitled>>

\* Mutant: PublishSync has no time limit.
Drop_NeverSync(e, s) ==
  /\ e \notin SyncEvents
  /\ Turn(e, s)
  /\ s \notin closed /\ Len(chan[s]) = Cap
  /\ dropped' = dropped \cup {<<e, s>>}
  /\ Advance(e, s)
  /\ UNCHANGED <<table, id, clock, sub, chan, closed, publish, bus, panicked, got,
                 entitled>>

\* The channel is full: Publish goes on at once, PublishSync after five seconds.
Drop(e, s) ==
  /\ Turn(e, s)
  /\ s \notin closed /\ Len(chan[s]) = Cap
  /\ dropped' = dropped \cup {<<e, s>>}
  /\ Advance(e, s)
  /\ UNCHANGED <<table, id, clock, sub, chan, closed, publish, bus, panicked, got,
                 entitled>>

\* The context of a PublishSync is done while it serves a receiver; a select
\* with two ready cases takes either.
GiveUp(e, s) ==
  /\ e \in SyncEvents
  /\ Turn(e, s)
  /\ PublishAt(e, "sending", "canceled")
  /\ UNCHANGED <<table, id, clock, sub, chan, closed, todo, bus, panicked, got,
                 dropped, entitled>>

Finish(e) ==
  /\ todo[e] = {}
  /\ PublishAt(e, "sending", "done")
  /\ UNCHANGED <<table, id, clock, sub, chan, closed, todo, bus, panicked, got,
                 dropped, entitled>>

-----------------------------------------------------------------------------
(***************************************************************************)
(* Close cancels a context nobody looks at and waits until everyone has    *)
(* unsubscribed.                                                           *)
(***************************************************************************)
BusAt(from, to) ==
  /\ bus = from /\ bus' = to
  /\ UNCHANGED <<table, id, clock, sub, chan, closed, publish, todo, panicked, got,
                 dropped, entitled>>

CloseBus == BusAt("open", "closing")

Subscribed == {s \in Subs : sub[s] \in {"active", "closing"}}
CloseWait == Subscribed = {} /\ BusAt("closing", "closed")

-----------------------------------------------------------------------------
PublishStep(e) ==
  \/ Gather(e) \/ Finish(e)
  \/ \E s \in Subs : Send(e, s) \/ Panic(e, s) \/ Drop(e, s)

Next ==
  /\ ~panicked
  /\ \/ \E s \in Subs : Subscribe(s) \/ CloseChannel(s) \/ RemoveSub(s) \/ Receive(s)
     \/ \E e \in Events : Refuse(e) \/ PublishStep(e) \/ \E s \in Subs : GiveUp(e, s)
     \/ CloseBus \/ CloseWait

Spec == Init /\ [][Next]_vars

(***************************************************************************)
(* A call that began goes on, and the timer of PublishSync fires.  Nobody  *)
(* has to cancel a context or to receive, nor to unsubscribe: the loop of  *)
(* bus.go:118 ends when the channel is closed.                             *)
(***************************************************************************)
Fairness ==
  /\ \A e \in Events : WF_vars(~panicked /\ publish[e] # "idle" /\ PublishStep(e))
  /\ \A s \in Subs : WF_vars(~panicked /\ RemoveSub(s))
  /\ WF_vars(~panicked /\ CloseWait)

FairSpec == Spec /\ Fairness

-----------------------------------------------------------------------------
(***************************************************************************)
(* Properties                                                              *)
(***************************************************************************)
\* Publish does not block and PublishSync does not block for ever, whatever the
\* subscribers do with their channels.
PublishReturns ==
  \A e \in Events : publish[e] = "sending" ~> publish[e] \in {"done", "canceled"} \/ panicked

\* Close returns when everybody has unsubscribed.
CloseReturns ==
  <>[](\A s \in Subs : sub[s] # "active") =>
    (bus = "closing" ~> bus = "closed" \/ panicked)

=============================================================================
