---------------------------- MODULE EventDelivery ----------------------------
(***************************************************************************)
(* What the event bus promises: the events and the subscriptions, what     *)
(* each subscription was given, and who was to be given what.  Module      *)
(* EventBus says how it comes about.                                       *)
(***************************************************************************)
EXTENDS Sequences, SequencesExt

CONSTANTS
  Subs,       \* calls of Subscribe or SubscribeTo; each runs once
  Events      \* calls of Publish or PublishSync, with their events

VARIABLES
  chan,       \* the channel of each subscription
  publish,    \* how far each call of Publish or PublishSync is
  got,        \* history: what the owner of each subscription received
  dropped,    \* history: the deliveries given up as the channel was full
  entitled    \* history: who wanted the event when it was published

Delivered(s) == got[s] \o chan[s]

\* A Publish or PublishSync that has come to its end reached everyone who was
\* subscribed when it gathered the receivers, or found the channel full: no
\* slow subscriber costs another one the event.
EveryoneServed ==
  \A e \in Events : publish[e] = "done" =>
    \A s \in entitled[e] : e \in ToSet(Delivered(s)) \/ <<e, s>> \in dropped
=============================================================================
