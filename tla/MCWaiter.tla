------------------------------ MODULE MCWaiter ------------------------------
(* Two callers of one command, one of another and a frame for each. *)

EXTENDS Waiter

CONSTANTS c1, c2, c3, f1, f2, f3, ping, version

MCCalls == {c1, c2, c3}
MCFrames == {f1, f2, f3}
MCMatchers == {ping, version}
MCMatcherOf ==
  [x \in MCCalls \cup MCFrames |-> IF x \in {c3, f3} THEN version ELSE ping]

=============================================================================
