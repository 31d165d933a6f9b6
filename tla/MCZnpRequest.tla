---------------------------- MODULE MCZnpRequest ----------------------------
(* Requests r1 and r2 are for the same command, r3 is a reset; a1, a2, a3   *)
(* answer them, and late is the answer to a request of an earlier session.  *)
EXTENDS ZnpRequest, TLC

CONSTANTS r1, r2, r3, a1, a2, a3, late, ping, reset

MCMatchers == {ping, reset}
Kind(x) == IF x \in {r3, a3} THEN reset ELSE ping

\* Two callers of one command.
MCRequests == {r1, r2}
MCFrames == {a1, a2}
MCAnswerTo == (a1 :> r1) @@ (a2 :> r2)

\* The same while an answer is still on the line that nobody waits for.
LateFrames == {a1, a2, late}
LateMatcherOf == [x \in MCRequests \cup LateFrames |-> Kind(x)]
LateAnswerTo == MCAnswerTo @@ (late :> Unsolicited)

\* One caller of each operation.
MixRequests == {r1, r3}
MixFrames == {a1, a3}
MixMatcherOf == [x \in MixRequests \cup MixFrames |-> Kind(x)]
MixAnswerTo == (a1 :> r1) @@ (a3 :> r3)
MixResets == {r3}

=============================================================================
