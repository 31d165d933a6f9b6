----------------------------- MODULE MCEventBus -----------------------------
(* Three subscribers and two events, one of them published synchronously;   *)
(* s1 takes both, the others filter.                                        *)
EXTENDS EventBus, TLC

CONSTANTS s1, s2, s3, e1, e2

MCWants3 == (s1 :> {e1, e2}) @@ (s2 :> {e1}) @@ (s3 :> {e2})

=============================================================================
