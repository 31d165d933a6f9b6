--------------------------- MODULE MCZnpLifecycle ---------------------------
(* Two calls of Open and two of Close around a burst that is longer than    *)
(* the channels: a device event, an error of the parser, two more frames.   *)
EXTENDS ZnpLifecycle, TLC

CONSTANTS o1, o2, c1, c2

MCKind == <<"event", "error", "frame", "frame">>

=============================================================================
