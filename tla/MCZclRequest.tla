---------------------------- MODULE MCZclRequest ----------------------------
\* A request to the Basic cluster with a retry, and a command to another
\* cluster of the same device; another device reports on its own.
EXTENDS ZclRequest

CONSTANTS r1, c1, d1, d2, OnOff

MCRequests == {r1, c1}
MCCommands == {c1}
MCDevices == {d1, d2}
MCClusters == {Basic, OnOff}
MCTargetOf == [r \in Requests |-> IF r = r1 THEN <<d1, Basic>> ELSE <<d1, OnOff>>]
MCReporters == {<<d2, OnOff>>}

=============================================================================
