-------------------------- MODULE MCAdapterDevices --------------------------
\* Two devices; one caller names the first while another removes the second.
EXTENDS AdapterDevices, TLC

CONSTANTS u1, u2

MCDevices == {"d1", "d2"}
MCUsers == {u1, u2}
MCNames == {"old", "new"}
Set == Job("set", "d1", "new")
Remove(d) == Job("remove", d, NoName)
Scenario(calls, indications, opened) == [calls |-> calls, events |-> indications, sessions |-> opened]
MCScenarios ==
  {Scenario(<<>>, 2, 1), Scenario(<<>>, 1, 2), Scenario(u1 :> Set, 1, 1), Scenario(u1 :> Remove("d1"), 1, 1), Scenario(u1 :> Remove("d1"), 0, 2),
   Scenario((u1 :> Set) @@ (u2 :> Remove("d2")), 0, 1), Scenario((u1 :> Set) @@ (u2 :> Job("get", "d1", NoName)), 0, 1),
   Scenario((u1 :> Set) @@ (u2 :> Job("set", "d2", "new")), 0, 1)}
Old(d) == Entry(d, "old")
MCMemories == {<<EmptyEntry, Old("d1")>>, <<Corrupt, Old("d2")>>, <<Old("d1"), Old("d1")>>}
=============================================================================
