-------------------------- MODULE MCNetworkManagement --------------------------
\* A coordinator with a network of three devices, kept in either table, and one
\* that is fresh.
EXTENDS NetworkManagement, TLC

CONSTANTS c1, c2

MCCallers == {c1, c2}
Memory(nib, cells) ==
  [i \in Items |-> CASE i \in {"startup", "type", "zdoCb"} -> <<0>>
                     [] i = "nib" -> nib [] i = "extAddr" -> <<8>> [] i \in {"key", "altKey"} -> <<0, 5>>
                     [] i = "addrMgr" -> cells [] OTHER -> <<>>]
Network == <<1, 11, 1>>
Legacy == <<1, 1, 1, 2, 4, 3>>
Extended == <<<<1, Own>>, <<1, 1>>, Emptied, <<7>>, <<2, 2>>>>
Op(kind, arg) == [kind |-> kind, arg |-> arg]
Scenario(jobs, nib, cells, entries, f, o) ==
  [jobs |-> jobs, mem |-> Memory(nib, cells), table |-> entries, faults |-> f, own |-> o, closes |-> FALSE, joins |-> {},
   devs |-> DevicesOf(cells, entries)]
One(ops, cells, entries, f, o) == Scenario(c1 :> ops, Network, cells, entries, f, o)
Two(ops, others, cells, entries, f, o) == Scenario((c1 :> ops) @@ (c2 :> others), Network, cells, entries, f, o)
Closing(s) == [s EXCEPT !.closes = TRUE]
Uncleared(s) == [s EXCEPT !.mem.startup = <<3>>]
Joining(s) == [s EXCEPT !.joins = {4}]
Form == Op("form", 0)
Channel == Op("channel", 20)
Backup == Op("backup", 0)
Erase == Op("factoryReset", 0)
Restore == Op("restore", 0)
Delete(d) == Op("delete", d)
MCScenarios ==
  { One(<<Form, Channel>>, Legacy, <<>>, 2, 1),
    Scenario(c1 :> <<Form>>, <<0, 0, 0>>, <<>>, <<>>, 1, 1), Scenario(c1 :> <<Form, Channel>>, <<>>, <<>>, <<>>, 1, 0),
    Two(<<Form>>, <<Op("form", 26)>>, Legacy, <<>>, 0, 0),
    One(<<Channel, Op("seamless", 12), Op("channel", 0)>>, Legacy, <<>>, 2, 1),
    Two(<<Channel>>, <<Erase>>, Legacy, <<>>, 1, 1),
    Two(<<Channel>>, <<Op("seamless", 12)>>, Legacy, <<>>, 1, 1),
    One(<<Restore, Backup, Erase, Restore>>, Legacy, <<>>, 1, 1),
    One(<<Backup>>, <<>>, Extended, 1, 0), One(<<Backup>>, Legacy \o <<1, 4>>, <<>>, 0, 0),
    Closing(One(<<Backup, Restore>>, <<>>, Extended, 0, 0)), Closing(One(<<Form>>, Legacy, <<>>, 0, 0)),
    Joining(Two(<<Delete(1)>>, <<Delete(2), Delete(5)>>, Legacy, <<>>, 1, 1)),
    Joining(Two(<<Delete(3)>>, <<Backup>>, Legacy, <<>>, 1, 1)),
    Two(<<Delete(1)>>, <<Delete(2)>>, <<>>, Extended, 2, 0), Uncleared(Two(<<Channel>>, <<Delete(2)>>, Legacy, <<>>, 1, 0)),
    One(<<Delete(1)>>, Legacy \o <<1, 4>>, <<>>, 1, 0),
    One(<<Delete(1), Delete(1), Backup>>, Legacy, <<<<1, 1>>, <<7>>, <<3, 1>>>>, 1, 1),
    One(<<Delete(FF), Delete(1), Delete(1)>>, <<1, 1, 2, 1, 0, FF>>, Extended, 1, 0),
    One(<<Op("getPower", 0), Op("setPower", -3), Op("getPower", 0), Op("setPower", 5), Op("getPower", 0)>>, <<>>, <<>>, 1, 0) }
=============================================================================
