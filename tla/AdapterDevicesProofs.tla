------------------------ MODULE AdapterDevicesProofs ------------------------
(***************************************************************************)
(* The table of devices follows the indications, and a device has the name *)
(* it was given, for every set of devices and callers and any number of    *)
(* indications and sessions.  The inductive invariant of the first says    *)
(* what becomes of a device whose indication is still under way: if only   *)
(* one is, it is the latest, and no goroutine of an earlier session        *)
(* outlives the client.  The one of the second is further below.           *)
(***************************************************************************)
EXTENDS AdapterDevices, SequenceTheorems, WellFoundedInduction, TLAPS

Kinds == {"join", "announce", "leave"}

\* The address a device has after the indication e.
Address(e) == IF e.kind = "leave" THEN 0 ELSE e.no

Typed ==
  /\ devices \in [Devices -> [nwk : Nat, caps : BOOLEAN]]
  /\ said \in [Devices -> Nat]
  /\ events \in Nat
  /\ pending \subseteq [no : Nat, kind : Kinds, dev : Devices]

Settled ==
  \A d \in Devices :
    (d \notin unsure /\ ~\E e \in pending : e.dev = d) => devices[d].nwk = said[d]

\* Two indications of one device under way may be applied in either order.
OneUnderWay ==
  \A e, o \in pending : e # o /\ e.dev = o.dev => e.dev \in unsure

PendingIsLatest ==
  \A e \in pending : e.dev \notin unsure => said[e.dev] = Address(e)

NoneWithoutClient ==
  life \in {"closed", "opening", "waiting"} => pending = {}

IInv ==
  /\ Typed
  /\ Settled
  /\ OneUnderWay
  /\ PendingIsLatest
  /\ NoneWithoutClient

-----------------------------------------------------------------------------
LEMMA InitIInv == Init => IInv
  BY DEF Init, IInv, Typed, Settled, OneUnderWay, PendingIsLatest, NoneWithoutClient, NoRecord

\* Wiring the callbacks makes a new table, and nothing is under way then.
LEMMA WireIInv ==
  ASSUME IInv, OpenWire
  PROVE  IInv'
  BY DEF IInv, Typed, Settled, OneUnderWay, PendingIsLatest, NoneWithoutClient, NoRecord, OpenWire

\* The other steps of Open and Close leave the table alone; the client is
\* gone only after the indications under way.
LEMMA LifeIInv ==
  ASSUME IInv, UNCHANGED tableVars,
         life' \in {"closed", "opening", "waiting"} =>
           life \in {"closed", "opening", "waiting"} \/ pending = {}
  PROVE  IInv'
  BY DEF tableVars, IInv, Typed, Settled, OneUnderWay, PendingIsLatest, NoneWithoutClient, Address

LEMMA IndicateIInv ==
  ASSUME IInv, NEW d \in Devices, NEW kind \in Kinds, Indicate(kind, d)
  PROVE  IInv'
  <1> DEFINE e == [no |-> events + 1, kind |-> kind, dev |-> d]
  <1> USE DEF IInv
  <1>1. /\ pending' = pending \cup {e}
        /\ events' = events + 1
        /\ said' = [said EXCEPT ![d] = Address(e)]
        /\ unsure' = IF \E o \in pending : o.dev = d THEN unsure \cup {d} ELSE unsure
        /\ life \notin {"closed", "opening", "waiting"}
        /\ UNCHANGED <<devices, life>>
    BY DEF Indicate, Address, ClientUp, lifeVars
  <1>2. Typed'
    BY <1>1 DEF Typed, Address, Kinds
  <1>3. Settled'
    BY <1>1 DEF Settled, Typed
  <1>4. OneUnderWay'
    BY <1>1 DEF OneUnderWay
  <1>5. PendingIsLatest'
    BY <1>1 DEF PendingIsLatest, Typed, Address
  <1>6. NoneWithoutClient'
    BY <1>1 DEF NoneWithoutClient
  <1> QED BY <1>2, <1>3, <1>4, <1>5, <1>6

LEMMA DroppedIInv ==
  ASSUME IInv, NEW e \in pending, Dropped(e)
  PROVE  IInv'
  BY DEF Dropped, lifeVars, IInv, Typed, Settled, OneUnderWay, PendingIsLatest, NoneWithoutClient,
         Address

LEMMA HandleIInv ==
  ASSUME IInv, NEW e \in pending, Handle(e)
  PROVE  IInv'
  <1> USE DEF IInv
  <1>1. /\ pending' = pending \ {e}
        /\ devices' = [devices EXCEPT ![e.dev] = Applied(e, @)]
        /\ UNCHANGED <<life, said, unsure, events>>
    BY DEF Handle, lifeVars
  <1>2. /\ e.dev \in Devices
        /\ Applied(e, devices[e.dev]) \in [nwk : Nat, caps : BOOLEAN]
        /\ Applied(e, devices[e.dev]).nwk = Address(e)
    BY DEF Typed, Applied, NoRecord, Kinds, Address
  <1>3. Typed'
    BY <1>1, <1>2 DEF Typed
  <1>4. Settled'
    <2> SUFFICES ASSUME NEW d \in Devices, d \notin unsure', ~\E o \in pending' : o.dev = d
                 PROVE  devices'[d].nwk = said'[d]
      BY DEF Settled
    <2>1. CASE d = e.dev
      BY <1>1, <1>2, <2>1 DEF PendingIsLatest, Typed
    <2>2. CASE d # e.dev
      BY <1>1, <1>2, <2>2 DEF Settled, Typed
    <2> QED BY <2>1, <2>2
  <1>5. OneUnderWay' /\ PendingIsLatest' /\ NoneWithoutClient'
    BY <1>1 DEF OneUnderWay, PendingIsLatest, NoneWithoutClient, Address
  <1> QED BY <1>3, <1>4, <1>5

\* RemoveDevice and ForceRemoveDevice forget the device.
LEMMA ForgetIInv ==
  ASSUME IInv, NEW p \in Procs, Forget(p)
  PROVE  IInv'
  <1> DEFINE d == job[p].dev
  <1> USE DEF IInv
  <1>1. UNCHANGED <<life, pending, events>>
    BY DEF Forget, lifeVars
  <1>2. CASE UNCHANGED <<devices, said, unsure>>
    BY <1>1, <1>2 DEF Typed, Settled, OneUnderWay, PendingIsLatest, NoneWithoutClient, Address
  <1>3. CASE /\ devices' = [devices EXCEPT ![d] = NoRecord] /\ said' = [said EXCEPT ![d] = 0]
             /\ unsure' = IF \E e \in pending : e.dev = d THEN unsure \cup {d} ELSE unsure
    <2>1. Typed'
      BY <1>1, <1>3 DEF Typed, NoRecord
    <2>2. Settled'
      BY <1>1, <1>3 DEF Settled, Typed, NoRecord
    <2>3. OneUnderWay' /\ NoneWithoutClient'
      BY <1>1, <1>3 DEF OneUnderWay, NoneWithoutClient
    <2>4. PendingIsLatest'
      BY <1>1, <1>3 DEF PendingIsLatest, Typed, Address
    <2> QED BY <2>1, <2>2, <2>3, <2>4
  <1> QED BY <1>2, <1>3 DEF Forget

\* The handlers and the calls otherwise touch neither table nor client.
LEMMA RestIInv ==
  ASSUME IInv,
         \/ \E n \in running : HandlerCalls(n) \/ HandlerEnds(n)
         \/ \E u \in Users : Call(u)
         \/ \E p \in Procs : \/ Enter(p) \/ AskLeave(p) \/ RequestFails(p)
                             \/ ReadItem(p) \/ ReadEnds(p) \/ WriteItem(p)
         \/ UNCHANGED vars
  PROVE  IInv'
  <1>1. UNCHANGED <<life, devices, pending, said, unsure, events>>
    BY DEF HandlerCalls, HandlerEnds, Call, Enter, AskLeave, RequestFails, ReadItem, ReadEnds, WriteItem, vars,
           lifeVars, tableVars
  <1> QED
    BY <1>1 DEF IInv, Typed, Settled, OneUnderWay, PendingIsLatest, NoneWithoutClient, Address

LEMMA NextIInv == IInv /\ [Next]_vars => IInv'
  <1> SUFFICES ASSUME IInv, [Next]_vars PROVE IInv'
    OBVIOUS
  <1>1. CASE \/ OpenBegin \/ OpenEnd \/ OpenFail \/ OpenAbandon
             \/ CloseBegin \/ CloseClient \/ CloseEnd \/ CancelContext \/ OnDeviceEvent
    <2>1. /\ UNCHANGED tableVars
          /\ life' \in {"closed", "opening", "waiting"} =>
               life \in {"closed", "opening", "waiting"} \/ pending = {}
      BY <1>1 DEF OpenBegin, OpenEnd, OpenFail, OpenAbandon, CloseBegin, CloseClient, CloseEnd,
                  CancelContext, OnDeviceEvent
    <2> QED BY <2>1, LifeIInv
  <1>2. CASE OpenWire
    BY <1>2, WireIInv
  <1>3. CASE \E d \in Devices, kind \in Kinds : Indicate(kind, d)
    BY <1>3, IndicateIInv
  <1>4. CASE \E e \in pending : Dropped(e) \/ Handle(e)
    BY <1>4, DroppedIInv, HandleIInv
  <1>5. CASE \E p \in Procs : Forget(p)
    BY <1>5, ForgetIInv
  <1> QED
    BY <1>1, <1>2, <1>3, <1>4, <1>5, RestIInv DEF Next, Proceed, Kinds

\* Whatever the adapter's callers, handlers and the coordinator do, and in
\* whichever order goroutines run, a device whose indications did not overlap
\* is in the table exactly as the latest of them says.
THEOREM DeviceTable == Spec => []TableFollowsIndications
  <1>1. IInv => TableFollowsIndications
    BY DEF IInv, Settled, TableFollowsIndications
  <1> QED BY <1>1, InitIInv, NextIInv, PTL DEF Spec

-----------------------------------------------------------------------------
(***************************************************************************)
(* Names. A call that changes a name reads the whole table, changes it and *)
(* writes all of it again, item by item. As long as no two such calls are  *)
(* at it at once, the invariant relates what each has in hand to what is   *)
(* in memory: while it reads, its table has the entries of the items it    *)
(* has read, in order; while it writes, the items before the one it is at  *)
(* are those of its table, and the first entry of any other device lies no *)
(* further in front in memory than in the table.                           *)
(***************************************************************************)
\* The first entry of a device.
FirstAt(t, d, i) == i \in 1..Len(t) /\ t[i].dev = d /\ \A k \in 1..(i - 1) : t[k].dev # d

\* Of what was read of the first n items, nothing is missing.
Collected(t, m, n, d) ==
  /\ (\A i \in 1..Len(t) : t[i].dev # d) => \A j \in 1..n : m[j].dev # d
  /\ \A i \in 1..Len(t) : FirstAt(t, d, i) =>
       \E j \in i..n : m[j].dev = d /\ m[j].name = t[i].name /\ \A k \in 1..(j - 1) : m[k].dev # d

Changing(p) == pc[p] \in {"read", "write"} /\ Changes(p)
Kept(m, w, h) == \A d \in Devices : NameOf(m, d) \in w[d] \/ (h /\ NoName \in w[d])

\* A table that is read.
ReadOK(t, m, n) ==
  /\ n \in 0..Len(m) /\ Len(t) <= n
  /\ \A d \in Devices : Collected(t, m, n, d)
ReadSound(t, m, n) == Len(t) = n /\ \A i \in 1..n : t[i] = m[i]

\* A table that is written, with n items done.
WriteOK(t, m, n, j) ==
  /\ n \in 0..Len(t) /\ n <= Len(m) /\ Len(t) <= Len(m) + 1
  /\ \A i \in 1..n : m[i] = t[i]
  /\ \A d \in Devices \ {j.dev} : Collected(t, m, Len(m), d)
  /\ j.kind = "set" => \E i \in 1..Len(t) : /\ FirstAt(t, j.dev, i) /\ t[i].name = j.name
                                            /\ \A k \in 1..(i - 1) : k <= Len(m) => m[k].dev # j.dev
WriteSound(t, m, j) ==
  /\ Sound(t) /\ Len(m) <= Len(t)
  /\ j.kind = "delete" => Len(m) = Len(t) /\ \A i \in 1..Len(t) : t[i].dev # j.dev
  /\ \E i \in 1..Len(t) : \A k \in 1..Len(t) : k # i => k <= Len(m) /\ t[k] = m[k]

\* What a call has in hand: k is where it is, j its job, t its table, n how many
\* items it is past; m is the memory, w the names wanted, h whether m was unsound.
Held(k, j, t, n, m, w, h) ==
  /\ k = "read" /\ j.kind \in {"set", "delete"} => ReadOK(t, m, n) /\ (h \/ ReadSound(t, m, n))
  /\ k = "write" => WriteOK(t, m, n, j) /\ j.name \in w[j.dev] /\ (h \/ WriteSound(t, m, j))

Steps == {"idle", "lock", "ask", "forget", "read", "write", "done", "failed", "panic"}
NamesTyped ==
  /\ scenario \in Scenarios /\ events \in 0..scenario.events
  /\ pending \subseteq [no : 1..events, kind : Kinds, dev : Devices]
  /\ \A e, o \in pending : e.no = o.no => e = o
  /\ nv \in Seq(Entries) /\ DOMAIN wanted = Devices

\* What the call of p is at; a goroutine that deletes a name is started once.
CallTyped(p) ==
  /\ pc[p] \in Steps /\ tab[p] \in Seq(Entries) /\ pos[p] \in Nat \ {0}
  /\ pc[p] # "idle" => job[p] \in Jobs /\ (job[p].kind # "set" => job[p].name = NoName)
  /\ pc[p] \notin {"read", "write"} => tab[p] = <<>> /\ pos[p] = 1
  /\ pc[p] \in {"ask", "forget"} => job[p].kind \in {"remove", "force"}
  /\ pc[p] = "read" => job[p].kind \notin {"remove", "force"}
  /\ pc[p] = "read" => Len(tab[p]) < pos[p] /\ pos[p] <= Len(nv) + 1
  /\ pc[p] = "write" => Changes(p) /\ pos[p] <= Len(tab[p]) /\ Len(tab[p]) <= Len(nv) + 1
CleanersFresh == \A n \in Cleaners : pc[n] # "idle" => n <= events /\ \A e \in pending : e.no # n
CallsTyped ==
  /\ DOMAIN pc = Procs /\ DOMAIN job = Procs /\ DOMAIN tab = Procs /\ DOMAIN pos = Procs
  /\ \A p \in Procs : CallTyped(p)
  /\ CleanersFresh

OneChanges == ~mixed => \A p, q \in Procs : Changing(p) /\ Changing(q) => p = q
NamesKept ==
  ~mixed /\ Len(nv) <= MaxEntries =>
    /\ Kept(nv, wanted, hurt) /\ (hurt \/ Sound(nv))
    /\ \A p \in Procs : Held(pc[p], job[p], tab[p], pos[p] - 1, nv, wanted, hurt)

NamesInv == NamesTyped /\ CallsTyped /\ OneChanges /\ NamesKept

-----------------------------------------------------------------------------
LEMMA FirstOfSome ==
  ASSUME NEW t \in Seq(Entries), NEW d, NEW i \in 1..Len(t), t[i].dev = d
  PROVE  \E k \in 1..Len(t) : FirstAt(t, d, k)
  <1> DEFINE S == Slots(t, d)
  <1>1. S \subseteq Nat /\ i \in S
    BY DEF Slots
  <1>2. PICK k \in S : \A y \in S : ~(<<y, k>> \in OpToRel(<, Nat))
    BY <1>1, NatLessThanWellFounded, WFMin, Zenon
  <1>3. k \in 1..Len(t) /\ t[k].dev = d
    BY DEF Slots
  <1>4. \A y \in 1..(k - 1) : t[y].dev # d
    <2> SUFFICES ASSUME NEW y \in 1..(k - 1), t[y].dev = d PROVE FALSE
      OBVIOUS
    <2>1. Len(t) \in Nat
      BY LenProperties
    <2>2. y \in S /\ y \in Nat /\ k \in Nat /\ y < k
      BY <1>3, <2>1 DEF Slots
    <2> QED BY <1>2, <2>2 DEF OpToRel
  <1> QED BY <1>3, <1>4 DEF FirstAt

LEMMA NameAtFirst ==
  ASSUME NEW t \in Seq(Entries), NEW d, NEW i, FirstAt(t, d, i)
  PROVE  Slots(t, d) # {} /\ Least(Slots(t, d)) = i /\ NameOf(t, d) = t[i].name
  <1>1. Len(t) \in Nat
    BY LenProperties
  <1>2. i \in Slots(t, d) /\ \A j \in Slots(t, d) : i <= j
    BY <1>1 DEF Slots, FirstAt
  <1>3. Slots(t, d) \subseteq Int
    BY DEF Slots
  <1>4. \A k \in Slots(t, d) : (\A j \in Slots(t, d) : k <= j) => k = i
    BY <1>2, <1>3
  <1>5. Least(Slots(t, d)) = i
    BY <1>2, <1>4 DEF Least
  <1> QED BY <1>2, <1>5 DEF NameOf

LEMMA NameOfNobody ==
  ASSUME NEW t, NEW d, \A i \in 1..Len(t) : t[i].dev # d
  PROVE  Slots(t, d) = {} /\ NameOf(t, d) = NoName
  BY DEF Slots, NameOf

\* One more item is read.
LEMMA OneMoreItem ==
  ASSUME NEW t \in Seq(Entries), NEW m \in Seq(Entries), NEW n \in Nat, n < Len(m), ReadOK(t, m, n)
  PROVE  /\ m[n + 1] = Corrupt => ReadOK(t, m, n + 1)
         /\ m[n + 1] # Corrupt => ReadOK(Append(t, m[n + 1]), m, n + 1)
  <1> DEFINE e == m[n + 1]
             u == Append(t, e)
  <1>1. Len(t) \in Nat /\ Len(m) \in Nat /\ n + 1 \in 1..Len(m) /\ e \in Entries
    BY LenProperties, ElementOfSeq
  <1>2. ASSUME e = Corrupt, NEW d \in Devices PROVE Collected(t, m, n + 1, d)
    <2>1. e.dev # d
      BY <1>2, MemoriesAreTables
    <2> QED BY <1>1, <2>1 DEF ReadOK, Collected
  <1>3. /\ u \in Seq(Entries) /\ Len(u) = Len(t) + 1 /\ u[Len(t) + 1] = e
        /\ \A i \in 1..Len(t) : u[i] = t[i]
    BY <1>1, AppendProperties
  <1>4. ASSUME NEW d \in Devices PROVE Collected(u, m, n + 1, d)
    <2>1. Collected(t, m, n, d)
      BY DEF ReadOK
    <2>2. ASSUME \A i \in 1..Len(u) : u[i].dev # d, NEW j \in 1..(n + 1) PROVE m[j].dev # d
      <3>1. \A i \in 1..Len(t) : t[i].dev # d
        BY <1>1, <1>3, <2>2
      <3>2. e.dev # d
        BY <1>1, <1>3, <2>2
      <3> QED BY <2>1, <3>1, <3>2 DEF Collected
    <2>3. ASSUME NEW i \in 1..Len(u), FirstAt(u, d, i)
          PROVE  \E j \in i..(n + 1) : m[j].dev = d /\ m[j].name = u[i].name /\ \A k \in 1..(j - 1) : m[k].dev # d
      <3>1. CASE i = Len(t) + 1
        <4>1. \A k \in 1..Len(t) : t[k].dev # d
          BY <1>1, <1>3, <2>3, <3>1 DEF FirstAt
        <4>2. \A k \in 1..n : m[k].dev # d
          BY <2>1, <4>1 DEF Collected
        <4>3. e.dev = d /\ e.name = u[i].name
          BY <1>3, <2>3, <3>1 DEF FirstAt
        <4>4. n + 1 \in i..(n + 1)
          BY <1>1, <3>1 DEF ReadOK
        <4> QED BY <4>2, <4>3, <4>4
      <3>2. CASE i # Len(t) + 1
        <4>1. i \in 1..Len(t) /\ u[i] = t[i]
          BY <1>1, <1>3, <3>2
        <4>2. FirstAt(t, d, i)
          BY <1>1, <1>3, <2>3, <4>1 DEF FirstAt
        <4>3. PICK j \in i..n : m[j].dev = d /\ m[j].name = t[i].name /\ \A k \in 1..(j - 1) : m[k].dev # d
          BY <2>1, <4>1, <4>2 DEF Collected
        <4>4. j \in i..(n + 1)
          BY <1>1
        <4> QED BY <4>1, <4>3, <4>4
      <3> QED BY <3>1, <3>2
    <2> QED BY <2>2, <2>3 DEF Collected
  <1> QED BY <1>1, <1>2, <1>3, <1>4 DEF ReadOK

\* A table that differs from another only in an entry that is none of d's in
\* either says the same of d.
LEMMA OthersCollected ==
  ASSUME NEW t \in Seq(Entries), NEW u \in Seq(Entries), NEW m, NEW n, NEW d, NEW p \in 1..Len(u),
         Collected(t, m, n, d), Len(t) <= Len(u), u[p].dev # d, p <= Len(t) => t[p].dev # d,
         \A k \in 1..Len(u) : k # p => k <= Len(t) /\ u[k] = t[k]
  PROVE  Collected(u, m, n, d)
  <1>1. Len(t) \in Nat /\ Len(u) \in Nat
    BY LenProperties
  <1>2. ASSUME \A i \in 1..Len(u) : u[i].dev # d PROVE \A i \in 1..Len(t) : t[i].dev # d
    <2> TAKE i \in 1..Len(t)
    <2>1. CASE i = p
      BY <2>1
    <2>2. CASE i # p
      BY <1>1, <1>2, <2>2
    <2> QED BY <2>1, <2>2
  <1>3. ASSUME NEW i \in 1..Len(u), FirstAt(u, d, i) PROVE i \in 1..Len(t) /\ FirstAt(t, d, i) /\ u[i].name = t[i].name
    <2>1. i # p
      BY <1>3 DEF FirstAt
    <2>2. i \in 1..Len(t) /\ u[i] = t[i]
      BY <1>1, <2>1
    <2>3. \A k \in 1..(i - 1) : t[k].dev # d
      <3> TAKE k \in 1..(i - 1)
      <3>1. k \in 1..Len(u) /\ k \in 1..Len(t)
        BY <1>1, <2>2
      <3>2. u[k].dev # d
        BY <1>3, <3>1 DEF FirstAt
      <3>3. CASE k = p
        BY <3>1, <3>3
      <3>4. CASE k # p
        BY <3>1, <3>2, <3>4
      <3> QED BY <3>3, <3>4
    <2> QED BY <1>3, <2>2, <2>3 DEF FirstAt
  <1> QED BY <1>2, <1>3 DEF Collected

\* The table in which a device has a new name.
Renamed(t, u, d, name, p) ==
  /\ u \in Seq(Entries) /\ Len(t) <= Len(u) /\ Len(u) <= Len(t) + 1
  /\ p \in 1..Len(u) /\ u[p] = Entry(d, name)
  /\ \A k \in 1..Len(u) : k # p => k <= Len(t) /\ u[k] = t[k]
  /\ \/ FirstAt(t, d, p)
     \/ (\A k \in 1..Len(t) : t[k].dev # d) /\ (p <= Len(t) => t[p].dev = NoDevice)

LEMMA WithNameRenames ==
  ASSUME NEW t \in Seq(Entries), NEW d \in Devices, NEW name \in Names \cup {NoName}
  PROVE  \E p \in 1..Len(WithName(t, d, name)) : Renamed(t, WithName(t, d, name), d, name, p)
  <1>1. Len(t) \in Nat
    BY LenProperties
  <1>2. ASSUME NEW p \in 1..(Len(t) + 1),
               NEW u, u = [i \in 1..(IF p > Len(t) THEN p ELSE Len(t)) |-> IF i = p THEN Entry(d, name) ELSE t[i]]
        PROVE  /\ u \in Seq(Entries) /\ Len(t) <= Len(u) /\ Len(u) <= Len(t) + 1
               /\ p \in 1..Len(u) /\ u[p] = Entry(d, name)
               /\ \A k \in 1..Len(u) : k # p => k <= Len(t) /\ u[k] = t[k]
    <2> DEFINE n == IF p > Len(t) THEN p ELSE Len(t)
    <2>1. n \in Nat /\ p \in 1..n /\ Len(t) <= n /\ n <= Len(t) + 1
      BY <1>1
    <2>2. Entry(d, name) \in Entries
      BY DEF Entry, Entries
    <2>3. \A i \in 1..n : (IF i = p THEN Entry(d, name) ELSE t[i]) \in Entries
      <3> TAKE i \in 1..n
      <3>1. i # p => i \in 1..Len(t)
        BY <1>1
      <3> QED BY <2>2, <3>1, ElementOfSeq
    <2>4. u \in [1..n -> Entries]
      BY <1>2, <2>3
    <2> HIDE DEF n
    <2>5. u \in Seq(Entries) /\ Len(u) = n
      BY <2>1, <2>4
    <2>6. \A k \in 1..n : k # p => k <= Len(t)
      BY <1>1, <2>1 DEF n
    <2>7. u[p] = Entry(d, name) /\ \A k \in 1..n : k # p => u[k] = t[k]
      BY <1>2, <2>1 DEF n
    <2> QED BY <2>1, <2>5, <2>6, <2>7
  <1> DEFINE u == WithName(t, d, name)
  <1>3. CASE Slots(t, d) # {}
    <2>1. PICK p \in 1..Len(t) : FirstAt(t, d, p)
      BY <1>3, FirstOfSome DEF Slots
    <2>2. Least(Slots(t, d)) = p /\ p \in 1..(Len(t) + 1)
      BY <1>1, <2>1, NameAtFirst
    <2>3. u = [i \in 1..(IF p > Len(t) THEN p ELSE Len(t)) |-> IF i = p THEN Entry(d, name) ELSE t[i]]
      BY <1>3, <2>2 DEF WithName
    <2> QED BY <1>2, <2>1, <2>2, <2>3 DEF Renamed
  <1>4. CASE Slots(t, d) = {} /\ Slots(t, NoDevice) # {}
    <2>1. PICK p \in 1..Len(t) : FirstAt(t, NoDevice, p)
      BY <1>4, FirstOfSome DEF Slots
    <2>2. Least(Slots(t, NoDevice)) = p /\ p \in 1..(Len(t) + 1) /\ t[p].dev = NoDevice
      BY <1>1, <2>1, NameAtFirst DEF FirstAt
    <2>3. u = [i \in 1..(IF p > Len(t) THEN p ELSE Len(t)) |-> IF i = p THEN Entry(d, name) ELSE t[i]]
      BY <1>4, <2>2 DEF WithName
    <2>4. \A k \in 1..Len(t) : t[k].dev # d
      BY <1>4 DEF Slots
    <2>5. /\ u \in Seq(Entries) /\ Len(t) <= Len(u) /\ Len(u) <= Len(t) + 1
          /\ p \in 1..Len(u) /\ u[p] = Entry(d, name)
          /\ \A k \in 1..Len(u) : k # p => k <= Len(t) /\ u[k] = t[k]
      BY <1>2, <2>2, <2>3
    <2> HIDE DEF u
    <2>6. Renamed(t, u, d, name, p)
      BY <2>2, <2>4, <2>5 DEF Renamed
    <2> QED BY <2>5, <2>6 DEF u
  <1>5. CASE Slots(t, d) = {} /\ Slots(t, NoDevice) = {}
    <2> DEFINE p == Len(t) + 1
    <2>1. p \in 1..(Len(t) + 1)
      BY <1>1
    <2>2. u = [i \in 1..(IF p > Len(t) THEN p ELSE Len(t)) |-> IF i = p THEN Entry(d, name) ELSE t[i]]
      BY <1>5 DEF WithName
    <2>3. (\A k \in 1..Len(t) : t[k].dev # d) /\ ~(p <= Len(t))
      BY <1>1, <1>5 DEF Slots
    <2> HIDE DEF p
    <2> QED BY <1>2, <2>1, <2>2, <2>3 DEF Renamed
  <1> QED BY <1>3, <1>4, <1>5

\* The table in which a device has one entry less.
LEMMA WithoutNameEmpties ==
  ASSUME NEW t \in Seq(Entries), NEW d \in Devices, Slots(t, d) # {}
  PROVE  /\ WithoutName(t, d) \in Seq(Entries) /\ Len(WithoutName(t, d)) = Len(t)
         /\ \E p \in 1..Len(t) : /\ FirstAt(t, d, p) /\ WithoutName(t, d)[p] = EmptyEntry
                                 /\ \A k \in 1..Len(t) : k # p => WithoutName(t, d)[k] = t[k]
  <1>1. PICK p \in 1..Len(t) : FirstAt(t, d, p)
    BY FirstOfSome DEF Slots
  <1>2. WithoutName(t, d) = [t EXCEPT ![p] = EmptyEntry]
    BY <1>1, NameAtFirst DEF WithoutName
  <1>3. EmptyEntry \in Entries
    BY DEF EmptyEntry, Entry, Entries
  <1>4. [t EXCEPT ![p] = EmptyEntry] \in Seq(Entries) /\ Len([t EXCEPT ![p] = EmptyEntry]) = Len(t)
    BY <1>3, ExceptSeq
  <1>5. [t EXCEPT ![p] = EmptyEntry][p] = EmptyEntry /\ \A k \in 1..Len(t) : k # p => [t EXCEPT ![p] = EmptyEntry][k] = t[k]
    BY <1>3, ExceptSeq
  <1> QED BY <1>1, <1>2, <1>4, <1>5

\* What was read whole and soundly is the memory, and sound if it is.
LEMMA SoundCopy ==
  ASSUME NEW t \in Seq(Entries), NEW m \in Seq(Entries), ReadSound(t, m, Len(m)), Sound(m)
  PROVE  Sound(t) /\ Len(t) = Len(m) /\ \A k \in 1..Len(t) : t[k] = m[k]
  BY DEF ReadSound, Sound

LEMMA SetBegins ==
  ASSUME NEW t \in Seq(Entries), NEW m \in Seq(Entries), NEW j \in Jobs, j.kind = "set", ReadOK(t, m, Len(m)),
         NEW u, u = WithName(t, j.dev, j.name)
  PROVE  /\ u \in Seq(Entries) /\ Len(u) >= 1
         /\ WriteOK(u, m, 0, j)
         /\ ReadSound(t, m, Len(m)) /\ Sound(m) => WriteSound(u, m, j)
  <1>1. Len(t) \in Nat /\ Len(m) \in Nat /\ Len(t) <= Len(m) /\ j.dev \in Devices /\ j.name \in Names \cup {NoName}
    BY LenProperties DEF ReadOK, Jobs
  <1>2. PICK p \in 1..Len(u) : Renamed(t, u, j.dev, j.name, p)
    BY <1>1, WithNameRenames
  <1>3. /\ u \in Seq(Entries) /\ Len(t) <= Len(u) /\ Len(u) <= Len(t) + 1 /\ Len(u) \in Nat
        /\ u[p] = Entry(j.dev, j.name)
        /\ \A k \in 1..Len(u) : k # p => k <= Len(t) /\ u[k] = t[k]
        /\ \/ FirstAt(t, j.dev, p)
           \/ (\A k \in 1..Len(t) : t[k].dev # j.dev) /\ (p <= Len(t) => t[p].dev = NoDevice)
    BY <1>2, LenProperties DEF Renamed
  <1>4. u[p].dev = j.dev /\ u[p].name = j.name
    BY <1>3 DEF Entry
  <1>5. ASSUME NEW d \in Devices \ {j.dev} PROVE Collected(u, m, Len(m), d)
    <2>1. p <= Len(t) => t[p].dev # d
      BY <1>3, MemoriesAreTables DEF FirstAt
    <2>2. Collected(t, m, Len(m), d) /\ u[p].dev # d
      BY <1>4 DEF ReadOK
    <2> QED BY <1>3, <2>1, <2>2, OthersCollected
  <1>6. \A k \in 1..(p - 1) : t[k].dev # j.dev /\ k \in 1..Len(t) /\ u[k] = t[k]
    BY <1>1, <1>3 DEF FirstAt
  <1>7. FirstAt(u, j.dev, p)
    BY <1>4, <1>6 DEF FirstAt
  <1>8. \A k \in 1..(p - 1) : k <= Len(m) => m[k].dev # j.dev
    <2> TAKE k \in 1..(p - 1)
    <2> HAVE k <= Len(m)
    <2>1. Collected(t, m, Len(m), j.dev) /\ k \in 1..Len(m)
      BY <1>1 DEF ReadOK
    <2>2. CASE FirstAt(t, j.dev, p)
      <3>1. PICK i \in p..Len(m) : \A l \in 1..(i - 1) : m[l].dev # j.dev
        BY <2>1, <2>2 DEF Collected, FirstAt
      <3>2. k \in 1..(i - 1)
        BY <1>1
      <3> QED BY <3>1, <3>2
    <2>3. CASE \A l \in 1..Len(t) : t[l].dev # j.dev
      BY <2>1, <2>3 DEF Collected
    <2> QED BY <1>3, <2>2, <2>3
  <1>9. WriteOK(u, m, 0, j)
    <2>1. 0 \in 0..Len(u) /\ 0 <= Len(m) /\ Len(u) <= Len(m) + 1 /\ \A i \in 1..0 : m[i] = u[i]
      BY <1>1, <1>3
    <2> QED BY <1>4, <1>5, <1>7, <1>8, <2>1 DEF WriteOK
  <1>10. ASSUME ReadSound(t, m, Len(m)), Sound(m) PROVE WriteSound(u, m, j)
    <2>1. Sound(t) /\ Len(t) = Len(m) /\ \A k \in 1..Len(t) : t[k] = m[k]
      BY <1>10, SoundCopy
    <2>2. ASSUME NEW k \in 1..Len(u) PROVE u[k] # Corrupt
      <3>1. CASE k = p
        BY <1>1, <1>4, <3>1, MemoriesAreTables
      <3>2. CASE k # p
        BY <1>1, <1>3, <2>1, <3>2 DEF Sound
      <3> QED BY <3>1, <3>2
    <2>3. ASSUME NEW k \in 1..Len(u), k # p PROVE u[k].dev # j.dev
      <3>1. k \in 1..Len(t) /\ u[k] = t[k]
        BY <1>1, <1>3, <2>3
      <3>2. CASE FirstAt(t, j.dev, p)
        BY <1>1, <2>1, <2>3, <3>1, <3>2 DEF Sound, FirstAt
      <3>3. CASE \A l \in 1..Len(t) : t[l].dev # j.dev
        BY <3>1, <3>3
      <3> QED BY <1>3, <3>2, <3>3
    <2>4. ASSUME NEW k \in 1..Len(u), NEW l \in 1..Len(u), u[k].dev = u[l].dev, u[k].dev \in Devices PROVE k = l
      <3>1. CASE k = p \/ l = p
        BY <1>4, <2>3, <2>4, <3>1
      <3>2. CASE k # p /\ l # p
        BY <1>1, <1>3, <2>1, <2>4, <3>2 DEF Sound
      <3> QED BY <3>1, <3>2
    <2>5. \A k \in 1..Len(u) : k # p => k <= Len(m) /\ u[k] = m[k]
      BY <1>1, <1>3, <2>1
    <2>6. Sound(u)
      BY <2>2, <2>4 DEF Sound
    <2> QED BY <1>3, <2>1, <2>5, <2>6 DEF WriteSound
  <1>11. Len(u) >= 1
    BY <1>3
  <1> QED BY <1>3, <1>9, <1>10, <1>11

LEMMA DeleteBegins ==
  ASSUME NEW t \in Seq(Entries), NEW m \in Seq(Entries), NEW j \in Jobs, j.kind = "delete", ReadOK(t, m, Len(m)),
         Slots(t, j.dev) # {}, NEW u, u = WithoutName(t, j.dev)
  PROVE  /\ u \in Seq(Entries) /\ Len(u) >= 1
         /\ WriteOK(u, m, 0, j)
         /\ ReadSound(t, m, Len(m)) /\ Sound(m) => WriteSound(u, m, j)
  <1>1. Len(t) \in Nat /\ Len(m) \in Nat /\ Len(t) <= Len(m) /\ j.dev \in Devices
    BY LenProperties DEF ReadOK, Jobs
  <1>2. PICK p \in 1..Len(t) : /\ FirstAt(t, j.dev, p) /\ u[p] = EmptyEntry
                               /\ \A k \in 1..Len(t) : k # p => u[k] = t[k]
    BY <1>1, WithoutNameEmpties
  <1>3. u \in Seq(Entries) /\ Len(u) = Len(t)
    BY <1>1, WithoutNameEmpties
  <1>4. u[p].dev = NoDevice /\ t[p].dev = j.dev
    BY <1>2 DEF EmptyEntry, Entry, FirstAt
  <1>5. ASSUME NEW d \in Devices \ {j.dev} PROVE Collected(u, m, Len(m), d)
    <2>1. Collected(t, m, Len(m), d) /\ u[p].dev # d /\ t[p].dev # d
      BY <1>4, MemoriesAreTables DEF ReadOK
    <2>2. \A k \in 1..Len(u) : k # p => k <= Len(t) /\ u[k] = t[k]
      BY <1>1, <1>2, <1>3
    <2>3. p \in 1..Len(u) /\ Len(t) <= Len(u)
      BY <1>1, <1>3
    <2> QED BY <1>3, <2>1, <2>2, <2>3, OthersCollected
  <1>6. WriteOK(u, m, 0, j)
    <2>1. 0 \in 0..Len(u) /\ 0 <= Len(m) /\ Len(u) <= Len(m) + 1 /\ \A i \in 1..0 : m[i] = u[i]
      BY <1>1, <1>3
    <2> QED BY <1>5, <2>1 DEF WriteOK
  <1>7. ASSUME ReadSound(t, m, Len(m)), Sound(m) PROVE WriteSound(u, m, j)
    <2>1. Sound(t) /\ Len(t) = Len(m) /\ \A k \in 1..Len(t) : t[k] = m[k]
      BY <1>7, SoundCopy
    <2>2. ASSUME NEW k \in 1..Len(u) PROVE u[k] # Corrupt /\ u[k].dev # j.dev
      <3>1. CASE k = p
        BY <1>1, <1>4, <3>1, MemoriesAreTables
      <3>2. CASE k # p
        BY <1>1, <1>2, <1>3, <1>4, <2>1, <3>2 DEF Sound
      <3> QED BY <3>1, <3>2
    <2>3. ASSUME NEW k \in 1..Len(u), NEW l \in 1..Len(u), u[k].dev = u[l].dev, u[k].dev \in Devices PROVE k = l
      <3>1. k # p /\ l # p
        BY <1>4, <2>3, MemoriesAreTables
      <3> QED BY <1>2, <1>3, <2>1, <2>3, <3>1 DEF Sound
    <2>4. \A k \in 1..Len(u) : k # p => k <= Len(m) /\ u[k] = m[k]
      BY <1>1, <1>2, <1>3, <2>1
    <2>5. Sound(u)
      BY <2>2, <2>3 DEF Sound
    <2> QED BY <1>3, <2>1, <2>2, <2>4, <2>5 DEF WriteSound
  <1>8. Len(u) >= 1
    BY <1>1, <1>2, <1>3
  <1> QED BY <1>3, <1>6, <1>7, <1>8

\* A table read from all of a memory names the devices as the memory does.
LEMMA CollectedNames ==
  ASSUME NEW t \in Seq(Entries), NEW m \in Seq(Entries), NEW d, Collected(t, m, Len(m), d)
  PROVE  NameOf(t, d) = NameOf(m, d)
  <1>1. CASE \A i \in 1..Len(t) : t[i].dev # d
    <2>1. \A i \in 1..Len(m) : m[i].dev # d
      BY <1>1 DEF Collected
    <2> QED BY <1>1, <2>1, NameOfNobody
  <1>2. CASE \E i \in 1..Len(t) : t[i].dev = d
    <2>1. PICK i \in 1..Len(t) : FirstAt(t, d, i)
      BY <1>2, FirstOfSome
    <2>2. PICK k \in i..Len(m) : m[k].dev = d /\ m[k].name = t[i].name /\ \A l \in 1..(k - 1) : m[l].dev # d
      BY <2>1 DEF Collected
    <2>3. FirstAt(m, d, k)
      BY <2>2, LenProperties DEF FirstAt
    <2> QED BY <2>1, <2>2, <2>3, NameAtFirst
  <1> QED BY <1>1, <1>2

LEMMA SameNames ==
  ASSUME NEW m \in Seq(Entries), NEW w, NEW d, Slots(m, d) = Slots(w, d), \A k \in Slots(m, d) : m[k] = w[k]
  PROVE  NameOf(m, d) = NameOf(w, d)
  <1>1. CASE Slots(m, d) = {}
    BY <1>1 DEF NameOf
  <1>2. CASE Slots(m, d) # {}
    <2>1. PICK i \in 1..Len(m) : FirstAt(m, d, i)
      BY <1>2, FirstOfSome DEF Slots
    <2>2. Least(Slots(m, d)) = i /\ i \in Slots(m, d)
      BY <2>1, NameAtFirst DEF FirstAt, Slots
    <2> QED BY <1>2, <2>2 DEF NameOf
  <1> QED BY <1>1, <1>2

\* A memory of which item n + 1 is written from the table t.
Written(t, m, w, n) ==
  /\ w \in Seq(Entries) /\ Len(w) = IF n + 1 > Len(m) THEN n + 1 ELSE Len(m)
  /\ w[n + 1] = t[n + 1]
  /\ \A k \in 1..Len(w) : k # n + 1 => k <= Len(m) /\ w[k] = m[k]

LEMMA ItemWritten ==
  ASSUME NEW t \in Seq(Entries), NEW m \in Seq(Entries), NEW at \in 1..Len(t), at <= Len(m) + 1,
         NEW w, w = [i \in 1..(IF at > Len(m) THEN at ELSE Len(m)) |-> IF i = at THEN t[i] ELSE m[i]]
  PROVE  Written(t, m, w, at - 1)
  <1> DEFINE l == IF at > Len(m) THEN at ELSE Len(m)
  <1>1. Len(t) \in Nat /\ Len(m) \in Nat
    BY LenProperties
  <1>2. l \in Nat /\ at \in 1..l /\ (at - 1) + 1 = at /\ \A i \in 1..l : i # at => i \in 1..Len(m)
    BY <1>1
  <1>3. \A i \in 1..l : (IF i = at THEN t[i] ELSE m[i]) \in Entries
    BY <1>2, ElementOfSeq
  <1>4. w \in [1..l -> Entries]
    BY <1>3
  <1>5. \A i \in 1..l : w[i] = IF i = at THEN t[i] ELSE m[i]
    OBVIOUS
  <1> HIDE DEF l
  <1>6. w \in Seq(Entries) /\ Len(w) = l
    BY <1>2, <1>4
  <1>7. w[at] = t[at] /\ \A k \in 1..Len(w) : k # at => k <= Len(m) /\ w[k] = m[k]
    BY <1>2, <1>5, <1>6
  <1> QED BY <1>2, <1>6, <1>7 DEF Written, l

LEMMA WrittenCollected ==
  ASSUME NEW t \in Seq(Entries), NEW m \in Seq(Entries), NEW n \in Nat, n < Len(t), n <= Len(m), NEW w, Written(t, m, w, n),
         \A i \in 1..n : m[i] = t[i], NEW d, Collected(t, m, Len(m), d)
  PROVE  Collected(t, w, Len(w), d)
  <1>1. /\ Len(t) \in Nat /\ Len(m) \in Nat /\ Len(w) \in Nat /\ Len(m) <= Len(w) /\ n + 1 \in 1..Len(w)
        /\ w[n + 1] = t[n + 1] /\ n + 1 \in 1..Len(t)
        /\ \A k \in 1..Len(w) : k # n + 1 => k \in 1..Len(m) /\ w[k] = m[k]
    BY LenProperties DEF Written
  <1>2. ASSUME \A i \in 1..Len(t) : t[i].dev # d, NEW k \in 1..Len(w) PROVE w[k].dev # d
    <2>1. \A i \in 1..Len(m) : m[i].dev # d
      BY <1>2 DEF Collected
    <2> QED BY <1>1, <1>2, <2>1
  <1>3. ASSUME NEW i \in 1..Len(t), FirstAt(t, d, i)
        PROVE  \E k \in i..Len(w) : w[k].dev = d /\ w[k].name = t[i].name /\ \A l \in 1..(k - 1) : w[l].dev # d
    <2>1. PICK k \in i..Len(m) : m[k].dev = d /\ m[k].name = t[i].name /\ \A l \in 1..(k - 1) : m[l].dev # d
      BY <1>3 DEF Collected
    <2>2. t[i].dev = d /\ \A l \in 1..(i - 1) : t[l].dev # d
      BY <1>3 DEF FirstAt
    <2>3. CASE i <= n
      <3>1. m[i] = t[i] /\ i \in 1..Len(m)
        BY <1>1, <2>3
      <3>2. i = k
        BY <1>1, <2>1, <2>2, <3>1
      <3>3. \A l \in 1..i : l \in 1..Len(w) /\ l # n + 1 /\ w[l] = m[l]
        BY <1>1, <2>3, <3>1
      <3>4. i \in i..Len(w)
        BY <1>1, <3>1
      <3> QED BY <1>1, <2>1, <3>2, <3>3, <3>4
    <2>4. CASE i = n + 1
      <3>1. \A l \in 1..n : l \in 1..Len(w) /\ w[l] = m[l] /\ m[l].dev # d
        BY <1>1, <2>1, <2>4
      <3> QED BY <1>1, <2>2, <2>4, <3>1
    <2>5. CASE i > n + 1
      <3>1. k \in i..Len(w) /\ k \in 1..Len(w) /\ k # n + 1
        BY <1>1, <2>5
      <3>2. w[k] = m[k]
        BY <1>1, <3>1
      <3>3. t[n + 1].dev # d
        BY <2>2, <2>5
      <3>4. \A l \in 1..(k - 1) : w[l].dev # d
        BY <1>1, <2>1, <3>1, <3>3
      <3> QED BY <2>1, <3>1, <3>2, <3>4
    <2> QED BY <1>1, <2>3, <2>4, <2>5
  <1> QED BY <1>2, <1>3 DEF Collected

\* What writing one more item does to the names, and what it leaves to write.
LEMMA WrittenSet ==
  ASSUME NEW t \in Seq(Entries), NEW m \in Seq(Entries), NEW n \in Nat, n < Len(t), n <= Len(m), NEW w, Written(t, m, w, n),
         NEW j \in Jobs, j.kind = "set", WriteOK(t, m, n, j)
  PROVE  /\ NameOf(w, j.dev) \in {NameOf(m, j.dev), j.name}
         /\ n + 1 = Len(t) => NameOf(w, j.dev) = j.name
         /\ \E i \in 1..Len(t) : /\ FirstAt(t, j.dev, i) /\ t[i].name = j.name
                                 /\ \A k \in 1..(i - 1) : k <= Len(w) => w[k].dev # j.dev
  <1> DEFINE d == j.dev
  <1>1. /\ Len(t) \in Nat /\ Len(m) \in Nat /\ Len(w) \in Nat /\ Len(m) <= Len(w) /\ n + 1 \in 1..Len(w)
        /\ w[n + 1] = t[n + 1] /\ n + 1 \in 1..Len(t) /\ w \in Seq(Entries)
        /\ \A k \in 1..Len(w) : k # n + 1 => k \in 1..Len(m) /\ w[k] = m[k]
    BY LenProperties DEF Written
  <1>2. PICK p \in 1..Len(t) : /\ FirstAt(t, d, p) /\ t[p].name = j.name
                               /\ \A k \in 1..(p - 1) : k <= Len(m) => m[k].dev # d
    BY DEF WriteOK
  <1>3. t[p].dev = d /\ \A k \in 1..(p - 1) : t[k].dev # d
    BY <1>2 DEF FirstAt
  <1>4. \A i \in 1..n : m[i] = t[i]
    BY DEF WriteOK
  <1>5. ASSUME NEW k \in 1..(p - 1), k <= Len(w) PROVE w[k].dev # d
    <2>1. CASE k = n + 1
      BY <1>1, <1>3, <2>1
    <2>2. CASE k # n + 1
      BY <1>1, <1>2, <1>5, <2>2
    <2> QED BY <2>1, <2>2
  <1>6. CASE p <= n + 1
    <2>1. w[p] = t[p] /\ p \in 1..Len(w)
      BY <1>1, <1>4, <1>6
    <2>2. FirstAt(w, d, p)
      BY <1>1, <1>3, <1>5, <2>1 DEF FirstAt
    <2>3. NameOf(w, d) = j.name
      BY <1>1, <1>2, <2>1, <2>2, NameAtFirst
    <2> QED BY <1>2, <1>5, <2>3
  <1>7. CASE p > n + 1
    <2>1. t[n + 1].dev # d /\ (n + 1 <= Len(m) => m[n + 1].dev # d)
      BY <1>1, <1>2, <1>3, <1>7
    <2>2. Slots(m, d) = Slots(w, d) /\ \A k \in Slots(m, d) : m[k] = w[k]
      <3>1. \A k \in 1..Len(m) : m[k].dev = d => k \in 1..Len(w) /\ w[k] = m[k]
        BY <1>1, <2>1
      <3>2. \A k \in 1..Len(w) : w[k].dev = d => k \in 1..Len(m) /\ w[k] = m[k]
        BY <1>1, <2>1
      <3> QED BY <3>1, <3>2 DEF Slots
    <2>3. NameOf(w, d) = NameOf(m, d) /\ n + 1 # Len(t)
      BY <1>1, <1>7, <2>2, SameNames
    <2> QED BY <1>2, <1>5, <2>3
  <1> QED BY <1>1, <1>6, <1>7

LEMMA WrittenSound ==
  ASSUME NEW t \in Seq(Entries), NEW m \in Seq(Entries), NEW n \in Nat, n < Len(t), n <= Len(m), NEW w, Written(t, m, w, n),
         NEW j, WriteSound(t, m, j), Sound(m), \A i \in 1..n : m[i] = t[i]
  PROVE  /\ Sound(w) /\ WriteSound(t, w, j)
         /\ j.kind = "delete" /\ j.dev \in Devices =>
              /\ NameOf(w, j.dev) \in {NameOf(m, j.dev), NoName}
              /\ n + 1 = Len(t) => NameOf(w, j.dev) = NoName
  <1>1. /\ Len(t) \in Nat /\ Len(m) \in Nat /\ Len(w) \in Nat /\ Len(m) <= Len(w) /\ n + 1 \in 1..Len(w)
        /\ w[n + 1] = t[n + 1] /\ n + 1 \in 1..Len(t) /\ w \in Seq(Entries) /\ Len(m) <= Len(t) /\ Len(w) <= Len(t)
        /\ \A k \in 1..Len(w) : k # n + 1 => k \in 1..Len(m) /\ w[k] = m[k]
        /\ \A k \in 1..Len(m) : k # n + 1 => w[k] = m[k]
    BY LenProperties DEF Written, WriteSound
  <1>2. PICK i \in 1..Len(t) : \A k \in 1..Len(t) : k # i => k <= Len(m) /\ t[k] = m[k]
    BY DEF WriteSound
  <1>3. CASE i = n + 1
    <2>1. \A k \in 1..Len(w) : k \in 1..Len(t) /\ w[k] = t[k]
      BY <1>1, <1>2, <1>3
    <2> QED
      <3>1. Sound(w)
        BY <2>1 DEF WriteSound, Sound
      <3>2. WriteSound(t, w, j)
        <4>1. j.kind = "delete" => Len(w) = Len(t)
          BY <1>1 DEF WriteSound
        <4>2. \A k \in 1..Len(t) : k # i => k <= Len(w) /\ t[k] = w[k]
          BY <1>1, <1>2, <1>3
        <4> QED BY <1>1, <4>1, <4>2 DEF WriteSound
      <3>3. ASSUME j.kind = "delete" PROVE NameOf(w, j.dev) = NoName
        <4>1. \A k \in 1..Len(w) : w[k].dev # j.dev
          BY <2>1, <3>3 DEF WriteSound
        <4> QED BY <4>1, NameOfNobody
      <3> QED BY <3>1, <3>2, <3>3
  <1>4. CASE i # n + 1
    <2>1. n + 1 <= Len(m) /\ t[n + 1] = m[n + 1] /\ Len(w) = Len(m)
      BY <1>1, <1>2, <1>4 DEF Written
    <2>2. \A k \in 1..Len(w) : w[k] = m[k]
      BY <1>1, <2>1
    <2>3. Sound(w)
      BY <2>1, <2>2 DEF Sound
    <2>4. WriteSound(t, w, j)
      <3>1. j.kind = "delete" => Len(w) = Len(t)
        BY <2>1 DEF WriteSound
      <3>2. \A k \in 1..Len(t) : k # i => k <= Len(w) /\ t[k] = w[k]
        BY <1>1, <1>2, <2>1, <2>2
      <3> QED BY <1>1, <3>1, <3>2 DEF WriteSound
    <2>5. NameOf(w, j.dev) = NameOf(m, j.dev)
      <3>1. Slots(m, j.dev) = Slots(w, j.dev) /\ \A k \in Slots(m, j.dev) : m[k] = w[k]
        BY <2>1, <2>2 DEF Slots
      <3> QED BY <3>1, SameNames
    <2>6. ASSUME j.kind = "delete", n + 1 = Len(t) PROVE NameOf(w, j.dev) = NoName
      <3>1. \A k \in 1..Len(w) : k \in 1..Len(t) /\ w[k] = t[k]
        BY <1>1, <2>1, <2>2, <2>6
      <3>2. \A k \in 1..Len(w) : w[k].dev # j.dev
        BY <2>6, <3>1 DEF WriteSound
      <3> QED BY <3>2, NameOfNobody
    <2> QED BY <2>3, <2>4, <2>5, <2>6
  <1> QED BY <1>3, <1>4

\* The writing goes on, and the names of the other devices stay.
LEMMA WrittenOK ==
  ASSUME NEW t \in Seq(Entries), NEW m \in Seq(Entries), NEW n \in Nat, n < Len(t), NEW w, Written(t, m, w, n),
         NEW j \in Jobs, WriteOK(t, m, n, j)
  PROVE  WriteOK(t, w, n + 1, j) /\ \A d \in Devices \ {j.dev} : NameOf(w, d) = NameOf(m, d)
  <1>1. /\ Len(t) \in Nat /\ Len(m) \in Nat /\ Len(w) \in Nat /\ Len(m) <= Len(w) /\ n + 1 \in 1..Len(w) /\ n <= Len(m)
        /\ w[n + 1] = t[n + 1] /\ n + 1 \in 0..Len(t) /\ w \in Seq(Entries) /\ Len(t) <= Len(w) + 1
        /\ \A k \in 1..Len(w) : k # n + 1 => k \in 1..Len(m) /\ w[k] = m[k]
        /\ \A i \in 1..n : m[i] = t[i]
    BY LenProperties DEF Written, WriteOK
  <1>2. \A i \in 1..(n + 1) : w[i] = t[i]
    BY <1>1
  <1>3. ASSUME NEW d \in Devices \ {j.dev}
        PROVE  Collected(t, w, Len(w), d) /\ NameOf(w, d) = NameOf(m, d)
    <2>1. Collected(t, m, Len(m), d)
      BY DEF WriteOK
    <2>2. Collected(t, w, Len(w), d)
      BY <1>1, <2>1, WrittenCollected
    <2>3. NameOf(t, d) = NameOf(m, d) /\ NameOf(t, d) = NameOf(w, d)
      BY <1>1, <2>1, <2>2, CollectedNames
    <2> QED BY <2>2, <2>3
  <1>4. j.kind = "set" => \E i \in 1..Len(t) : /\ FirstAt(t, j.dev, i) /\ t[i].name = j.name
                                               /\ \A k \in 1..(i - 1) : k <= Len(w) => w[k].dev # j.dev
    BY <1>1, WrittenSet
  <1> QED BY <1>1, <1>2, <1>3, <1>4 DEF WriteOK

-----------------------------------------------------------------------------
LEMMA ReadableAll ==
  ASSUME NEW m \in Seq(Entries), Len(m) <= MaxEntries
  PROVE  Readable(m) = m
  <1>1. Len(m) \in Nat /\ MaxEntries \in Nat /\ (IF Len(m) < MaxEntries THEN Len(m) ELSE MaxEntries) = Len(m)
    BY LenProperties, EntriesAreCounted
  <1>2. SubSeq(m, 1, Len(m)) = m
    BY SubSeqFull
  <1> QED BY <1>1, <1>2 DEF Readable

LEMMA InitNamesInv == Init => NamesInv
  <1> SUFFICES ASSUME Init PROVE NamesInv
    OBVIOUS
  <1>1. NamesTyped
    <2>1. nv \in Seq(Entries) /\ scenario \in Scenarios /\ events = 0 /\ scenario.events \in 0..MaxEvents
      BY MemoriesAreTables, CallsAreSane DEF Init
    <2> QED BY <2>1 DEF Init, NamesTyped
  <1>2. CallsTyped
    <2>1. <<>> \in Seq(Entries)
      BY EmptySeq
    <2> QED BY <2>1 DEF Init, CallsTyped, CallTyped, CleanersFresh, Steps, Procs
  <1>3. OneChanges
    BY DEF Init, OneChanges, Changing
  <1>4. NamesKept
    <2>1. ASSUME Len(nv) <= MaxEntries PROVE Kept(nv, wanted, hurt)
      BY <1>1, <2>1, ReadableAll DEF Init, NamesTyped, Kept
    <2>2. hurt \/ Sound(nv)
      BY DEF Init
    <2>3. \A p \in Procs : Held(pc[p], job[p], tab[p], pos[p] - 1, nv, wanted, hurt)
      BY DEF Init, Held
    <2> QED BY <2>1, <2>2, <2>3 DEF NamesKept
  <1> QED BY <1>1, <1>2, <1>3, <1>4 DEF NamesInv

\* Steps that concern no call.
LEMMA OtherNamesInv ==
  ASSUME NamesInv, UNCHANGED <<scenario, events, nameVars, pc, job>>, pending' \subseteq pending
  PROVE  NamesInv'
  BY DEF nameVars, NamesInv, NamesTyped, CallsTyped, CallTyped, CleanersFresh, OneChanges, NamesKept, Changing, Changes

LEMMA IndicateNamesInv ==
  ASSUME NamesInv, NEW d \in Devices, NEW kind \in Kinds, Indicate(kind, d)
  PROVE  NamesInv'
  <1> DEFINE e == [no |-> events + 1, kind |-> kind, dev |-> d]
  <1>1. /\ UNCHANGED <<scenario, nameVars, pc, job>>
        /\ events < scenario.events /\ events' = events + 1 /\ pending' = pending \cup {e}
    BY DEF Indicate, lifeVars
  <1>2. NamesTyped'
    <2>1. scenario.events \in Nat
      BY CallsAreSane DEF NamesInv, NamesTyped
    <2>2. events' \in 0..scenario'.events
      BY <1>1, <2>1 DEF NamesInv, NamesTyped
    <2>3. pending' \subseteq [no : 1..events', kind : Kinds, dev : Devices]
      BY <1>1, <2>1 DEF NamesInv, NamesTyped
    <2>4. \A f, o \in pending' : f.no = o.no => f = o
      BY <1>1, <2>1 DEF NamesInv, NamesTyped
    <2> QED BY <1>1, <2>2, <2>3, <2>4 DEF NamesInv, NamesTyped, nameVars
  <1>3. CleanersFresh'
    <2> SUFFICES ASSUME NEW n \in Cleaners, pc[n] # "idle" PROVE n <= events + 1 /\ \A f \in pending' : f.no # n
      BY <1>1 DEF CleanersFresh, nameVars
    <2>1. n <= events /\ (\A f \in pending : f.no # n) /\ n \in Nat /\ events \in Nat
      BY DEF NamesInv, NamesTyped, CallsTyped, CleanersFresh, Cleaners
    <2> QED BY <1>1, <2>1
  <1>4. CallsTyped' /\ OneChanges' /\ NamesKept'
    BY <1>1, <1>3 DEF nameVars, NamesInv, CallsTyped, CallTyped, OneChanges, NamesKept, Changing, Changes
  <1> QED BY <1>2, <1>4 DEF NamesInv

\* A step that concerns the call of p only.
Untouched(q) == pc'[q] = pc[q] /\ job'[q] = job[q] /\ tab'[q] = tab[q] /\ pos'[q] = pos[q]
StepOf(p) ==
  /\ UNCHANGED <<scenario, events, hurt>>
  /\ DOMAIN pc' = Procs /\ DOMAIN job' = Procs /\ DOMAIN tab' = Procs /\ DOMAIN pos' = Procs
  /\ \A q \in Procs \ {p} : Untouched(q)

LEMMA StepTyped ==
  ASSUME NamesInv, NEW p \in Procs, StepOf(p), pending' = pending, pc[p] # "idle" \/ p \notin Cleaners,
         CallTyped(p)', nv' \in Seq(Entries), Len(nv) <= Len(nv'), DOMAIN wanted' = Devices
  PROVE  NamesTyped' /\ CallsTyped'
  <1>1. NamesTyped'
    BY DEF StepOf, NamesInv, NamesTyped
  <1>2. ASSUME NEW q \in Procs PROVE CallTyped(q)'
    <2>1. CASE q = p
      BY <2>1
    <2>2. CASE q # p
      BY <2>2 DEF StepOf, Untouched, NamesInv, CallsTyped, CallTyped, Changes
    <2> QED BY <2>1, <2>2
  <1>3. CleanersFresh'
    <2> SUFFICES ASSUME NEW n \in Cleaners, pc'[n] # "idle" PROVE n <= events /\ \A e \in pending : e.no # n
      BY DEF CleanersFresh, StepOf
    <2>1. n \in Procs
      BY DEF Procs
    <2>2. pc[n] # "idle"
      BY <2>1 DEF StepOf, Untouched
    <2> QED BY <2>2 DEF NamesInv, CallsTyped, CleanersFresh
  <1> QED BY <1>1, <1>2, <1>3 DEF CallsTyped, StepOf

\* No other call changes names.
AloneIn(p) == \A q \in Procs \ {p} : ~Changing(q)

LEMMA StepAlone ==
  ASSUME NamesInv, NEW p \in Procs, StepOf(p), ~mixed' => ~mixed, ~mixed' /\ Changing(p)' => AloneIn(p)
  PROVE  OneChanges'
  <1> SUFFICES ASSUME ~mixed', NEW q \in Procs, NEW r \in Procs, Changing(q)', Changing(r)' PROVE q = r
    BY DEF OneChanges
  <1>1. \A o \in Procs \ {p} : Changing(o)' => Changing(o)
    BY DEF StepOf, Untouched, Changing, Changes
  <1>2. CASE q # p /\ r # p
    BY <1>1, <1>2 DEF NamesInv, OneChanges
  <1>3. CASE q = p \/ r = p
    BY <1>1, <1>3 DEF AloneIn
  <1> QED BY <1>2, <1>3

LEMMA QuietStep ==
  ASSUME NamesInv, NEW p \in Procs, StepOf(p), pending' = pending, pc[p] # "idle" \/ p \notin Cleaners,
         CallTyped(p)', UNCHANGED <<nv, wanted>>,
         ~mixed' => ~mixed, ~mixed' /\ Changing(p)' => AloneIn(p),
         ~mixed' /\ Len(nv) <= MaxEntries => Held(pc'[p], job'[p], tab'[p], pos'[p] - 1, nv, wanted, hurt)
  PROVE  NamesInv'
  <1>1. NamesTyped' /\ CallsTyped'
    BY StepTyped DEF NamesInv, NamesTyped
  <1>2. OneChanges'
    BY StepAlone
  <1>3. NamesKept'
    <2> SUFFICES ASSUME ~mixed', Len(nv) <= MaxEntries
                 PROVE  /\ Kept(nv, wanted, hurt) /\ (hurt \/ Sound(nv))
                        /\ \A q \in Procs : Held(pc'[q], job'[q], tab'[q], pos'[q] - 1, nv, wanted, hurt)
      BY DEF NamesKept, StepOf
    <2>1. /\ Kept(nv, wanted, hurt) /\ (hurt \/ Sound(nv))
          /\ \A q \in Procs : Held(pc[q], job[q], tab[q], pos[q] - 1, nv, wanted, hurt)
      BY DEF NamesInv, NamesKept
    <2>2. ASSUME NEW q \in Procs \ {p} PROVE Held(pc'[q], job'[q], tab'[q], pos'[q] - 1, nv, wanted, hurt)
      BY <2>1 DEF StepOf, Untouched
    <2> QED BY <2>1, <2>2
  <1> QED BY <1>1, <1>2, <1>3 DEF NamesInv

\* A call that is not at the table of names has nothing in hand.
LEMMA RestingOK ==
  ASSUME NEW p, pc'[p] \notin {"read", "write"}, NEW j, NEW t, NEW n, NEW m, NEW w, NEW h
  PROVE  ~Changing(p)' /\ Held(pc'[p], j, t, n, m, w, h)
  BY DEF Changing, Held

LEMMA CallNamesInv ==
  ASSUME NamesInv, NEW u \in Users, Call(u)
  PROVE  NamesInv'
  <1>1. u \in Procs /\ u \notin Cleaners /\ CallTyped(u) /\ pc[u] = "idle"
    BY EventsAreCounted DEF Call, Procs, NamesInv, CallsTyped
  <1>2. StepOf(u) /\ pending' = pending /\ UNCHANGED <<nv, wanted, mixed>>
        /\ pc'[u] = "lock" /\ job'[u] = scenario.calls[u] /\ tab'[u] = tab[u] /\ pos'[u] = pos[u]
    BY <1>1 DEF Call, lifeVars, tableVars, nameVars, StepOf, Untouched, NamesInv, CallsTyped
  <1>3. job'[u] \in Jobs /\ (job'[u].kind # "set" => job'[u].name = NoName)
    BY <1>2, CallsAreSane DEF Call, NamesInv, NamesTyped
  <1>4. CallTyped(u)'
    BY <1>1, <1>2, <1>3 DEF CallTyped, Steps
  <1> QED BY <1>1, <1>2, <1>4, RestingOK, QuietStep

LEMMA LeaveMoves ==
  ASSUME NamesInv, NEW p \in Procs, NEW how, Leave(p, how), job' = job
  PROVE  /\ pc'[p] = how /\ tab'[p] = <<>> /\ pos'[p] = 1 /\ job'[p] = job[p]
         /\ DOMAIN pc' = Procs /\ DOMAIN job' = Procs /\ DOMAIN tab' = Procs /\ DOMAIN pos' = Procs
         /\ \A q \in Procs \ {p} : Untouched(q)
  BY DEF Leave, NamesInv, CallsTyped, Untouched

LEMMA LeftTyped ==
  ASSUME NEW p, pc[p] # "idle", CallTyped(p), pc'[p] \in {"failed", "done"}, tab'[p] = <<>>, pos'[p] = 1, job'[p] = job[p]
  PROVE  CallTyped(p)'
  <1>1. <<>> \in Seq(Entries)
    BY EmptySeq
  <1> QED BY <1>1 DEF CallTyped, Steps

LEMMA EnterNamesInv ==
  ASSUME NamesInv, NEW p \in Procs, Enter(p)
  PROVE  NamesInv'
  <1>1. /\ pc[p] = "lock" /\ CallTyped(p) /\ job' = job /\ pending' = pending
        /\ UNCHANGED <<scenario, events, hurt, nv, wanted>>
    BY DEF Enter, lifeVars, tableVars, NamesInv, CallsTyped
  <1>2. CASE life # "open"
    <2>1. Leave(p, "failed") /\ mixed' = mixed
      BY <1>2 DEF Enter
    <2>2. StepOf(p) /\ pc'[p] = "failed" /\ CallTyped(p)'
      BY <1>1, <2>1, LeaveMoves, LeftTyped DEF StepOf
    <2> QED BY <1>1, <2>1, <2>2, RestingOK, QuietStep
  <1>3. CASE life = "open"
    <2>1. /\ pc' = [pc EXCEPT ![p] = IF job[p].kind \in {"remove", "force"} THEN "ask" ELSE "read"]
          /\ mixed' = (mixed \/ \E q \in Procs \ {p} : pc[q] \in {"read", "write"} /\ Changes(q) /\ Changes(p))
          /\ UNCHANGED <<tab, pos>>
      BY <1>3 DEF Enter
    <2>2. StepOf(p)
      BY <1>1, <2>1 DEF StepOf, Untouched, NamesInv, CallsTyped
    <2>3. pc'[p] = (IF job[p].kind \in {"remove", "force"} THEN "ask" ELSE "read") /\ tab'[p] = <<>> /\ pos'[p] = 1 /\ job'[p] = job[p]
      BY <1>1, <2>1 DEF CallTyped, NamesInv, CallsTyped
    <2>4. CallTyped(p)'
      BY <1>1, <2>1, <2>3 DEF CallTyped, Steps
    <2>5. ~mixed' => ~mixed
      BY <2>1
    <2>6. ~mixed' /\ Changing(p)' => AloneIn(p)
      BY <1>1, <2>1 DEF Changing, Changes, AloneIn
    <2>7. Held(pc'[p], job'[p], tab'[p], pos'[p] - 1, nv, wanted, hurt)
      <3>1. ReadOK(<<>>, nv, 0) /\ ReadSound(<<>>, nv, 0)
        BY LenProperties DEF ReadOK, ReadSound, Collected, NamesInv, NamesTyped
      <3>2. pc'[p] # "write" /\ pos'[p] - 1 = 0
        BY <2>3
      <3> QED BY <2>3, <3>1, <3>2 DEF Held
    <2> QED BY <1>1, <2>2, <2>4, <2>5, <2>6, <2>7, QuietStep
  <1> QED BY <1>2, <1>3

LEMMA AskNamesInv ==
  ASSUME NamesInv, NEW p \in Procs, AskLeave(p) \/ Forget(p)
  PROVE  NamesInv'
  <1>1. /\ CallTyped(p) /\ pc[p] \in {"ask", "forget"} /\ pending' = pending
        /\ UNCHANGED <<scenario, events, hurt, nv, wanted, mixed, tab, pos>>
    BY DEF AskLeave, Forget, lifeVars, tableVars, nameVars, NamesInv, CallsTyped
  <1>2. /\ StepOf(p) /\ pc'[p] \in {"forget", "failed", "panic", "lock"}
        /\ pc'[p] # "lock" => job'[p] = job[p] /\ (pc'[p] = "forget" => pc[p] = "ask")
        /\ pc'[p] = "lock" => job'[p] = [job[p] EXCEPT !.kind = "delete"]
    BY <1>1 DEF AskLeave, Forget, StepOf, Untouched, NamesInv, CallsTyped
  <1>3. job[p] \in Jobs /\ job[p].kind \in {"remove", "force"} /\ job[p].name = NoName /\ tab[p] = <<>> /\ pos[p] = 1 /\ tab[p] \in Seq(Entries)
    BY <1>1 DEF CallTyped
  <1>4. pc'[p] = "lock" => job'[p] \in Jobs /\ job'[p].name = NoName
    BY <1>2, <1>3 DEF Jobs, CallKinds
  <1>5. CallTyped(p)'
    BY <1>1, <1>2, <1>3, <1>4 DEF CallTyped, Steps
  <1>6. pc'[p] \notin {"read", "write"}
    BY <1>2
  <1> QED BY <1>1, <1>2, <1>5, <1>6, RestingOK, QuietStep

LEMMA FailsNamesInv ==
  ASSUME NamesInv, NEW p \in Procs, RequestFails(p)
  PROVE  NamesInv'
  <1>1. /\ CallTyped(p) /\ pc[p] \in {"read", "write"} /\ pending' = pending /\ Leave(p, "failed") /\ job' = job
        /\ UNCHANGED <<scenario, events, hurt, nv, wanted, mixed>>
    BY DEF RequestFails, lifeVars, tableVars, NamesInv, CallsTyped
  <1>2. StepOf(p) /\ pc'[p] = "failed" /\ CallTyped(p)'
    BY <1>1, LeaveMoves, LeftTyped DEF StepOf
  <1> QED BY <1>1, <1>2, RestingOK, QuietStep

LEMMA ReadItemNamesInv ==
  ASSUME NamesInv, NEW p \in Procs, ReadItem(p)
  PROVE  NamesInv'
  <1> DEFINE t == tab[p]
             n == pos[p] - 1
             e == nv[pos[p]]
  <1>1. /\ CallTyped(p) /\ pc[p] = "read" /\ pending' = pending /\ pc' = pc /\ job' = job
        /\ UNCHANGED <<scenario, events, hurt, nv, wanted, mixed>>
        /\ tab' = [tab EXCEPT ![p] = IF e = Corrupt THEN t ELSE Append(t, e)]
        /\ pos' = [pos EXCEPT ![p] = @ + 1] /\ pos[p] <= Len(nv)
    BY DEF ReadItem, lifeVars, tableVars, NamesInv, CallsTyped
  <1>2. /\ t \in Seq(Entries) /\ pos[p] \in Nat \ {0} /\ n \in Nat /\ n + 1 = pos[p] /\ nv \in Seq(Entries)
        /\ n < Len(nv) /\ e \in Entries
    <2>1. t \in Seq(Entries) /\ pos[p] \in Nat \ {0} /\ nv \in Seq(Entries)
      BY <1>1 DEF CallTyped, NamesInv, NamesTyped
    <2>2. Len(nv) \in Nat /\ pos[p] \in 1..Len(nv)
      BY <1>1, <2>1, LenProperties
    <2> QED BY <2>1, <2>2, ElementOfSeq
  <1>3. /\ StepOf(p) /\ pos'[p] = pos[p] + 1 /\ pos'[p] - 1 = n + 1
        /\ tab'[p] = IF e = Corrupt THEN t ELSE Append(t, e)
    BY <1>1, <1>2 DEF StepOf, Untouched, NamesInv, CallsTyped
  <1>4. tab'[p] \in Seq(Entries)
    BY <1>2, <1>3, AppendProperties
  <1>5. CallTyped(p)'
    BY <1>1, <1>2, <1>3, <1>4 DEF CallTyped
  <1>6. ~mixed /\ Changing(p)' => AloneIn(p)
    BY <1>1 DEF Changing, Changes, AloneIn, NamesInv, OneChanges
  <1>7. ASSUME ~mixed, Len(nv) <= MaxEntries
        PROVE  Held(pc'[p], job'[p], tab'[p], pos'[p] - 1, nv, wanted, hurt)
    <2>1. Held("read", job[p], t, n, nv, wanted, hurt) /\ (hurt \/ Sound(nv))
      BY <1>1, <1>7 DEF NamesInv, NamesKept
    <2>2. ASSUME ReadOK(t, nv, n) PROVE ReadOK(tab'[p], nv, n + 1)
      BY <1>2, <1>3, <2>2, OneMoreItem
    <2>3. ASSUME ReadSound(t, nv, n), Sound(nv) PROVE ReadSound(tab'[p], nv, n + 1)
      <3>1. e # Corrupt /\ Len(t) = n /\ \A i \in 1..n : t[i] = nv[i]
        BY <1>2, <2>3, LenProperties DEF ReadSound, Sound
      <3>2. Len(Append(t, e)) = n + 1 /\ Append(t, e)[n + 1] = e /\ \A i \in 1..n : Append(t, e)[i] = t[i]
        BY <1>2, <3>1, AppendProperties
      <3>3. tab'[p] = Append(t, e)
        BY <1>3, <3>1
      <3>4. \A i \in 1..(n + 1) : tab'[p][i] = nv[i]
        BY <1>2, <3>1, <3>2, <3>3
      <3> QED BY <3>2, <3>3, <3>4 DEF ReadSound
    <2>4. ASSUME job[p].kind \in {"set", "delete"}
          PROVE  ReadOK(tab'[p], nv, n + 1) /\ (hurt \/ ReadSound(tab'[p], nv, n + 1))
      BY <2>1, <2>2, <2>3, <2>4 DEF Held
    <2> QED BY <1>1, <1>3, <2>4 DEF Held
  <1> QED BY <1>1, <1>3, <1>5, <1>6, <1>7, QuietStep

\* A device that left starts the deletion of its name.
LEMMA HandleNamesInv ==
  ASSUME NamesInv, NEW e \in pending, Handle(e)
  PROVE  NamesInv'
  <1>1. UNCHANGED <<scenario, events, nameVars>> /\ pending' = pending \ {e}
    BY DEF Handle, lifeVars
  <1>2. CASE e.kind # "leave"
    BY <1>1, <1>2, OtherNamesInv DEF Handle
  <1>3. CASE e.kind = "leave"
    <2> DEFINE p == e.no
    <2>1. /\ p \in 1..events /\ e.dev \in Devices /\ p \in Cleaners /\ p \in Procs
          /\ events \in Nat
      <3>1. scenario.events \in 0..MaxEvents /\ events \in 0..scenario.events /\ p \in 1..events /\ e.dev \in Devices
        BY CallsAreSane DEF NamesInv, NamesTyped
      <3> QED BY <3>1, EventsAreCounted DEF Cleaners, Procs
    <2>2. pc[p] = "idle" /\ CallTyped(p)
      BY <2>1 DEF NamesInv, CallsTyped, CleanersFresh
    <2>3. /\ pc' = [pc EXCEPT ![p] = "lock"] /\ job' = [job EXCEPT ![p] = Job("delete", e.dev, NoName)]
          /\ UNCHANGED <<tab, pos, nv, wanted, mixed, hurt>>
      BY <1>1, <1>3 DEF Handle, nameVars
    <2>4. StepOf(p) /\ pc'[p] = "lock" /\ job'[p] = Job("delete", e.dev, NoName)
      BY <1>1, <2>1, <2>3 DEF StepOf, Untouched, NamesInv, CallsTyped
    <2>5. CallTyped(p)'
      <3>1. job'[p] \in Jobs /\ job'[p].name = NoName
        BY <2>1, <2>4 DEF Job, Jobs, CallKinds
      <3> QED BY <2>2, <2>3, <2>4, <3>1 DEF CallTyped, Steps
    <2>6. \A q \in Procs : CallTyped(q)'
      BY <2>3, <2>4, <2>5 DEF StepOf, Untouched, NamesInv, CallsTyped, CallTyped, Changes
    <2>7. NamesTyped'
      BY <1>1, <2>3 DEF NamesInv, NamesTyped
    <2>8. CleanersFresh'
      <3> SUFFICES ASSUME NEW n \in Cleaners, pc'[n] # "idle" PROVE n <= events /\ \A o \in pending' : o.no # n
        BY <1>1 DEF CleanersFresh
      <3>1. CASE n = p
        BY <1>1, <2>1, <3>1 DEF NamesInv, NamesTyped
      <3>2. CASE n # p
        BY <1>1, <2>4, <3>2 DEF StepOf, Untouched, Procs, NamesInv, CallsTyped, CleanersFresh
      <3> QED BY <3>1, <3>2
    <2>9. \A q \in Procs : /\ pc'[q] \in {"read", "write"} => q # p /\ pc[q] = pc'[q]
                           /\ Held(pc[q], job[q], tab[q], pos[q] - 1, nv, wanted, hurt) =>
                                Held(pc'[q], job'[q], tab'[q], pos'[q] - 1, nv, wanted, hurt)
      BY <2>4 DEF StepOf, Untouched, Held
    <2>10. OneChanges'
      BY <2>3, <2>4, <2>9 DEF OneChanges, Changing, Changes, NamesInv, StepOf, Untouched
    <2>11. NamesKept'
      BY <2>3, <2>9 DEF NamesKept, NamesInv
    <2> QED BY <2>4, <2>6, <2>7, <2>8, <2>10, <2>11 DEF NamesInv, CallsTyped, StepOf
  <1> QED BY <1>2, <1>3

\* No other call has anything in hand that the one that changes could spoil.
LEMMA OthersRest ==
  ASSUME NamesInv, NEW p \in Procs, StepOf(p), ~mixed, Changing(p), NEW q \in Procs \ {p}, NEW m, NEW w, NEW h
  PROVE  Held(pc'[q], job'[q], tab'[q], pos'[q] - 1, m, w, h)
  <1>1. ~Changing(q)
    BY DEF NamesInv, OneChanges
  <1>2. pc[q] = "write" => Changes(q)
    BY DEF NamesInv, CallsTyped, CallTyped
  <1> QED BY <1>1, <1>2 DEF Changing, Changes, Held, StepOf, Untouched

LEMMA ReadEndsNamesInv ==
  ASSUME NamesInv, NEW p \in Procs, ReadEnds(p)
  PROVE  NamesInv'
  <1> DEFINE j == job[p]
             t == tab[p]
             n == pos[p] - 1
             gone == j.kind = "delete" /\ Slots(t, j.dev) = {}
             u == IF j.kind = "set" THEN WithName(t, j.dev, j.name) ELSE WithoutName(t, j.dev)
  <1>1. /\ CallTyped(p) /\ pc[p] = "read" /\ pending' = pending /\ job' = job
        /\ UNCHANGED <<scenario, events, hurt, nv, mixed>>
        /\ pos[p] > MaxEntries \/ pos[p] > Len(nv)
    BY DEF ReadEnds, lifeVars, tableVars, NamesInv, CallsTyped
  <1>2. /\ t \in Seq(Entries) /\ pos[p] \in Nat \ {0} /\ n \in Nat /\ n + 1 = pos[p] /\ nv \in Seq(Entries) /\ Len(nv) \in Nat
        /\ j \in Jobs /\ j.dev \in Devices /\ (j.kind # "set" => j.name = NoName) /\ j.kind \notin {"remove", "force"}
        /\ DOMAIN wanted = Devices
    BY <1>1, LenProperties DEF CallTyped, NamesInv, NamesTyped, Jobs
  <1>3. ~mixed /\ Len(nv) <= MaxEntries =>
          /\ Kept(nv, wanted, hurt) /\ (hurt \/ Sound(nv))
          /\ Held("read", j, t, n, nv, wanted, hurt)
    BY <1>1 DEF NamesInv, NamesKept
  <1>4. ~mixed /\ Len(nv) <= MaxEntries /\ j.kind \in {"set", "delete"} =>
          n = Len(nv) /\ ReadOK(t, nv, Len(nv)) /\ (hurt \/ ReadSound(t, nv, Len(nv)))
    <2> SUFFICES ASSUME ~mixed, Len(nv) <= MaxEntries, j.kind \in {"set", "delete"}
                 PROVE  n = Len(nv) /\ ReadOK(t, nv, Len(nv)) /\ (hurt \/ ReadSound(t, nv, Len(nv)))
      OBVIOUS
    <2>1. ReadOK(t, nv, n) /\ (hurt \/ ReadSound(t, nv, n))
      BY <1>3 DEF Held
    <2>2. n \in 0..Len(nv)
      BY <2>1 DEF ReadOK
    <2>3. n = Len(nv)
      BY <1>1, <1>2, <2>2, EntriesAreCounted
    <2> QED BY <2>1, <2>3
  <1> HIDE DEF u
  <1>5. CASE j.kind \in {"get", "list"} \/ gone
    <2>1. Leave(p, "done") /\ wanted' = IF gone THEN [wanted EXCEPT ![j.dev] = {NoName}] ELSE wanted
      BY <1>5 DEF ReadEnds
    <2>2. StepOf(p) /\ pc'[p] = "done" /\ CallTyped(p)'
      BY <1>1, <2>1, LeaveMoves, LeftTyped DEF StepOf
    <2>3. CASE ~gone
      BY <1>1, <2>1, <2>2, <2>3, RestingOK, QuietStep
    <2>4. CASE gone
      <3>1. DOMAIN wanted' = Devices /\ \A d \in Devices : wanted'[d] = IF d = j.dev THEN {NoName} ELSE wanted[d]
        BY <1>2, <2>1, <2>4
      <3>2. NamesTyped' /\ CallsTyped'
        BY <1>1, <1>2, <2>2, <3>1, StepTyped
      <3>3. OneChanges'
        BY <1>1, <2>2, RestingOK, StepAlone
      <3>4. ASSUME ~mixed, Len(nv) <= MaxEntries PROVE NameOf(nv, j.dev) = NoName
        <4>1. Collected(t, nv, Len(nv), j.dev)
          BY <1>2, <1>4, <2>4, <3>4 DEF ReadOK
        <4>2. NameOf(t, j.dev) = NoName
          BY <2>4 DEF NameOf
        <4> QED BY <1>2, <4>1, <4>2, CollectedNames
      <3>5. NamesKept'
        <4> SUFFICES ASSUME ~mixed, Len(nv) <= MaxEntries
                     PROVE  /\ Kept(nv, wanted', hurt) /\ (hurt \/ Sound(nv))
                            /\ \A q \in Procs : Held(pc'[q], job'[q], tab'[q], pos'[q] - 1, nv, wanted', hurt)
          BY <1>1 DEF NamesKept
        <4>1. Kept(nv, wanted', hurt)
          BY <1>3, <3>1, <3>4 DEF Kept
        <4>2. Changing(p)
          BY <1>1, <2>4 DEF Changing, Changes
        <4>3. \A q \in Procs \ {p} : Held(pc'[q], job'[q], tab'[q], pos'[q] - 1, nv, wanted', hurt)
          BY <2>2, <4>2, OthersRest
        <4>4. Held(pc'[p], job'[p], tab'[p], pos'[p] - 1, nv, wanted', hurt)
          BY <2>2, RestingOK
        <4> QED BY <1>3, <4>1, <4>3, <4>4
      <3> QED BY <3>2, <3>3, <3>5 DEF NamesInv
    <2> QED BY <2>3, <2>4
  <1>6. CASE ~(j.kind \in {"get", "list"} \/ gone)
    <2>1. /\ tab' = [tab EXCEPT ![p] = u] /\ pos' = [pos EXCEPT ![p] = 1]
          /\ wanted' = [wanted EXCEPT ![j.dev] = @ \cup {j.name}]
          /\ pc' = [pc EXCEPT ![p] = "write"]
      BY <1>6 DEF ReadEnds, u
    <2>2. j.kind \in {"set", "delete"} /\ (j.kind = "delete" => Slots(t, j.dev) # {})
      BY <1>2, <1>6 DEF Jobs, CallKinds
    <2>3. StepOf(p) /\ pc'[p] = "write" /\ tab'[p] = u /\ pos'[p] = 1 /\ job'[p] = j
      BY <1>1, <2>1 DEF StepOf, Untouched, NamesInv, CallsTyped
    <2>4. DOMAIN wanted' = Devices /\ \A d \in Devices : wanted'[d] = IF d = j.dev THEN wanted[d] \cup {j.name} ELSE wanted[d]
      BY <1>2, <2>1
    <2>5. u \in Seq(Entries) /\ Len(u) >= 1 /\ Len(u) <= Len(nv) + 1
      <3>0. Len(t) \in Nat /\ Len(t) <= Len(nv)
        BY <1>1, <1>2, LenProperties DEF CallTyped
      <3>1. CASE j.kind = "set"
        <4>1. j.name \in Names \cup {NoName}
          BY <1>2 DEF Jobs
        <4>2. PICK i \in 1..Len(u) : Renamed(t, u, j.dev, j.name, i)
          BY <1>2, <3>1, <4>1, WithNameRenames DEF u
        <4> QED BY <1>2, <3>0, <4>2, LenProperties DEF Renamed
      <3>2. CASE j.kind = "delete"
        <4>1. u = WithoutName(t, j.dev)
          BY <3>2 DEF u
        <4>2. u \in Seq(Entries) /\ Len(u) = Len(t) /\ \E i \in 1..Len(t) : FirstAt(t, j.dev, i)
          BY <1>2, <2>2, <3>2, <4>1, WithoutNameEmpties
        <4> QED BY <1>2, <3>0, <4>2, LenProperties
      <3> QED BY <2>2, <3>1, <3>2
    <2>6. CallTyped(p)'
      BY <1>1, <1>2, <2>2, <2>3, <2>5 DEF CallTyped, Changes, Steps
    <2>7. NamesTyped' /\ CallsTyped'
      BY <1>1, <1>2, <2>3, <2>4, <2>6, StepTyped
    <2>8. Changing(p)
      BY <1>1, <2>2 DEF Changing, Changes
    <2>9. OneChanges'
      BY <1>1, <2>3, <2>8, StepAlone DEF AloneIn, NamesInv, OneChanges
    <2>10. NamesKept'
      <3> SUFFICES ASSUME ~mixed, Len(nv) <= MaxEntries
                   PROVE  /\ Kept(nv, wanted', hurt) /\ (hurt \/ Sound(nv))
                          /\ \A q \in Procs : Held(pc'[q], job'[q], tab'[q], pos'[q] - 1, nv, wanted', hurt)
        BY <1>1 DEF NamesKept
      <3>1. Kept(nv, wanted', hurt)
        BY <1>3, <2>4 DEF Kept
      <3>2. \A q \in Procs \ {p} : Held(pc'[q], job'[q], tab'[q], pos'[q] - 1, nv, wanted', hurt)
        BY <2>3, <2>8, OthersRest
      <3>3. WriteOK(u, nv, 0, j) /\ (ReadSound(t, nv, Len(nv)) /\ Sound(nv) => WriteSound(u, nv, j))
        <4>1. ReadOK(t, nv, Len(nv))
          BY <1>4, <2>2
        <4>2. CASE j.kind = "set"
          <5>1. u = WithName(t, j.dev, j.name)
            BY <4>2 DEF u
          <5> QED BY <1>2, <4>1, <4>2, <5>1, SetBegins
        <4>3. CASE j.kind = "delete"
          <5>1. u = WithoutName(t, j.dev)
            BY <4>3 DEF u
          <5> QED BY <1>2, <2>2, <4>1, <4>3, <5>1, DeleteBegins
        <4> QED BY <2>2, <4>2, <4>3
      <3>4. hurt \/ WriteSound(u, nv, j)
        BY <1>3, <1>4, <2>2, <3>3
      <3>5. j.name \in wanted'[j.dev]
        BY <1>2, <2>4
      <3>6. Held("write", j, u, 0, nv, wanted', hurt)
        BY <3>3, <3>4, <3>5 DEF Held
      <3>7. Held(pc'[p], job'[p], tab'[p], pos'[p] - 1, nv, wanted', hurt)
        <4>1. pos'[p] - 1 = 0
          BY <2>3
        <4> QED BY <2>3, <3>6, <4>1
      <3> QED BY <1>3, <3>1, <3>2, <3>7
    <2> QED BY <2>7, <2>9, <2>10 DEF NamesInv
  <1> QED BY <1>5, <1>6

LEMMA WriteItemNamesInv ==
  ASSUME NamesInv, NEW p \in Procs, WriteItem(p)
  PROVE  NamesInv'
  <1> DEFINE j == job[p]
             t == tab[p]
             n == pos[p] - 1
             last == pos[p] = Len(t)
  <1>1. /\ CallTyped(p) /\ pc[p] = "write" /\ pending' = pending /\ job' = job
        /\ UNCHANGED <<scenario, events, hurt, mixed>>
        /\ nv' = [i \in 1..(IF pos[p] > Len(nv) THEN pos[p] ELSE Len(nv)) |-> IF i = pos[p] THEN t[i] ELSE nv[i]]
    BY DEF WriteItem, lifeVars, tableVars, NamesInv, CallsTyped
  <1>2. /\ t \in Seq(Entries) /\ pos[p] \in 1..Len(t) /\ n \in Nat /\ n + 1 = pos[p] /\ n < Len(t) /\ n <= Len(nv)
        /\ nv \in Seq(Entries) /\ Len(nv) \in Nat /\ Len(t) \in Nat /\ pos[p] <= Len(nv) + 1
        /\ j \in Jobs /\ j.dev \in Devices /\ (j.kind # "set" => j.name = NoName) /\ j.kind \in {"set", "delete"}
        /\ DOMAIN wanted = Devices /\ Changing(p)
    BY <1>1, LenProperties DEF CallTyped, NamesInv, NamesTyped, Jobs, Changes, Changing
  <1>3. Written(t, nv, nv', n)
    BY <1>1, <1>2, ItemWritten
  <1>4. nv' \in Seq(Entries) /\ Len(nv) <= Len(nv') /\ Len(nv') \in Nat /\ Len(t) <= Len(nv') + 1
    BY <1>1, <1>2, <1>3, LenProperties DEF Written, CallTyped
  <1>5. /\ wanted' = IF last THEN [wanted EXCEPT ![j.dev] = {j.name}] ELSE wanted
        /\ DOMAIN wanted' = Devices
        /\ \A d \in Devices : wanted'[d] = IF last /\ d = j.dev THEN {j.name} ELSE wanted[d]
    BY <1>2 DEF WriteItem
  <1>6. ASSUME last
        PROVE  StepOf(p) /\ CallTyped(p)' /\ pc'[p] = "done"
    <2>1. Leave(p, "done")
      BY <1>6 DEF WriteItem
    <2>2. StepOf(p) /\ pc'[p] = "done"
      BY <1>1, <2>1, LeaveMoves DEF StepOf
    <2>3. CallTyped(p)'
      BY <1>1, <2>1, <2>2, LeaveMoves, LeftTyped
    <2> QED BY <2>2, <2>3
  <1>7. ASSUME ~last
        PROVE  /\ StepOf(p) /\ CallTyped(p)'
               /\ pc'[p] = "write" /\ tab'[p] = t /\ job'[p] = j /\ pos'[p] = pos[p] + 1
    <2>1. pos' = [pos EXCEPT ![p] = @ + 1] /\ UNCHANGED <<pc, tab>>
      BY <1>7 DEF WriteItem
    <2>2. StepOf(p) /\ pos'[p] = pos[p] + 1 /\ pc'[p] = "write" /\ tab'[p] = t /\ job'[p] = j
      BY <1>1, <2>1 DEF StepOf, Untouched, NamesInv, CallsTyped
    <2>3. CallTyped(p)'
      BY <1>1, <1>2, <1>4, <1>7, <2>2 DEF CallTyped, Changes
    <2> QED BY <2>2, <2>3
  <1>8. StepOf(p) /\ CallTyped(p)' /\ (last => pc'[p] = "done")
        /\ (~last => pc'[p] = "write" /\ tab'[p] = t /\ job'[p] = j /\ pos'[p] = pos[p] + 1)
    BY <1>6, <1>7
  <1>9. NamesTyped' /\ CallsTyped'
    BY <1>1, <1>4, <1>5, <1>8, StepTyped
  <1>10. OneChanges'
    BY <1>1, <1>2, <1>8, StepAlone DEF AloneIn, NamesInv, OneChanges
  <1>11. NamesKept'
    <2> SUFFICES ASSUME ~mixed, Len(nv') <= MaxEntries
                 PROVE  /\ Kept(nv', wanted', hurt) /\ (hurt \/ Sound(nv'))
                        /\ \A q \in Procs : Held(pc'[q], job'[q], tab'[q], pos'[q] - 1, nv', wanted', hurt)
      BY <1>1 DEF NamesKept
    <2>1. Len(nv) <= MaxEntries
      BY <1>2, <1>4, EntriesAreCounted
    <2>2. /\ Kept(nv, wanted, hurt) /\ (hurt \/ Sound(nv))
          /\ Held("write", j, t, n, nv, wanted, hurt)
      BY <1>1, <2>1 DEF NamesInv, NamesKept
    <2>3. WriteOK(t, nv, n, j) /\ j.name \in wanted[j.dev] /\ (hurt \/ WriteSound(t, nv, j))
      BY <2>2 DEF Held
    <2>4. \A i \in 1..n : nv[i] = t[i]
      BY <2>3 DEF WriteOK
    <2>5. WriteOK(t, nv', n + 1, j) /\ \A d \in Devices \ {j.dev} : NameOf(nv', d) = NameOf(nv, d)
      BY <1>2, <1>3, <2>3, WrittenOK
    <2>6. ASSUME ~hurt
          PROVE  /\ Sound(nv') /\ WriteSound(t, nv', j)
                 /\ j.kind = "delete" => /\ NameOf(nv', j.dev) \in {NameOf(nv, j.dev), NoName}
                                         /\ last => NameOf(nv', j.dev) = NoName
      <3>1. Sound(nv) /\ WriteSound(t, nv, j)
        BY <2>2, <2>3, <2>6
      <3>2. n < Len(t) /\ n <= Len(nv) /\ (last => n + 1 = Len(t))
        BY <1>2
      <3>3. /\ Sound(nv') /\ WriteSound(t, nv', j)
            /\ j.kind = "delete" /\ j.dev \in Devices =>
                 /\ NameOf(nv', j.dev) \in {NameOf(nv, j.dev), NoName}
                 /\ n + 1 = Len(t) => NameOf(nv', j.dev) = NoName
        <4> HIDE DEF j, t, n
        <4> QED BY <1>2, <1>3, <2>4, <3>1, <3>2, WrittenSound
      <3> QED BY <1>2, <3>2, <3>3
    <2>7. j.kind = "set" => /\ NameOf(nv', j.dev) \in {NameOf(nv, j.dev), j.name}
                            /\ last => NameOf(nv', j.dev) = j.name
      BY <1>2, <1>3, <2>3, WrittenSet
    <2>8. ASSUME NEW d \in Devices PROVE NameOf(nv', d) \in wanted'[d] \/ (hurt /\ NoName \in wanted'[d])
      <3>1. NameOf(nv, d) \in wanted[d] \/ (hurt /\ NoName \in wanted[d])
        BY <2>2 DEF Kept
      <3>2. CASE d # j.dev
        BY <1>5, <2>5, <3>1, <3>2
      <3>3. CASE d = j.dev /\ j.kind = "set"
        BY <1>5, <2>3, <2>7, <3>1, <3>3
      <3>4. CASE d = j.dev /\ j.kind = "delete"
        <4>1. j.name = NoName /\ NoName \in wanted'[d]
          BY <1>2, <1>5, <2>3, <3>4
        <4>2. CASE hurt
          BY <4>1, <4>2
        <4>3. CASE ~hurt
          BY <1>5, <2>3, <2>6, <3>1, <3>4, <4>1, <4>3
        <4> QED BY <4>2, <4>3
      <3> QED BY <1>2, <3>2, <3>3, <3>4
    <2>9. \A q \in Procs \ {p} : Held(pc'[q], job'[q], tab'[q], pos'[q] - 1, nv', wanted', hurt)
      BY <1>2, <1>8, OthersRest
    <2>10. Held(pc'[p], job'[p], tab'[p], pos'[p] - 1, nv', wanted', hurt)
      <3>1. CASE last
        BY <1>8, <3>1 DEF Held
      <3>2. CASE ~last
        <4>1. pos'[p] - 1 = n + 1 /\ wanted' = wanted
          BY <1>2, <1>5, <1>8, <3>2
        <4>2. Held("write", j, t, n + 1, nv', wanted, hurt)
          BY <2>3, <2>5, <2>6 DEF Held
        <4> QED BY <1>8, <3>2, <4>1, <4>2
      <3> QED BY <3>1, <3>2
    <2> QED BY <2>2, <2>6, <2>8, <2>9, <2>10 DEF Kept
  <1> QED BY <1>9, <1>10, <1>11 DEF NamesInv

LEMMA NextNamesInv == NamesInv /\ [Next]_vars => NamesInv'
  <1> SUFFICES ASSUME NamesInv, [Next]_vars PROVE NamesInv'
    OBVIOUS
  <1>1. CASE \/ OpenBegin \/ OpenWire \/ OpenEnd \/ OpenFail \/ OpenAbandon
             \/ CloseBegin \/ CloseClient \/ CloseEnd \/ CancelContext \/ OnDeviceEvent
             \/ (\E e \in pending : Dropped(e)) \/ (\E n \in running : HandlerCalls(n) \/ HandlerEnds(n))
             \/ UNCHANGED vars
    <2>1. UNCHANGED <<scenario, events, nameVars, pc, job>> /\ pending' \subseteq pending
      BY <1>1 DEF OpenBegin, OpenWire, OpenEnd, OpenFail, OpenAbandon, CloseBegin, CloseClient, CloseEnd,
                  CancelContext, OnDeviceEvent, Dropped, HandlerCalls, HandlerEnds, vars, lifeVars, tableVars
    <2> QED BY <2>1, OtherNamesInv
  <1>2. CASE \E d \in Devices, kind \in Kinds : Indicate(kind, d)
    BY <1>2, IndicateNamesInv
  <1>3. CASE \E e \in pending : Handle(e)
    BY <1>3, HandleNamesInv
  <1>4. CASE \E u \in Users : Call(u)
    BY <1>4, CallNamesInv
  <1>5. CASE \E p \in Procs : Proceed(p)
    BY <1>5, EnterNamesInv, AskNamesInv, FailsNamesInv, ReadItemNamesInv, ReadEndsNamesInv, WriteItemNamesInv DEF Proceed
  <1> QED BY <1>1, <1>2, <1>3, <1>4, <1>5 DEF Next, Kinds

\* Whoever gives, deletes and reads names, and whichever of the requests that
\* read and write the table item by item fail (znp/device_names.go): as long
\* as no two changes overlap and the table is not full, each device has in the
\* memory the name it was last given or none if that was deleted, either of
\* the old and the new if a change failed half-way.
THEOREM NamesStay == Spec => []NamesAreAsAsked
  <1>1. NamesInv => NamesAreAsAsked
    <2> SUFFICES ASSUME NamesInv, NEW d \in Devices, ~mixed, Len(nv) <= MaxEntries
                 PROVE  NameOf(Readable(nv), d) \in wanted[d] \/ (hurt /\ NoName \in wanted[d])
      BY DEF NamesAreAsAsked
    <2>1. Readable(nv) = nv
      BY ReadableAll DEF NamesInv, NamesTyped
    <2> QED BY <2>1 DEF NamesInv, NamesKept, Kept
  <1> QED BY <1>1, InitNamesInv, NextNamesInv, PTL DEF Spec

=============================================================================
