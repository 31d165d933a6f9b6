---------------------------- MODULE StateManager ----------------------------
(***************************************************************************)
(* The table of devices the daemon serves (pkg/state/manager.go): joins    *)
(* and leaves from the adapter's event goroutines, renames from HTTP       *)
(* handlers, attribute reports from the listener (pkg/message/listener.go) *)
(* and the poller of sleepy devices, each in a goroutine of its own.       *)
(*                                                                         *)
(* What a method does under mgr.mu is one step.  The listener and the      *)
(* poller hold pointers to device objects across several of them; `life`   *)
(* tells the objects of one address apart.                                 *)
(***************************************************************************)
EXTENDS Naturals

CONSTANTS
  Devices,      \* IEEE addresses
  Addrs,        \* network addresses
  Names,        \* friendly names
  NoName,       \* the empty one
  Slugs, NoSlug,
  SlugFormat,   \* the slug of a name; of some, as "" or one emoji, the empty one
  DefaultSlug,  \* "device-" and the address
  NoDevice,
  Reports,      \* attribute reports; each arrives once
  SourceOf,     \* the network address a report comes from
  NoReport,
  MaxLives      \* bound: how often each device joins

\* A name may well have the default slug of a device.
ASSUME NameAssumption ==
  /\ NoName \in Names
  /\ SlugFormat \in [Names -> Slugs \cup {NoSlug}]
  /\ SlugFormat[NoName] = NoSlug
  /\ DefaultSlug \in [Devices -> Slugs]
  /\ \A d, e \in Devices : DefaultSlug[d] = DefaultSlug[e] => d = e
  /\ NoSlug \notin Slugs
  /\ NoDevice \notin Devices

ASSUME ReportAssumption ==
  /\ SourceOf \in [Reports -> Addrs]
  /\ NoReport \notin Reports
  /\ MaxLives \in [Devices -> Nat]

VARIABLES
  present,    \* the keys of mgr.devices
  name,       \* Name of the object of each
  nwk,        \* NwkAddr
  state,      \* State: the last report written to it
  life,       \* which object it is
  slugIndex,  \* the device a slug leads to
  contested,  \* history: default slugs that another device was named for while
              \* theirs was in the table
  sensors,    \* the last report in the sensor cache, which has no lock
  listener,   \* what the listener is doing
  arrived,    \* the reports it has taken
  last,       \* history: the last of them for each device since it joined
  caught,     \* history: those whose device joined between the listener's look-up
              \* and the one of UpdateState
  todo,       \* the devices the poller has not refreshed yet
  died        \* the program was ended by the runtime

index == <<slugIndex, contested>>
table == <<present, name, nwk, state, life, index>>
reporting == <<listener, arrived, last, caught>>
vars == <<table, sensors, reporting, todo, died>>

Idle == [stage |-> "idle"]
Found == [stage : {"found"}, report : Reports, device : Devices]
Holding == [stage : {"writing", "caching"}, report : Reports, device : Devices, object : Nat]

TypeOK ==
  /\ present \subseteq Devices
  /\ name \in [Devices -> Names]
  /\ nwk \in [Devices -> Addrs]
  /\ state \in [Devices -> Reports \cup {NoReport}]
  /\ life \in [Devices -> Nat]
  /\ slugIndex \in [Slugs -> Devices \cup {NoDevice}]
  /\ sensors \in [Devices -> Reports \cup {NoReport}]
  /\ contested \subseteq Slugs
  /\ listener \in {Idle} \cup Found \cup Holding
  /\ arrived \subseteq Reports
  /\ last \in [Devices -> Reports \cup {NoReport}]
  /\ caught \subseteq Reports
  /\ todo \subseteq Devices
  /\ died \in BOOLEAN

Init ==
  /\ present = {}
  /\ name = [d \in Devices |-> NoName]
  /\ nwk \in {[d \in Devices |-> a] : a \in Addrs}
  /\ state = [d \in Devices |-> NoReport]
  /\ life = [d \in Devices |-> 0]
  /\ slugIndex = [s \in Slugs |-> NoDevice]
  /\ sensors = [d \in Devices |-> NoReport]
  /\ listener = Idle
  /\ contested = {}
  /\ arrived = {}
  /\ last = [d \in Devices |-> NoReport]
  /\ caught = {}
  /\ todo = {}
  /\ died = FALSE

-----------------------------------------------------------------------------
(***************************************************************************)
(* Slugs                                                                   *)
(***************************************************************************)
\* DeviceState.Slug
Slug(d) == IF name[d] = NoName THEN DefaultSlug[d] ELSE SlugFormat[name[d]]

\* The slug SetDeviceName chooses for d and the name n.
SlugFor(d, n) == IF SlugFormat[n] = NoSlug THEN DefaultSlug[d] ELSE SlugFormat[n]

\* The slugs that are the default of one device and the name's of another.
DoublyShown ==
  {DefaultSlug[e] : e \in {f \in present :
     \E d \in present \ {f} : name[d] # NoName /\ SlugFormat[name[d]] = DefaultSlug[f]}}

\* The index without the slug s, which may be empty.
Unindexed(s) == [t \in Slugs |-> IF t = s THEN NoDevice ELSE slugIndex[t]]

At(stage) == listener.stage = stage
GoOn(stage) == listener' = [listener EXCEPT !.stage = stage]

-----------------------------------------------------------------------------
(***************************************************************************)
(* Devices come and go                                                     *)
(***************************************************************************)

\* AddDevice with one device, PopulateDevices with those of them that are new.
AddDevices(D, at) ==
  /\ D \cap present = {}
  /\ \A d \in D : life[d] < MaxLives[d]
  /\ present' = present \cup D
  /\ name' = [d \in Devices |-> IF d \in D THEN NoName ELSE name[d]]
  /\ nwk' = [d \in Devices |-> IF d \in D THEN at[d] ELSE nwk[d]]
  /\ state' = [d \in Devices |-> IF d \in D THEN NoReport ELSE state[d]]
  /\ life' = [d \in Devices |-> IF d \in D THEN life[d] + 1 ELSE life[d]]
  /\ slugIndex' = [s \in Slugs |->
       IF \E d \in D : s = DefaultSlug[d] THEN CHOOSE d \in D : s = DefaultSlug[d]
       ELSE slugIndex[s]]
  /\ contested' = contested \cup DoublyShown'
  /\ last' = [d \in Devices |-> IF d \in D THEN NoReport ELSE last[d]]
  /\ caught' = caught \cup
       IF At("found") /\ listener.device \in D THEN {listener.report} ELSE {}
  /\ UNCHANGED <<sensors, listener, arrived, todo, died>>

\* The sensor cache is a map without a lock: to delete from it while the
\* listener writes to it may end the program.
RemoveDevice(d) ==
  /\ d \in present
  /\ present' = present \ {d}
  /\ slugIndex' = Unindexed(Slug(d))
  /\ UNCHANGED contested
  /\ sensors' = [sensors EXCEPT ![d] = NoReport]
  /\ died' \in IF listener.stage = "caching" THEN BOOLEAN ELSE {FALSE}
  /\ UNCHANGED <<name, nwk, state, life, reporting, todo>>

UpdateNwkAddr(d, a) ==
  /\ d \in present
  /\ nwk' = [nwk EXCEPT ![d] = a]
  /\ UNCHANGED <<present, name, state, life, index, sensors, reporting, todo, died>>

-----------------------------------------------------------------------------
(***************************************************************************)
(* SetDeviceName.  SetDeviceNameByIdentifier looks the address up first,   *)
(* in a critical section of its own, and then is a call of this with an    *)
(* address that may be any by now.                                         *)
(***************************************************************************)
InUse(d, s) == s \in Slugs /\ slugIndex[s] \notin {d, NoDevice}

SetName(d, n) == d \in present /\ name' = [name EXCEPT ![d] = n]

SameSlug(d, n) ==
  /\ Slug(d) = SlugFor(d, n)
  /\ SetName(d, n)
  /\ UNCHANGED slugIndex

\* The name is cleared, whatever it was, and the index left alone.
Conflict(d, n) ==
  /\ Slug(d) # SlugFor(d, n)
  /\ InUse(d, SlugFor(d, n))
  /\ SetName(d, NoName)
  /\ UNCHANGED slugIndex

\* Mutant: the test for a conflict is forgotten.
NewSlug_Unchecked(d, n) ==
  /\ Slug(d) # SlugFor(d, n)
  /\ SetName(d, n)
  /\ slugIndex' = [Unindexed(Slug(d)) EXCEPT ![SlugFor(d, n)] = d]

\* Mutant: the slug to delete is computed after the name was set.
NewSlug_DeletesNew(d, n) ==
  /\ Slug(d) # SlugFor(d, n)
  /\ ~InUse(d, SlugFor(d, n))
  /\ SetName(d, n)
  /\ slugIndex' = Unindexed(SlugFor(d, n))

NewSlug(d, n) ==
  /\ Slug(d) # SlugFor(d, n)
  /\ ~InUse(d, SlugFor(d, n))
  /\ SetName(d, n)
  /\ slugIndex' = [Unindexed(Slug(d)) EXCEPT ![SlugFor(d, n)] = d]

SetDeviceName(d, n) ==
  /\ SameSlug(d, n) \/ Conflict(d, n) \/ NewSlug(d, n)
  /\ UNCHANGED <<present, nwk, state, life, sensors, reporting, todo, died>>
  /\ contested' = contested \cup DoublyShown'

-----------------------------------------------------------------------------
(***************************************************************************)
(* The listener.  It finds the device of a report by network address;      *)
(* UpdateState looks the object up by IEEE address, writes to the object   *)
(* and then to the sensor cache.                                           *)
(***************************************************************************)
\* Of two devices with one network address either may be found.
TakeReport(r) ==
  LET senders == {d \in present : nwk[d] = SourceOf[r]}
  IN  /\ At("idle")
      /\ r \notin arrived
      /\ arrived' = arrived \cup {r}
      /\ \/ senders = {} /\ UNCHANGED listener
            /\ UNCHANGED last
         \/ \E d \in senders :
              /\ listener' = [stage |-> "found", report |-> r, device |-> d]
              /\ last' = [last EXCEPT ![d] = r]
      /\ UNCHANGED <<table, sensors, caught, todo, died>>

FindObject ==
  /\ At("found")
  /\ IF listener.device \in present
     THEN listener' = [stage |-> "writing", report |-> listener.report,
                       device |-> listener.device, object |-> life[listener.device]]
     ELSE listener' = Idle
  /\ UNCHANGED <<table, sensors, arrived, last, caught, todo, died>>

\* Mutant: the object is looked up again when it is written to.
WriteState_ByAddress ==
  /\ At("writing")
  /\ GoOn("caching")
  /\ state' = [state EXCEPT ![listener.device] = listener.report]
  /\ UNCHANGED <<present, name, nwk, life, index, sensors, arrived, last, caught, todo, died>>

\* A write to an object that has left the table is not seen by anybody.
WriteState ==
  LET d == listener.device
      r == listener.report
  IN  /\ At("writing")
      /\ GoOn("caching")
      /\ state' = IF listener.object = life[d] THEN [state EXCEPT ![d] = r] ELSE state
      /\ UNCHANGED <<present, name, nwk, life, index, sensors, arrived, last, caught, todo, died>>

CacheSensors ==
  /\ At("caching")
  /\ sensors' = [sensors EXCEPT ![listener.device] = listener.report]
  /\ listener' = Idle
  /\ UNCHANGED <<table, arrived, last, caught, todo, died>>

-----------------------------------------------------------------------------
(***************************************************************************)
(* The poller collects the battery-powered devices and refreshes them one  *)
(* by one; RefreshDevice reads through the pointer before it tests whether *)
(* the address was in the table.                                           *)
(***************************************************************************)
StartPoll(D) ==
  /\ todo = {}
  /\ todo' = D
  /\ UNCHANGED <<table, sensors, reporting, died>>

RefreshDevice(d) ==
  /\ d \in todo
  /\ todo' = todo \ {d}
  /\ died' = (d \notin present)
  /\ UNCHANGED <<table, sensors, reporting>>

-----------------------------------------------------------------------------
Next ==
  /\ ~died
  /\ \/ \E D \in SUBSET Devices \ {{}}, at \in [Devices -> Addrs] : AddDevices(D, at)
     \/ \E d \in Devices :
          \/ RemoveDevice(d)
          \/ \E a \in Addrs : UpdateNwkAddr(d, a)
          \/ \E n \in Names : SetDeviceName(d, n)
          \/ RefreshDevice(d)
     \/ \E r \in Reports : TakeReport(r)
     \/ FindObject \/ WriteState \/ CacheSensors
     \/ \E D \in SUBSET present : StartPoll(D)

Spec == Init /\ [][Next]_vars

-----------------------------------------------------------------------------
(***************************************************************************)
(* Properties                                                              *)
(***************************************************************************)
\* GetDeviceByIdentifier with a slug.
Find(s) == IF s \in Slugs /\ slugIndex[s] \in present THEN slugIndex[s] ELSE NoDevice

\* manager.go:183, "generates a unique slug": a device that shows another slug
\* than its default one is found under it, whatever others join, leave or are
\* renamed and whatever renames fail, unless it is the default slug of a device
\* that was in the table at the same time: that one, when it joins or goes back
\* to no name, shows it unchecked and takes it along when it leaves.
NamedDeviceIsFound ==
  \A d \in present :
    Slug(d) \notin contested \cup {NoSlug, DefaultSlug[d]} => Find(Slug(d)) = d

\* Two devices show the same slug only when it is empty, or the default slug of
\* a device that was in the table while another was named for it.
SlugsDiffer ==
  \A d, e \in present :
    Slug(d) = Slug(e) /\ Slug(d) \notin contested \cup {NoSlug} => d = e

\* The slug a device shows, once it leads to it, goes on doing so until the
\* device is renamed or leaves, with the same exception.
SlugsStay ==
  [][\A d \in present \cap present' :
       /\ Slug(d) \in Slugs \ contested'
       /\ slugIndex[Slug(d)] = d
       /\ slugIndex'[Slug(d)] # d
       => name'[d] # name[d]]_vars

\* A device shows the last report the listener took for it since it joined, and
\* none if there was none: no report is lost or overtaken, and what was written
\* to the object of an earlier life is gone with it.  The exception is a report
\* whose device left and joined again between GetDeviceByNwkAddr (listener.go:79)
\* and UpdateState, which looks the address up once more (manager.go:261).
StateOfThisLife ==
  \A d \in present :
    (listener.stage \in {"found", "writing"} => listener.device # d) =>
      state[d] = last[d] \/ (last[d] = NoReport /\ state[d] \in caught)

=============================================================================
