--------------------------- MODULE StateEventProofs ---------------------------
(***************************************************************************)
(* Proofs about what the rest of the program learns of the network: the    *)
(* table of devices and its slug index, for every set of devices, names    *)
(* and reports; and the events of the bus, for every number of subscribers *)
(* and events and every capacity of their channels.                        *)
(***************************************************************************)
EXTENDS StateManager, EventDelivery, WellFoundedInduction, TLAPS

-----------------------------------------------------------------------------
(***************************************************************************)
(* The state manager                                                       *)
(***************************************************************************)
\* The default slug of a device in the table leads to it or nowhere, if no
\* other was named for it meanwhile; and whoever is named so has been noted.
DefaultsKept ==
  \A d \in present :
    DefaultSlug[d] \notin contested => slugIndex[DefaultSlug[d]] \in {d, NoDevice}

ContestsNoted == DoublyShown \subseteq contested

IndexInv == TypeOK /\ DefaultsKept /\ ContestsNoted /\ NamedDeviceIsFound

\* What d is to show once the report r has been written to it.
Due(d, r) == last[d] = r \/ (last[d] = NoReport /\ r \in caught)

\* The report on its way to the object of d, or to one that is gone already.
ReportOnItsWay ==
  LET d == listener.device
      r == listener.report
  IN  /\ listener.stage = "found" /\ d \in present => Due(d, r)
      /\ listener.stage = "writing" =>
           /\ listener.object <= life[d]
           /\ d \in present =>
                IF listener.object = life[d] THEN Due(d, r)
                                             ELSE state[d] = NoReport /\ last[d] = NoReport

IInv == IndexInv /\ ReportOnItsWay /\ StateOfThisLife

-----------------------------------------------------------------------------
LEMMA SlugTypes ==
  ASSUME TypeOK, NEW d \in present
  PROVE  /\ d \in Devices /\ d # NoDevice
         /\ name[d] \in Names
         /\ DefaultSlug[d] \in Slugs
         /\ Slug(d) \in Slugs \cup {NoSlug}
  BY NameAssumption DEF TypeOK, Slug

LEMMA DistinctSlugs == IndexInv => SlugsDiffer
  <1> SUFFICES ASSUME IndexInv, NEW d \in present, NEW e \in present,
                      Slug(d) = Slug(e), Slug(d) \notin contested \cup {NoSlug}, d # e
               PROVE  FALSE
    BY DEF SlugsDiffer
  <1> USE DEF IndexInv
  <1>1. DefaultSlug[d] # DefaultSlug[e]
    BY SlugTypes, NameAssumption
  <1>2. ASSUME NEW f \in present, NEW g \in present, f # g, Slug(f) = DefaultSlug[f],
               Slug(g) = Slug(f), DefaultSlug[g] # DefaultSlug[f]
        PROVE  Slug(f) \in contested
    <2>1. name[g] # NoName /\ SlugFormat[name[g]] = DefaultSlug[f]
      BY <1>2 DEF Slug
    <2> QED BY <1>2, <2>1 DEF ContestsNoted, DoublyShown
  <1>3. Slug(d) # DefaultSlug[d] /\ Slug(e) # DefaultSlug[e]
    BY <1>1, <1>2
  <1> QED BY <1>3 DEF NamedDeviceIsFound

\* The slug a device shows leads to it or, if it is the default one, nowhere:
\* deleting the slug of a device does not hurt another one.
LEMMA OwnSlug ==
  ASSUME IndexInv, NEW d \in present, Slug(d) \notin contested \cup {NoSlug}
  PROVE  Slug(d) \in Slugs /\ slugIndex[Slug(d)] \in {d, NoDevice}
  <1>1. Slug(d) \in Slugs /\ d # NoDevice
    BY SlugTypes DEF IndexInv
  <1>2. CASE Slug(d) = DefaultSlug[d]
    BY <1>1, <1>2 DEF IndexInv, DefaultsKept
  <1>3. CASE Slug(d) # DefaultSlug[d]
    BY <1>1, <1>3 DEF IndexInv, NamedDeviceIsFound, Find
  <1> QED BY <1>1, <1>2, <1>3

LEMMA SlugForInSlugs ==
  ASSUME NEW d \in Devices, NEW n \in Names
  PROVE  SlugFor(d, n) \in Slugs
  BY NameAssumption DEF SlugFor

LEMMA InitIInv == Init => IInv
  <1> SUFFICES ASSUME Init
               PROVE  IInv
    OBVIOUS
  <1>1. TypeOK
    BY NameAssumption DEF Init, TypeOK
  <1>2. DefaultsKept /\ ContestsNoted
    BY DEF Init, DefaultsKept, ContestsNoted, DoublyShown
  <1>3. NamedDeviceIsFound /\ StateOfThisLife
    BY DEF Init, NamedDeviceIsFound, StateOfThisLife
  <1>4. ReportOnItsWay
    BY DEF Init, ReportOnItsWay, Idle
  <1> QED BY <1>1, <1>2, <1>3, <1>4 DEF IInv, IndexInv

-----------------------------------------------------------------------------
(***************************************************************************)
(* The index                                                               *)
(***************************************************************************)
LEMMA ContestedType ==
  ASSUME present' \subseteq Devices
  PROVE  DoublyShown' \subseteq Slugs
  BY NameAssumption DEF DoublyShown

LEMMA AddDevicesIndex ==
  ASSUME IndexInv, NEW D \in SUBSET Devices, NEW at \in [Devices -> Addrs], AddDevices(D, at)
  PROVE  IndexInv'
  <1> USE DEF IndexInv
  <1>1. \A d \in D : (CHOOSE e \in D : DefaultSlug[d] = DefaultSlug[e]) = d
    BY NameAssumption
  <1>2. \A s \in Slugs : \/ slugIndex'[s] = slugIndex[s] /\ \A d \in D : s # DefaultSlug[d]
                         \/ \E d \in D : s = DefaultSlug[d] /\ slugIndex'[s] = d
    BY <1>1 DEF AddDevices
  <1>3. present' = present \cup D /\ present \subseteq Devices /\ present' \subseteq Devices
    BY DEF AddDevices, TypeOK
  <1>4. contested \subseteq contested' /\ DoublyShown' \subseteq contested'
    BY DEF AddDevices
  <1>5. TypeOK'
    <2>1. slugIndex' \in [Slugs -> Devices \cup {NoDevice}]
      BY <1>2 DEF AddDevices, TypeOK
    <2>2. contested' \subseteq Slugs
      BY <1>3, ContestedType DEF AddDevices, TypeOK
    <2>3. caught' \subseteq Reports
      BY DEF AddDevices, TypeOK, At, Found, Holding, Idle
    <2>4. life' \in [Devices -> Nat] /\ last' \in [Devices -> Reports \cup {NoReport}]
      BY DEF AddDevices, TypeOK
    <2>5. name' \in [Devices -> Names] /\ nwk' \in [Devices -> Addrs]
      BY NameAssumption DEF AddDevices, TypeOK
    <2>6. state' \in [Devices -> Reports \cup {NoReport}]
      BY DEF AddDevices, TypeOK
    <2>7. UNCHANGED <<sensors, listener, arrived, todo, died>>
      BY DEF AddDevices
    <2> QED BY <1>3, <2>1, <2>2, <2>3, <2>4, <2>5, <2>6, <2>7 DEF TypeOK
  <1>6. DefaultsKept'
    <2> SUFFICES ASSUME NEW d \in present', DefaultSlug[d] \notin contested'
                 PROVE  slugIndex'[DefaultSlug[d]] \in {d, NoDevice}
      BY DEF DefaultsKept
    <2>1. DefaultSlug[d] \in Slugs /\ \A e \in D : DefaultSlug[e] = DefaultSlug[d] => e = d
      BY <1>3, NameAssumption
    <2> QED BY <1>2, <1>3, <1>4, <2>1 DEF DefaultsKept
  <1>7. NamedDeviceIsFound'
    <2> SUFFICES ASSUME NEW d \in present',
                        Slug(d)' \notin contested' \cup {NoSlug, DefaultSlug[d]}
                 PROVE  Find(Slug(d))' = d
      BY DEF NamedDeviceIsFound
    <2>1. d \notin D /\ d \in present /\ d \in Devices /\ name'[d] = name[d]
      BY <1>3 DEF AddDevices, Slug
    <2>2. /\ Slug(d)' = Slug(d) /\ Slug(d) = SlugFormat[name[d]]
          /\ Slug(d) \in Slugs /\ name[d] # NoName
      BY <2>1, SlugTypes DEF Slug
    <2>3. \A e \in D : Slug(d) # DefaultSlug[e]
      BY <1>3, <1>4, <2>1, <2>2 DEF DoublyShown
    <2>4. slugIndex'[Slug(d)] = slugIndex[Slug(d)]
      BY <1>2, <2>2, <2>3
    <2>5. slugIndex[Slug(d)] = d
      BY <1>4, <2>1, <2>2, SlugTypes DEF NamedDeviceIsFound, Find
    <2> QED BY <1>3, <2>1, <2>2, <2>4, <2>5 DEF Find
  <1> QED BY <1>4, <1>5, <1>6, <1>7 DEF ContestsNoted

LEMMA RemoveDeviceIndex ==
  ASSUME IndexInv, NEW d \in Devices, RemoveDevice(d)
  PROVE  IndexInv'
  <1> USE DEF IndexInv
  <1>1. TypeOK'
    BY DEF RemoveDevice, TypeOK, Unindexed, reporting
  <1>2. DefaultsKept'
    BY SlugTypes DEF RemoveDevice, DefaultsKept, Unindexed
  <1>3. ContestsNoted'
    BY DEF RemoveDevice, ContestsNoted, DoublyShown
  <1>4. NamedDeviceIsFound'
    <2> SUFFICES ASSUME NEW e \in present',
                        Slug(e)' \notin contested' \cup {NoSlug, DefaultSlug[e]}
                 PROVE  Find(Slug(e))' = e
      BY DEF NamedDeviceIsFound
    <2>1. e \in present /\ e # d /\ d \in present /\ Slug(e)' = Slug(e) /\ contested' = contested
      BY DEF RemoveDevice, Slug
    <2>2. Slug(e) \in Slugs /\ slugIndex[Slug(e)] = e
      BY <2>1, SlugTypes DEF NamedDeviceIsFound, Find
    <2>3. Slug(e) # Slug(d)
      BY <2>1, DistinctSlugs DEF SlugsDiffer
    <2> QED BY <2>1, <2>2, <2>3 DEF Find, RemoveDevice, Unindexed
  <1> QED BY <1>1, <1>2, <1>3, <1>4

LEMMA SetDeviceNameIndex ==
  ASSUME IndexInv, NEW d \in Devices, NEW n \in Names, SetDeviceName(d, n)
  PROVE  IndexInv'
  <1> USE DEF IndexInv
  <1> DEFINE new == SlugFor(d, n)
  <1>1. new \in Slugs
    BY SlugForInSlugs
  <1>2. /\ d \in present /\ present' = present /\ present \subseteq Devices
        /\ \E m \in Names : name' = [name EXCEPT ![d] = m]
        /\ UNCHANGED <<nwk, state, life, sensors, reporting, todo, died>>
        /\ contested' = contested \cup DoublyShown'
    BY NameAssumption
    DEF SetDeviceName, SameSlug, Conflict, NewSlug, SetName, TypeOK
  <1>3. slugIndex' \in [Slugs -> Devices \cup {NoDevice}]
    BY <1>1 DEF SetDeviceName, SameSlug, Conflict, NewSlug, TypeOK, Unindexed
  <1>4. TypeOK'
    <2>1. contested' \subseteq Slugs
      BY <1>2, ContestedType DEF TypeOK
    <2> QED BY <1>2, <1>3, <2>1 DEF TypeOK, reporting
  <1>5. ASSUME NEW e \in present, e # d, Slug(e) \notin contested \cup {NoSlug, DefaultSlug[e]}
        PROVE  Slug(e) \in Slugs /\ slugIndex'[Slug(e)] = e
    <2>1. Slug(e) \in Slugs /\ slugIndex[Slug(e)] = e /\ e # NoDevice
      BY <1>5, SlugTypes DEF NamedDeviceIsFound, Find
    <2>2. CASE NewSlug(d, n)
      <3>1. Slug(e) # Slug(d)
        BY <1>2, <1>5, DistinctSlugs DEF SlugsDiffer
      <3>2. Slug(e) # new
        BY <1>5, <2>1, <2>2 DEF NewSlug, InUse
      <3> QED BY <1>1, <2>1, <2>2, <3>1, <3>2 DEF NewSlug, Unindexed
    <2> QED BY <2>1, <2>2 DEF SetDeviceName, SameSlug, Conflict
  <1>6. NamedDeviceIsFound'
    <2> SUFFICES ASSUME NEW e \in present',
                        Slug(e)' \notin contested' \cup {NoSlug, DefaultSlug[e]}
                 PROVE  Find(Slug(e))' = e
      BY DEF NamedDeviceIsFound
    <2>1. CASE e # d
      <3>1. e \in present /\ Slug(e)' = Slug(e) /\ Slug(e) \notin contested
        BY <1>2, <2>1 DEF Slug, TypeOK
      <3> QED BY <1>2, <1>5, <2>1, <3>1 DEF Find
    <2>2. CASE e = d /\ SameSlug(d, n)
      <3>1. name'[d] = n /\ slugIndex' = slugIndex /\ Slug(d) = new
        BY <2>2 DEF SameSlug, SetName, TypeOK
      <3>2. Slug(d)' = new
        BY <2>2, <3>1 DEF Slug, SlugFor
      <3>3. Find(Slug(d)) = d
        BY <1>2, <2>2, <3>1, <3>2 DEF NamedDeviceIsFound
      <3> QED BY <1>1, <1>2, <2>2, <3>1, <3>2, <3>3 DEF Find
    <2>3. CASE e = d /\ Conflict(d, n)
      <3>1. name'[d] = NoName
        BY <2>3 DEF Conflict, SetName, TypeOK
      <3> QED BY <2>3, <3>1 DEF Slug
    <2>4. CASE e = d /\ NewSlug(d, n)
      <3>1. name'[d] = n /\ slugIndex'[new] = d
        BY <1>1, <2>4 DEF NewSlug, SetName, TypeOK, Unindexed
      <3>2. Slug(d)' = new
        BY <2>4, <3>1 DEF Slug, SlugFor
      <3> QED BY <1>1, <1>2, <2>4, <3>1, <3>2 DEF Find
    <2> QED BY <2>1, <2>2, <2>3, <2>4 DEF SetDeviceName
  <1>7. DefaultsKept'
    <2> SUFFICES ASSUME NEW e \in present', DefaultSlug[e] \notin contested'
                 PROVE  slugIndex'[DefaultSlug[e]] \in {e, NoDevice}
      BY DEF DefaultsKept
    <2>1. /\ e \in present /\ DefaultSlug[e] \in Slugs
          /\ slugIndex[DefaultSlug[e]] \in {e, NoDevice}
      BY <1>2, SlugTypes DEF DefaultsKept
    <2>2. CASE NewSlug(d, n) /\ DefaultSlug[e] = new
      <3>1. name'[d] = n /\ slugIndex'[new] = d
        BY <1>1, <2>2 DEF NewSlug, SetName, TypeOK, Unindexed
      <3>2. ASSUME e # d
            PROVE  FALSE
        <4>1. DefaultSlug[e] # DefaultSlug[d]
          BY <1>2, <2>1, <3>2, NameAssumption
        <4>2. n # NoName /\ SlugFormat[n] = DefaultSlug[e]
          BY <2>2, <4>1, NameAssumption DEF SlugFor
        <4>3. DefaultSlug[e] \in DoublyShown'
          BY <1>2, <2>1, <3>1, <3>2, <4>2 DEF DoublyShown
        <4> QED BY <1>2, <4>3
      <3> QED BY <2>2, <3>1, <3>2
    <2>3. CASE NewSlug(d, n) /\ DefaultSlug[e] # new
      BY <1>1, <2>1, <2>3 DEF NewSlug, Unindexed
    <2> QED BY <2>1, <2>2, <2>3 DEF SetDeviceName, SameSlug, Conflict
  <1>8. ContestsNoted'
    BY <1>2 DEF ContestsNoted
  <1> QED BY <1>4, <1>6, <1>7, <1>8

-----------------------------------------------------------------------------
(***************************************************************************)
(* The reports                                                             *)
(***************************************************************************)
\* The steps that do not touch the index, but for the type of what they change.
LEMMA IndexUntouched ==
  ASSUME IndexInv, TypeOK', UNCHANGED <<present, name, index>>
  PROVE  IndexInv'
  BY DEF IndexInv, DefaultsKept, ContestsNoted, DoublyShown, NamedDeviceIsFound, Find, Slug, index

LEMMA ListenerIInv ==
  ASSUME IInv,
         (\E r \in Reports : TakeReport(r)) \/ FindObject \/ WriteState \/ CacheSensors
  PROVE  IInv'
  <1> USE DEF IInv
  <1> TypeOK /\ IndexInv
    BY DEF IndexInv
  <1>0. /\ listener.stage \in {"idle", "found", "writing", "caching"}
        /\ listener.stage = "found" => listener \in Found
        /\ listener.stage \in {"writing", "caching"} => listener \in Holding
        /\ listener.stage # "idle" => listener.report \in Reports /\ listener.device \in Devices
    BY DEF TypeOK, Found, Holding, Idle
  <1>1. ASSUME NEW r \in Reports, TakeReport(r)
        PROVE  IInv'
    <2>1. CASE listener' = listener /\ last' = last
      <3>1. TypeOK'
        BY <1>1, <2>1 DEF TakeReport, TypeOK, table, index
      <3>2. IndexInv'
        BY <1>1, <3>1, IndexUntouched DEF TakeReport, table
      <3>3. ReportOnItsWay' /\ StateOfThisLife'
        BY <1>1, <2>1 DEF TakeReport, ReportOnItsWay, StateOfThisLife, Due, table
      <3> QED BY <3>2, <3>3
    <2>2. ASSUME NEW d \in present,
                 listener' = [stage |-> "found", report |-> r, device |-> d],
                 last' = [last EXCEPT ![d] = r]
          PROVE  IInv'
      <3>0. d \in Devices /\ listener.stage = "idle"
        BY <1>1 DEF TypeOK, TakeReport, At
      <3>1. TypeOK'
        <4>1. listener' \in Found
          BY <2>2, <3>0 DEF Found
        <4>2. last' \in [Devices -> Reports \cup {NoReport}]
          BY <2>2, <3>0 DEF TypeOK
        <4> QED BY <1>1, <4>1, <4>2 DEF TakeReport, TypeOK, table, index
      <3>2. IndexInv'
        BY <1>1, <3>1, IndexUntouched DEF TakeReport, table
      <3>3. ReportOnItsWay'
        BY <1>1, <2>2, <3>0 DEF TakeReport, ReportOnItsWay, Due, TypeOK
      <3>4. StateOfThisLife'
        BY <1>1, <2>2, <3>0 DEF TakeReport, StateOfThisLife, table, TypeOK
      <3> QED BY <3>2, <3>3, <3>4
    <2> QED BY <1>1, <2>1, <2>2 DEF TakeReport
  <1>2. CASE FindObject
    <2>1. CASE listener.device \in present
      <3>1. /\ listener' = [stage |-> "writing", report |-> listener.report,
                            device |-> listener.device, object |-> life[listener.device]]
            /\ listener' \in Holding
            /\ UNCHANGED <<table, sensors, arrived, last, caught, todo, died>>
            /\ listener.stage = "found"
        BY <1>0, <1>2, <2>1 DEF FindObject, At, TypeOK, Holding
      <3>2. TypeOK'
        BY <3>1 DEF TypeOK, table, index
      <3>3. IndexInv'
        BY <3>1, <3>2, IndexUntouched DEF table
      <3>4. ReportOnItsWay'
        BY <1>0, <2>1, <3>1 DEF ReportOnItsWay, Due, table, TypeOK
      <3>5. StateOfThisLife'
        BY <3>1 DEF StateOfThisLife, table
      <3> QED BY <3>3, <3>4, <3>5
    <2>2. CASE listener.device \notin present
      <3>1. /\ listener' = Idle
            /\ UNCHANGED <<table, sensors, arrived, last, caught, todo, died>>
        BY <1>2, <2>2 DEF FindObject
      <3>2. TypeOK'
        BY <3>1 DEF TypeOK, table, index
      <3>3. IndexInv'
        BY <3>1, <3>2, IndexUntouched DEF table
      <3>4. ReportOnItsWay'
        BY <3>1 DEF ReportOnItsWay, Idle
      <3>5. StateOfThisLife'
        BY <2>2, <3>1 DEF StateOfThisLife, table
      <3> QED BY <3>3, <3>4, <3>5
    <2> QED BY <2>1, <2>2
  <1>3. CASE WriteState
    <2> DEFINE d == listener.device
    <2>1. /\ listener' = [listener EXCEPT !.stage = "caching"] /\ listener.stage = "writing"
          /\ listener' \in Holding /\ listener'.stage = "caching" /\ listener'.device = d
          /\ UNCHANGED <<present, name, nwk, life, index, sensors, arrived, last, caught, todo, died>>
          /\ d \in Devices
      BY <1>0, <1>3 DEF WriteState, At, GoOn, Holding
    <2>2. state' = IF listener.object = life[d] THEN [state EXCEPT ![d] = listener.report] ELSE state
      BY <1>3 DEF WriteState
    <2>3. TypeOK'
      BY <1>0, <2>1, <2>2 DEF TypeOK, index
    <2>4. IndexInv'
      BY <2>1, <2>3, IndexUntouched
    <2>5. ReportOnItsWay'
      BY <2>1 DEF ReportOnItsWay
    <2>6. StateOfThisLife'
      <3> SUFFICES ASSUME NEW e \in present
                   PROVE  state'[e] = last[e] \/ (last[e] = NoReport /\ state'[e] \in caught)
        BY <2>1 DEF StateOfThisLife
      <3>1. CASE e # d
        <4>1. e \in Devices /\ state'[e] = state[e]
          BY <2>2, <3>1 DEF TypeOK
        <4> QED BY <2>1, <3>1, <4>1 DEF StateOfThisLife
      <3>2. CASE e = d
        BY <2>1, <2>2, <3>2 DEF ReportOnItsWay, Due, TypeOK
      <3> QED BY <3>1, <3>2
    <2> QED BY <2>4, <2>5, <2>6
  <1>4. CASE CacheSensors
    <2>0. /\ listener' = Idle /\ listener.stage = "caching"
          /\ UNCHANGED <<table, arrived, last, caught, todo, died>>
      BY <1>4 DEF CacheSensors, At
    <2>1. TypeOK'
      BY <1>0, <1>4, <2>0 DEF CacheSensors, TypeOK, table, index
    <2>2. IndexInv'
      BY <2>0, <2>1, IndexUntouched DEF table
    <2>3. ReportOnItsWay'
      BY <2>0 DEF ReportOnItsWay, Idle
    <2>4. StateOfThisLife'
      BY <2>0 DEF StateOfThisLife, table
    <2> QED BY <2>2, <2>3, <2>4
  <1> QED BY <1>1, <1>2, <1>3, <1>4

\* The other steps keep the listener where it is, and but for AddDevices what
\* the devices that stay show.
LEMMA TableIInv ==
  ASSUME IInv, IndexInv', UNCHANGED <<state, life, reporting>>, present' \subseteq present
  PROVE  IInv'
  BY DEF IInv, ReportOnItsWay, Due, StateOfThisLife, reporting

LEMMA AddDevicesIInv ==
  ASSUME IInv, NEW D \in SUBSET Devices, NEW at \in [Devices -> Addrs], AddDevices(D, at)
  PROVE  IInv'
  <1>1. IndexInv'
    BY AddDevicesIndex DEF IInv
  <1> TypeOK
    BY DEF IInv, IndexInv
  <1>2. /\ present' = present \cup D /\ D \cap present = {} /\ present \subseteq Devices
        /\ UNCHANGED listener
        /\ caught \subseteq caught'
        /\ \A d \in D : state'[d] = NoReport /\ last'[d] = NoReport /\ life'[d] = life[d] + 1
        /\ \A d \in Devices \ D : state'[d] = state[d] /\ last'[d] = last[d] /\ life'[d] = life[d]
    BY DEF AddDevices, TypeOK
  <1>3. ReportOnItsWay'
    <2>1. CASE listener.stage = "found"
      <3>1. listener.device \in Devices
        BY <2>1 DEF TypeOK, Found, Holding, Idle
      <3>2. listener.device \in D => listener.report \in caught'
        BY <2>1 DEF AddDevices, At
      <3> QED BY <1>2, <2>1, <3>1, <3>2 DEF IInv, ReportOnItsWay, Due
    <2>2. CASE listener.stage = "writing"
      <3>1. listener.device \in Devices /\ listener.object \in Nat /\ life[listener.device] \in Nat
        BY <2>2 DEF TypeOK, Found, Holding, Idle
      <3>2. listener.object <= life[listener.device]
        BY <2>2 DEF IInv, ReportOnItsWay
      <3>3. CASE listener.device \in D
        <4>1. life'[listener.device] = life[listener.device] + 1
          BY <1>2, <3>3
        <4>2. listener.object # life'[listener.device] /\ listener.object <= life'[listener.device]
          BY <3>1, <3>2, <4>1
        <4> QED BY <1>2, <2>2, <3>3, <4>2 DEF ReportOnItsWay
      <3>4. CASE listener.device \notin D
        BY <1>2, <2>2, <3>1, <3>4 DEF IInv, ReportOnItsWay, Due
      <3> QED BY <3>3, <3>4
    <2> QED BY <1>2, <2>1, <2>2 DEF ReportOnItsWay
  <1>4. StateOfThisLife'
    BY <1>2 DEF IInv, StateOfThisLife
  <1> QED BY <1>1, <1>3, <1>4 DEF IInv

LEMMA NextIInv == IInv /\ [Next]_vars => IInv'
  <1> SUFFICES ASSUME IInv, [Next]_vars
               PROVE  IInv'
    OBVIOUS
  <1> TypeOK /\ IndexInv
    BY DEF IInv, IndexInv
  <1>1. ASSUME NEW d \in Devices, RemoveDevice(d)
        PROVE  IInv'
    <2>1. IndexInv'
      BY <1>1, RemoveDeviceIndex
    <2> QED BY <1>1, <2>1, TableIInv DEF RemoveDevice
  <1>2. ASSUME NEW d \in Devices, NEW a \in Addrs, UpdateNwkAddr(d, a)
        PROVE  IInv'
    <2>1. TypeOK'
      BY <1>2 DEF UpdateNwkAddr, TypeOK, reporting, index
    <2>2. IndexInv'
      BY <1>2, <2>1, IndexUntouched DEF UpdateNwkAddr
    <2> QED BY <1>2, <2>2, TableIInv DEF UpdateNwkAddr
  <1>3. ASSUME NEW d \in Devices, NEW n \in Names, SetDeviceName(d, n)
        PROVE  IInv'
    <2>1. IndexInv'
      BY <1>3, SetDeviceNameIndex
    <2> QED BY <1>3, <2>1, TableIInv DEF SetDeviceName
  <1>4. ASSUME NEW d \in Devices, RefreshDevice(d)
        PROVE  IInv'
    <2>1. TypeOK'
      BY <1>4 DEF RefreshDevice, TypeOK, table, reporting, index
    <2>2. IndexInv'
      BY <1>4, <2>1, IndexUntouched DEF RefreshDevice, table
    <2> QED BY <1>4, <2>2, TableIInv DEF RefreshDevice, table
  <1>5. ASSUME NEW D \in SUBSET present, StartPoll(D)
        PROVE  IInv'
    <2>1. TypeOK'
      BY <1>5 DEF StartPoll, TypeOK, table, reporting, index
    <2>2. IndexInv'
      BY <1>5, <2>1, IndexUntouched DEF StartPoll, table
    <2> QED BY <1>5, <2>2, TableIInv DEF StartPoll, table
  <1>6. CASE UNCHANGED vars
    <2>1. TypeOK'
      BY <1>6 DEF vars, table, reporting, index, TypeOK
    <2>2. IndexInv'
      BY <1>6, <2>1, IndexUntouched DEF vars, table
    <2> QED BY <1>6, <2>2, TableIInv DEF vars, table
  <1> QED BY <1>1, <1>2, <1>3, <1>4, <1>5, <1>6, AddDevicesIInv, ListenerIInv DEF Next

-----------------------------------------------------------------------------
(***************************************************************************)
(* The theorems                                                            *)
(***************************************************************************)

\* The index and the table agree, and devices show what was reported of them,
\* in every reachable state.
THEOREM TableInvariance == Spec => []IInv
  BY InitIInv, NextIInv, PTL DEF Spec

\* manager.go: a device is found under the slug it shows, unless that is its
\* default one or the default one of another in the table beside it.
THEOREM NamedFound == Spec => []NamedDeviceIsFound
  <1>1. IInv => NamedDeviceIsFound
    BY DEF IInv, IndexInv
  <1> QED BY <1>1, TableInvariance, PTL

\* manager.go: two devices show the same slug only if one was named for the
\* default slug of a device in the table.
THEOREM SlugsUnique == Spec => []SlugsDiffer
  <1>1. IInv => SlugsDiffer
    BY DistinctSlugs DEF IInv
  <1> QED BY <1>1, TableInvariance, PTL

\* listener.go and device.go: a device shows the last report taken for it since
\* it joined, or one that was caught between the two look-ups by its rejoining.
THEOREM StateIsLastReport == Spec => []StateOfThisLife
  <1>1. IInv => StateOfThisLife
    BY DEF IInv
  <1> QED BY <1>1, TableInvariance, PTL

LEMMA NextSlugsStay ==
  ASSUME IInv, [Next]_vars, NEW d \in present \cap present',
         Slug(d) \in Slugs \ contested', slugIndex[Slug(d)] = d, slugIndex'[Slug(d)] # d
  PROVE  name'[d] # name[d]
  <1> IndexInv /\ TypeOK /\ d \in Devices /\ d # NoDevice /\ Slug(d) # NoSlug
    BY SlugTypes, NameAssumption DEF IInv, IndexInv
  <1>1. ASSUME NEW D \in SUBSET Devices, NEW at \in [Devices -> Addrs], AddDevices(D, at)
        PROVE  FALSE
    <2>1. d \notin D /\ name'[d] = name[d] /\ D \subseteq present'
          /\ DoublyShown' \subseteq contested'
      BY <1>1 DEF AddDevices
    <2>2. PICK e \in D : Slug(d) = DefaultSlug[e]
      BY <1>1 DEF AddDevices
    <2>3. name[d] # NoName /\ SlugFormat[name[d]] = DefaultSlug[e]
      BY <2>1, <2>2, NameAssumption DEF Slug
    <2>4. DefaultSlug[e] \in DoublyShown'
      BY <2>1, <2>3 DEF DoublyShown
    <2> QED BY <2>1, <2>2, <2>4
  <1>2. ASSUME NEW e \in Devices, RemoveDevice(e)
        PROVE  FALSE
    <2>1. e # d /\ e \in present /\ Slug(d) = Slug(e) /\ contested' = contested
      BY <1>2 DEF RemoveDevice, Unindexed
    <2> QED BY <2>1, DistinctSlugs DEF SlugsDiffer
  <1>3. ASSUME NEW e \in Devices, NEW n \in Names, SetDeviceName(e, n)
        PROVE  name'[d] # name[d]
    <2>1. NewSlug(e, n) /\ e \in present /\ Slug(d) \notin contested
      BY <1>3 DEF SetDeviceName, SameSlug, Conflict, NewSlug, SetName
    <2>2. Slug(d) # SlugFor(e, n)
      BY <2>1 DEF NewSlug, InUse, Unindexed
    <2>3. Slug(d) = Slug(e)
      BY <2>1, <2>2, SlugForInSlugs DEF NewSlug, Unindexed
    <2>4. e = d
      BY <2>1, <2>3, DistinctSlugs DEF SlugsDiffer
    <2>5. name'[d] = n
      BY <2>1, <2>4 DEF NewSlug, SetName, TypeOK
    <2>6. name[d] # n
      BY <2>1, <2>4, NameAssumption DEF NewSlug, Slug, SlugFor
    <2> QED BY <2>5, <2>6
  <1>4. CASE UNCHANGED slugIndex
    BY <1>4
  <1> QED BY <1>1, <1>2, <1>3, <1>4
          DEF Next, vars, table, index, UpdateNwkAddr, RefreshDevice, TakeReport, FindObject,
              WriteState, CacheSensors, StartPoll

\* manager.go: the slug a device shows leads to it until it is renamed or
\* leaves, with the exception of SlugsStay.
THEOREM SlugsLast == Spec => SlugsStay
  <1>1. IInv /\ [Next]_vars =>
          [\A d \in present \cap present' :
             /\ Slug(d) \in Slugs \ contested'
             /\ slugIndex[Slug(d)] = d
             /\ slugIndex'[Slug(d)] # d
             => name'[d] # name[d]]_vars
    BY NextSlugsStay
  <1> QED BY <1>1, TableInvariance, PTL DEF Spec, SlugsStay

-----------------------------------------------------------------------------
(***************************************************************************)
(* The event bus                                                           *)
(***************************************************************************)
CONSTANTS SyncEvents, Wants, Cap

VARIABLES subscriptions, id, clock, sub, closed, unserved, bus, panicked

Bus == INSTANCE EventBus WITH table <- subscriptions, todo <- unserved

\* What the proof needs of the types.
BusTypes ==
  /\ subscriptions \in Seq(Subs) /\ id \in [Subs -> Nat] /\ clock \in Nat
  /\ sub \in [Subs -> {"none", "active", "closing", "removed"}]
  /\ chan \in [Subs -> Seq(Events)] /\ got \in [Subs -> Seq(Events)]
  /\ publish \in [Events -> {"idle", "sending", "done", "canceled"}]
  /\ unserved \in [Events -> SUBSET Subs] /\ entitled \in [Events -> SUBSET Subs]

\* An identifier belongs to one subscription, so that only its own entry goes.
IdsDistinct ==
  /\ \A s \in Subs : sub[s] # "none" => id[s] <= clock
  /\ \A s, t \in Subs : sub[s] # "none" /\ sub[t] # "none" /\ id[s] = id[t] => s = t

\* Who has subscribed is in the subscriptions until the mutex is taken to leave it.
Tabled ==
  /\ \A i \in DOMAIN subscriptions : sub[subscriptions[i]] # "none"
  /\ \A s \in Bus!Subscribed : s \in ToSet(subscriptions)

\* Whom a call has to serve is served, or has its turn yet.
Served(e, s) == e \in ToSet(Delivered(s)) \/ <<e, s>> \in dropped
Owed ==
  \A e \in Events :
    /\ publish[e] \in {"sending", "done"} => \A s \in entitled[e] : s \in unserved[e] \/ Served(e, s)
    /\ publish[e] = "done" => unserved[e] = {}

\* The invariant: nobody who has to be served is forgotten on the way.
BusInv == BusTypes /\ IdsDistinct /\ Tabled /\ Owed

\* The members of two sequences in a row.
LEMMA MembersOfBoth ==
  ASSUME NEW S, NEW s \in Seq(S), NEW t \in Seq(S)
  PROVE  ToSet(s \o t) = ToSet(s) \cup ToSet(t)
  <1>1. DOMAIN (s \o t) = 1 .. Len(s) + Len(t) /\ DOMAIN s = 1 .. Len(s) /\ DOMAIN t = 1 .. Len(t) /\ Len(s) \in Nat /\ Len(t) \in Nat
    OBVIOUS
  <1>2. \A i \in 1 .. Len(s) : (s \o t)[i] = s[i]
    OBVIOUS
  <1>3. \A i \in 1 .. Len(t) : (s \o t)[Len(s) + i] = t[i]
    OBVIOUS
  <1>4. ASSUME NEW i \in 1 .. Len(s) + Len(t), i > Len(s)
        PROVE  (s \o t)[i] = t[i - Len(s)] /\ i - Len(s) \in 1 .. Len(t)
    BY <1>1, <1>4
  <1>5. ToSet(s \o t) \subseteq ToSet(s) \cup ToSet(t)
    BY <1>1, <1>2, <1>4 DEF ToSet
  <1>6. ToSet(s) \subseteq ToSet(s \o t)
    BY <1>1, <1>2 DEF ToSet
  <1>7. ToSet(t) \subseteq ToSet(s \o t)
    <2> SUFFICES ASSUME NEW i \in 1 .. Len(t) PROVE t[i] \in ToSet(s \o t)
      BY <1>1 DEF ToSet
    <2>1. Len(s) + i \in DOMAIN (s \o t)
      BY <1>1
    <2> QED BY <1>3, <2>1 DEF ToSet
  <1> QED BY <1>5, <1>6, <1>7

\* The members of a sequence that is appended to.
LEMMA MembersOfMore ==
  ASSUME NEW S, NEW s \in Seq(S), NEW x \in S
  PROVE  ToSet(Append(s, x)) = ToSet(s) \cup {x}
  <1>1. DOMAIN Append(s, x) = 1 .. Len(s) + 1 /\ DOMAIN s = 1 .. Len(s) /\ Len(s) \in Nat
    OBVIOUS
  <1>2. Append(s, x)[Len(s) + 1] = x /\ \A i \in 1 .. Len(s) : Append(s, x)[i] = s[i]
    OBVIOUS
  <1> QED BY <1>1, <1>2 DEF ToSet

\* The members of a sequence that is taken from.
LEMMA MembersOfRest ==
  ASSUME NEW S, NEW s \in Seq(S), s # <<>>
  PROVE  ToSet(s) = {Head(s)} \cup ToSet(Tail(s))
  <1>1. Len(s) \in Nat \ {0} /\ DOMAIN s = 1 .. Len(s) /\ Tail(s) \in Seq(S) /\ Len(Tail(s)) = Len(s) - 1
    OBVIOUS
  <1>2. Head(s) = s[1] /\ DOMAIN Tail(s) = 1 .. Len(s) - 1 /\ \A i \in 1 .. Len(s) - 1 : Tail(s)[i] = s[i + 1]
    BY <1>1
  <1>3. ASSUME NEW i \in 1 .. Len(s), i # 1
        PROVE  s[i] \in ToSet(Tail(s))
    <2>1. i - 1 \in 1 .. Len(s) - 1 /\ i - 1 + 1 = i
      BY <1>1, <1>3
    <2>2. Tail(s)[i - 1] = s[i]
      BY <1>2, <2>1
    <2> QED BY <1>2, <2>1, <2>2 DEF ToSet
  <1>4. ToSet(s) \subseteq {Head(s)} \cup ToSet(Tail(s))
    BY <1>1, <1>2, <1>3 DEF ToSet
  <1>5. \A i \in 1 .. Len(s) - 1 : i + 1 \in 1 .. Len(s)
    BY <1>1
  <1>6. {Head(s)} \cup ToSet(Tail(s)) \subseteq ToSet(s)
    BY <1>1, <1>2, <1>5 DEF ToSet
  <1> QED BY <1>4, <1>6

\* A set of numbers that has a member has a least one.
LEMMA LeastIsThere ==
  ASSUME NEW S, S \subseteq Nat, S # {}
  PROVE  (CHOOSE x \in S : \A y \in S : x <= y) \in S
  <1>1. PICK x \in S : \A y \in S : ~(<<y, x>> \in OpToRel(<, Nat))
    BY NatLessThanWellFounded, WFMin, Zenon
  <1>2. \A y \in S : x <= y
    <2> TAKE y \in S
    <2>1. x \in Nat /\ y \in Nat
      OBVIOUS
    <2>2. ~(y < x)
      BY <1>1, <2>1 DEF OpToRel
    <2> QED BY <2>1, <2>2
  <1> QED BY <1>1, <1>2

\* A sequence without one of its members.
LEMMA OneLess ==
  ASSUME NEW S, NEW s \in Seq(S), NEW j \in DOMAIN s
  PROVE  /\ Bus!RemoveAt(s, j) \in Seq(S)
         /\ ToSet(Bus!RemoveAt(s, j)) \subseteq ToSet(s)
         /\ \A i \in DOMAIN s : i # j => s[i] \in ToSet(Bus!RemoveAt(s, j))
  <1> DEFINE n == Len(s)
             a == SubSeq(s, 1, j - 1)
             b == SubSeq(s, j + 1, n)
  <1>1. n \in Nat /\ DOMAIN s = 1 .. n /\ j \in 1 .. n
    OBVIOUS
  <1>2. a \in Seq(S) /\ Len(a) = j - 1 /\ DOMAIN a = 1 .. j - 1 /\ \A i \in 1 .. j - 1 : a[i] = s[i]
    BY <1>1
  <1>3. b \in Seq(S) /\ Len(b) = n - j /\ DOMAIN b = 1 .. n - j /\ \A i \in 1 .. n - j : b[i] = s[j + i]
    BY <1>1
  <1>4. Bus!RemoveAt(s, j) = a \o b
    BY DEF Bus!RemoveAt
  <1> HIDE DEF a, b
  <1>5. Bus!RemoveAt(s, j) \in Seq(S)
    BY <1>2, <1>3, <1>4
  <1>6. ToSet(Bus!RemoveAt(s, j)) = ToSet(a) \cup ToSet(b)
    BY <1>2, <1>3, <1>4, MembersOfBoth
  <1>7. ToSet(a) \subseteq ToSet(s)
    BY <1>1, <1>2 DEF ToSet
  <1>8. ToSet(b) \subseteq ToSet(s)
    <2>1. \A i \in 1 .. n - j : j + i \in 1 .. n
      BY <1>1
    <2> QED BY <1>1, <1>3, <2>1 DEF ToSet
  <1>9. ASSUME NEW i \in DOMAIN s, i # j PROVE s[i] \in ToSet(Bus!RemoveAt(s, j))
    <2>1. CASE i < j
      <3>1. i \in 1 .. j - 1
        BY <1>1, <2>1
      <3> QED BY <1>2, <1>6, <3>1 DEF ToSet
    <2>2. CASE i > j
      <3>1. i - j \in 1 .. n - j /\ j + (i - j) = i
        BY <1>1, <2>2
      <3>2. b[i - j] = s[i]
        BY <1>3, <3>1
      <3> QED BY <1>3, <1>6, <3>1, <3>2 DEF ToSet
    <2> QED BY <1>1, <1>9, <2>1, <2>2
  <1> QED BY <1>5, <1>6, <1>7, <1>8, <1>9

\* Only the entry of the one who unsubscribes leaves the subscriptions.
LEMMA OthersStay ==
  ASSUME BusTypes, IdsDistinct, Tabled, NEW s \in Subs, sub[s] # "none"
  PROVE  /\ Bus!Without(s) \in Seq(Subs)
         /\ ToSet(Bus!Without(s)) \subseteq ToSet(subscriptions)
         /\ \A t \in ToSet(subscriptions) : t # s => t \in ToSet(Bus!Without(s))
  <1> DEFINE j == CHOOSE i \in Bus!SameID(s) : \A k \in Bus!SameID(s) : i <= k
  <1>1. CASE Bus!SameID(s) = {}
    BY <1>1 DEF Bus!Without, BusTypes
  <1>2. CASE Bus!SameID(s) # {}
    <2>1. Bus!SameID(s) \subseteq Nat
      BY DEF Bus!SameID, BusTypes
    <2>2. j \in Bus!SameID(s)
      BY <1>2, <2>1, LeastIsThere
    <2>3. Bus!Without(s) = Bus!RemoveAt(subscriptions, j)
      BY <1>2 DEF Bus!Without
    <2>4. j \in DOMAIN subscriptions /\ id[subscriptions[j]] = id[s] /\ subscriptions[j] \in Subs /\ sub[subscriptions[j]] # "none"
      BY <2>2 DEF Bus!SameID, BusTypes, Tabled
    <2>5. subscriptions[j] = s
      BY <2>4 DEF IdsDistinct
    <2> HIDE DEF j
    <2>6. Bus!Without(s) \in Seq(Subs) /\ ToSet(Bus!Without(s)) \subseteq ToSet(subscriptions)
      BY <2>3, <2>4, OneLess DEF BusTypes
    <2>7. ASSUME NEW t \in ToSet(subscriptions), t # s PROVE t \in ToSet(Bus!Without(s))
      <3>1. PICK i \in DOMAIN subscriptions : subscriptions[i] = t
        BY DEF ToSet
      <3>2. i # j
        BY <2>5, <2>7, <3>1
      <3> QED BY <2>3, <2>4, <3>1, <3>2, OneLess DEF BusTypes
    <2> QED BY <2>6, <2>7
  <1> QED BY <1>1, <1>2

\* Nothing is subscribed and nothing published to begin with.
LEMMA InitBusInv == Bus!Init => BusInv
  <1> SUFFICES ASSUME Bus!Init PROVE BusInv
    OBVIOUS
  <1>1. BusTypes
    BY DEF Bus!Init, BusTypes
  <1> QED BY <1>1 DEF Bus!Init, BusInv, IdsDistinct, Tabled, Owed, Bus!Subscribed

\* Who comes and goes.
LEMMA SubscribeKeeps ==
  ASSUME BusInv, NEW s \in Subs, Bus!Subscribe(s)
  PROVE  BusInv'
  <1> USE DEF BusInv
  <1>1. /\ sub[s] = "none" /\ sub' = [sub EXCEPT ![s] = "active"] /\ clock' = clock + 1 /\ clock \in Nat
        /\ id' = [id EXCEPT ![s] = clock + 1] /\ subscriptions' = Append(subscriptions, s) /\ subscriptions \in Seq(Subs)
    BY DEF Bus!Subscribe, Bus!SubAt, BusTypes
  <1>2. BusTypes'
    BY <1>1 DEF BusTypes, Bus!Subscribe
  <1>3. IdsDistinct'
    BY <1>1 DEF BusTypes, IdsDistinct
  <1>4. ToSet(subscriptions') = ToSet(subscriptions) \cup {s}
    BY <1>1, MembersOfMore
  <1>5. Tabled'
    <2>1. \A t \in ToSet(subscriptions) : t \in Subs /\ sub[t] # "none"
      BY DEF Tabled, BusTypes, ToSet
    <2>2. \A t \in ToSet(subscriptions') : sub'[t] # "none"
      BY <1>1, <1>4, <2>1 DEF BusTypes
    <2>3. \A t \in Bus!Subscribed' : t \in ToSet(subscriptions')
      BY <1>1, <1>4 DEF BusTypes, Tabled, Bus!Subscribed
    <2> QED BY <2>2, <2>3 DEF Tabled, ToSet
  <1>6. Owed'
    BY DEF Owed, Bus!Subscribe, Served, Delivered
  <1> QED BY <1>2, <1>3, <1>5, <1>6

\* Who closes the channel stays in the subscriptions, who leaves takes only itself out.
LEMMA RemoveKeeps ==
  ASSUME BusInv, NEW s \in Subs, Bus!CloseChannel(s) \/ Bus!RemoveSub(s)
  PROVE  BusInv'
  <1> USE DEF BusInv
  <1>1. sub[s] # "none" /\ \E to \in {"closing", "removed"} : sub' = [sub EXCEPT ![s] = to]
    BY DEF Bus!CloseChannel, Bus!RemoveSub, Bus!SubAt, BusTypes
  <1>2. /\ Bus!Without(s) \in Seq(Subs) /\ ToSet(Bus!Without(s)) \subseteq ToSet(subscriptions)
        /\ \A t \in ToSet(subscriptions) : t # s => t \in ToSet(Bus!Without(s))
    BY <1>1, OthersStay
  <1>3. subscriptions' \in Seq(Subs) /\ ToSet(subscriptions') \subseteq ToSet(subscriptions)
    BY <1>2 DEF Bus!CloseChannel, Bus!RemoveSub, BusTypes
  <1>4. BusTypes'
    BY <1>1, <1>3 DEF BusTypes, Bus!CloseChannel, Bus!RemoveSub
  <1>5. IdsDistinct'
    BY <1>1 DEF BusTypes, IdsDistinct, Bus!CloseChannel, Bus!RemoveSub
  <1>6. Tabled'
    <2>1. \A t \in ToSet(subscriptions) : t \in Subs /\ sub[t] # "none"
      BY DEF Tabled, BusTypes, ToSet
    <2>2. \A t \in ToSet(subscriptions') : sub'[t] # "none"
      BY <1>1, <1>3, <2>1 DEF BusTypes
    <2>3. ASSUME NEW t \in Bus!Subscribed' PROVE t \in ToSet(subscriptions')
      <3>1. t \in Subs /\ sub[t] # "none" /\ t \in Bus!Subscribed
        BY <1>1, <2>3 DEF Bus!Subscribed, BusTypes, Bus!CloseChannel, Bus!RemoveSub, Bus!SubAt
      <3>2. t \in ToSet(subscriptions)
        BY <3>1 DEF Tabled
      <3>3. CASE Bus!CloseChannel(s)
        BY <3>2, <3>3 DEF Bus!CloseChannel
      <3>4. CASE Bus!RemoveSub(s)
        <4>1. t # s
          BY <3>4, <2>3 DEF Bus!RemoveSub, Bus!SubAt, Bus!Subscribed, BusTypes
        <4> QED BY <1>2, <3>2, <3>4, <4>1 DEF Bus!RemoveSub
      <3> QED BY <3>3, <3>4
    <2> QED BY <2>2, <2>3 DEF Tabled, ToSet
  <1>7. Owed'
    BY DEF Owed, Bus!CloseChannel, Bus!RemoveSub, Served, Delivered
  <1> QED BY <1>4, <1>5, <1>6, <1>7

\* What was delivered stays delivered.
LEMMA ReceiveKeeps ==
  ASSUME BusInv, NEW s \in Subs, Bus!Receive(s)
  PROVE  BusInv'
  <1> USE DEF BusInv
  <1> DEFINE c == chan[s]
             x == Head(chan[s])
  <1>1. /\ c # <<>> /\ c \in Seq(Events) /\ x \in Events /\ Tail(c) \in Seq(Events)
        /\ got' = [got EXCEPT ![s] = Append(got[s], x)] /\ chan' = [chan EXCEPT ![s] = Tail(c)] /\ got[s] \in Seq(Events)
        /\ Append(got[s], x) \in Seq(Events)
    BY DEF Bus!Receive, BusTypes
  <1>2. BusTypes'
    BY <1>1 DEF BusTypes, Bus!Receive
  <1>3. IdsDistinct' /\ Tabled'
    BY DEF IdsDistinct, Tabled, Bus!Subscribed, Bus!Receive
  <1>4. ToSet(Append(got[s], x) \o Tail(c)) = ToSet(got[s] \o c)
    <2>1. got[s] \in Seq(Events)
      BY DEF BusTypes
    <2>2. ToSet(c) = {x} \cup ToSet(Tail(c)) /\ ToSet(got[s] \o c) = ToSet(got[s]) \cup ToSet(c)
      BY <1>1, <2>1, MembersOfRest, MembersOfBoth
    <2>3. ToSet(Append(got[s], x) \o Tail(c)) = ToSet(Append(got[s], x)) \cup ToSet(Tail(c))
      BY <1>1, MembersOfBoth, Zenon
    <2>4. ToSet(Append(got[s], x)) = ToSet(got[s]) \cup {x}
      BY <1>1, <2>1, MembersOfMore
    <2> QED BY <2>2, <2>3, <2>4
  <1>5. \A t \in Subs : ToSet(Delivered(t)') = ToSet(Delivered(t))
    BY <1>1, <1>4 DEF Delivered, BusTypes
  <1>6. Owed'
    BY <1>5 DEF Owed, Bus!Receive, Served, BusTypes
  <1> QED BY <1>2, <1>3, <1>6

\* Whoever wanted the event and had subscribed is among the receivers.
LEMMA GatherKeeps ==
  ASSUME BusInv, NEW e \in Events, Bus!Gather(e)
  PROVE  BusInv'
  <1> USE DEF BusInv
  <1>1. /\ Bus!Receivers(e) \subseteq Subs
        /\ {s \in Subs : sub[s] = "active" /\ e \in Wants[s]} \subseteq Bus!Receivers(e)
    BY DEF Bus!Receivers, BusTypes, Tabled, Bus!Subscribed, Bus!ToSet, ToSet
  <1>2. BusTypes'
    BY <1>1 DEF BusTypes, Bus!Gather, Bus!PublishAt
  <1>3. IdsDistinct' /\ Tabled'
    BY DEF IdsDistinct, Tabled, Bus!Subscribed, Bus!Gather
  <1>4. Owed'
    BY <1>1 DEF Owed, Bus!Gather, Bus!PublishAt, Served, Delivered, BusTypes
  <1> QED BY <1>2, <1>3, <1>4

\* A receiver is served, or its channel is full.
LEMMA ServeKeeps ==
  ASSUME BusInv, NEW e \in Events, NEW s \in Subs, Bus!Send(e, s) \/ Bus!Drop(e, s)
  PROVE  BusInv'
  <1> USE DEF BusInv
  <1>1. /\ publish[e] = "sending" /\ unserved' = [unserved EXCEPT ![e] = @ \ {s}]
        /\ chan[s] \in Seq(Events) /\ got[s] \in Seq(Events) /\ Append(chan[s], e) \in Seq(Events)
    BY DEF Bus!Send, Bus!Drop, Bus!Turn, Bus!Advance, BusTypes
  <1>2. BusTypes'
    BY <1>1 DEF BusTypes, Bus!Send, Bus!Drop
  <1>3. IdsDistinct' /\ Tabled'
    BY DEF IdsDistinct, Tabled, Bus!Subscribed, Bus!Send, Bus!Drop
  <1>4. Served(e, s)' /\ \A d \in Events, t \in Subs : Served(d, t) => Served(d, t)'
    <2>1. CASE Bus!Send(e, s)
      <3>1. ToSet(got[s] \o Append(chan[s], e)) = ToSet(got[s] \o chan[s]) \cup {e}
        <4>1. ToSet(got[s] \o Append(chan[s], e)) = ToSet(got[s]) \cup ToSet(Append(chan[s], e))
          <5>1. got[s] \in Seq(Events) /\ Append(chan[s], e) \in Seq(Events)
            BY <1>1
          <5> QED BY <5>1, MembersOfBoth, Zenon
        <4>2. ToSet(Append(chan[s], e)) = ToSet(chan[s]) \cup {e}
          BY <1>1, MembersOfMore
        <4>3. ToSet(got[s] \o chan[s]) = ToSet(got[s]) \cup ToSet(chan[s])
          BY <1>1, MembersOfBoth
        <4> QED BY <4>1, <4>2, <4>3
      <3>2. \A t \in Subs : Delivered(t)' = IF t = s THEN got[s] \o Append(chan[s], e) ELSE Delivered(t)
        BY <1>1, <2>1 DEF Delivered, Bus!Send, BusTypes
      <3> QED BY <2>1, <3>1, <3>2 DEF Served, Bus!Send, Delivered
    <2>2. CASE Bus!Drop(e, s)
      BY <2>2 DEF Served, Delivered, Bus!Drop
    <2> QED BY <2>1, <2>2
  <1>5. Owed'
    <2>1. publish' = publish /\ entitled' = entitled
      BY DEF Bus!Send, Bus!Drop
    <2> QED BY <1>1, <1>4, <2>1 DEF Owed, BusTypes
  <1> QED BY <1>2, <1>3, <1>5

\* A call ends.
LEMMA EndKeeps ==
  ASSUME BusInv, NEW e \in Events,
         Bus!Refuse(e) \/ Bus!Finish(e) \/ (\E s \in Subs : Bus!GiveUp(e, s) \/ Bus!Panic(e, s))
  PROVE  BusInv'
  <1> USE DEF BusInv
  <1>1. /\ UNCHANGED <<subscriptions, id, clock, sub, chan, unserved, got, dropped, entitled>>
        /\ publish' = publish \/ \E to \in {"done", "canceled"} : publish' = [publish EXCEPT ![e] = to]
    BY DEF Bus!Refuse, Bus!Finish, Bus!GiveUp, Bus!Panic, Bus!PublishAt
  <1>2. BusTypes'
    BY <1>1 DEF BusTypes
  <1>3. IdsDistinct' /\ Tabled'
    BY <1>1 DEF IdsDistinct, Tabled, Bus!Subscribed
  <1>4. Owed'
    BY DEF Owed, Served, Delivered, BusTypes, Bus!Refuse, Bus!Finish, Bus!GiveUp, Bus!Panic, Bus!PublishAt
  <1> QED BY <1>2, <1>3, <1>4

\* Every step of the bus keeps all of it.
LEMMA NextBusInv == BusInv /\ [Bus!Next]_(Bus!vars) => BusInv'
  <1> SUFFICES ASSUME BusInv, [Bus!Next]_(Bus!vars) PROVE BusInv'
    OBVIOUS
  <1>1. CASE UNCHANGED Bus!vars
    BY <1>1 DEF Bus!vars, BusInv, BusTypes, IdsDistinct, Tabled, Bus!Subscribed, Owed, Served, Delivered
  <1>2. CASE \E s \in Subs : Bus!Subscribe(s) \/ Bus!CloseChannel(s) \/ Bus!RemoveSub(s) \/ Bus!Receive(s)
    BY <1>2, SubscribeKeeps, RemoveKeeps, ReceiveKeeps
  <1>3. CASE \E e \in Events : Bus!Refuse(e) \/ Bus!PublishStep(e) \/ \E s \in Subs : Bus!GiveUp(e, s)
    BY <1>3, GatherKeeps, ServeKeeps, EndKeeps DEF Bus!PublishStep
  <1>4. CASE Bus!CloseBus \/ Bus!CloseWait
    BY <1>4 DEF Bus!CloseBus, Bus!CloseWait, Bus!BusAt, BusInv, BusTypes, IdsDistinct, Tabled, Bus!Subscribed, Owed, Served, Delivered
  <1> QED BY <1>1, <1>2, <1>3, <1>4 DEF Bus!Next

\* However many subscribers come and go around however many events, a Publish or
\* PublishSync that came to its end has served everyone who was subscribed and
\* wanted the event when it began, or found that subscriber's channel full
\* (bus.go, Publish, PublishSync and unsubscribe).
THEOREM NobodySkipped == Bus!Spec => []EveryoneServed
  <1>1. BusInv => EveryoneServed
    BY DEF BusInv, Owed, EveryoneServed, Served, BusTypes
  <1> QED BY <1>1, InitBusInv, NextBusInv, PTL DEF Bus!Spec
=============================================================================
