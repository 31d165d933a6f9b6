---------------------------- MODULE AdapterDevices ----------------------------
(***************************************************************************)
(* The adapter's life, its table of devices and the device names           *)
(* (pkg/adapter/adapter.go, device.go, endpoints.go, device_names.go).     *)
(*                                                                         *)
(* The adapter's mutex is held by Open and Close from beginning to end; a  *)
(* call takes it for a moment to see that the adapter is open, then works  *)
(* without it. Indications of the coordinator each run in a goroutine of   *)
(* the ZNP client (module ZnpLifecycle); they change the table, start the  *)
(* user's handler and, for a device that left, the deletion of its name in *)
(* goroutines that the adapter's WaitGroup counts.                         *)
(***************************************************************************)
EXTENDS DeviceNames, FiniteSets

CONSTANTS Devices,
          Users,           \* goroutines that call the adapter
          Scenarios,       \* what some of them call, how many indications come, how often the adapter is opened
          MaxEvents,       \* the most that come
          Names,           \* what devices are called
          Memories         \* what NV memory may hold at first

(* A device has a new network address in every indication: its number. *)
NoRecord == [nwk |-> 0, caps |-> FALSE]
Cleaners == 1..MaxEvents             \* the goroutines that delete the name of a device that left
Procs == Users \cup Cleaners
Job(kind, d, name) == [kind |-> kind, dev |-> d, name |-> name]
CallKinds == {"get", "list", "set", "delete", "remove", "force"}
Jobs == [kind : CallKinds, dev : Devices, name : Names \cup {NoName}]
Entries == [dev : Devices \cup {NoDevice, Corrupt.dev}, name : Names \cup {NoName}]

ASSUME EventsAreCounted == MaxEvents \in Nat /\ Users \cap Cleaners = {}
ASSUME CallsAreSane ==
  \A s \in Scenarios :
    /\ s.events \in 0..MaxEvents
    /\ \A u \in DOMAIN s.calls : s.calls[u] \in Jobs /\ (s.calls[u].kind # "set" => s.calls[u].name = NoName)
ASSUME MemoriesAreTables ==
  /\ NoDevice # Corrupt.dev /\ Devices \cap {NoDevice, Corrupt.dev} = {}
  /\ Memories \subseteq Seq(Entries)

(* Every item parses, and no device has two. *)
Sound(nv) ==
  /\ \A i \in 1..Len(nv) : nv[i] # Corrupt
  /\ \A i, j \in 1..Len(nv) : nv[i].dev = nv[j].dev /\ nv[i].dev \in Devices => i = j

VARIABLES scenario,   \* one of Scenarios
          life,       \* "closed", "opening", "wired", "failing", "open", "closing" or "waiting"
          ctxDone,    \* the context Open was given has ended
          handler,    \* OnDeviceEvent has set a handler
          devices,    \* deviceManager.devices
          pending,    \* goroutines of the client that handle an indication
          running,    \* goroutines of the user's handler, by the indication
          asking,     \* those of them that wait for the mutex
          wg,         \* what the adapter's WaitGroup counts
          pc, job,    \* where each call is, and what it does
          tab, pos,   \* the table it has read, and the item it is at
          nv,         \* the name table in NV memory
          events, sessions,
          said, unsure,         \* history: the addresses last indicated; devices that may deviate
          wanted, mixed, hurt   \* history: the names a device may have; whether calls overlapped, the memory was unsound

lifeVars == <<scenario, life, ctxDone, handler, sessions>>
tableVars == <<devices, pending, running, asking, said, unsure, events>>
nameVars == <<tab, pos, nv, wanted, mixed, hurt>>
vars == <<lifeVars, tableVars, nameVars, wg, pc, job>>

Locked == life \in {"opening", "wired", "failing", "closing", "waiting"}
Wired == life \notin {"closed", "opening"}     \* there is a device table, and the callbacks are set
ClientUp == life \in {"wired", "open"}
Ended(p) == pc[p] \in {"idle", "done", "failed", "panic"}

Init == /\ scenario \in Scenarios
        /\ life = "closed" /\ ctxDone = FALSE /\ handler = FALSE /\ sessions = 0
        /\ devices = [d \in Devices |-> NoRecord] /\ said = [d \in Devices |-> 0] /\ unsure = {}
        /\ pending = {} /\ running = {} /\ asking = {} /\ events = 0 /\ wg = 0
        /\ pc = [p \in Procs |-> "idle"] /\ job = [p \in Procs |-> Job("none", NoDevice, NoName)]
        /\ tab = [p \in Procs |-> <<>>] /\ pos = [p \in Procs |-> 1]
        /\ nv \in Memories /\ mixed = FALSE /\ hurt = ~Sound(nv)
        /\ wanted = [d \in Devices |-> {NameOf(Readable(nv), d)}]

(***************************** Open and Close *****************************)

OpenBegin == /\ life = "closed" /\ sessions < scenario.sessions
             /\ life' = "opening" /\ ctxDone' = FALSE /\ sessions' = sessions + 1
             /\ UNCHANGED <<scenario, handler, tableVars, nameVars, wg, pc, job>>

(* Port, client, ping and version; then the table and the callbacks. *)
OpenWire == /\ life = "opening" /\ life' = "wired"
            /\ devices' = [d \in Devices |-> NoRecord] /\ said' = [d \in Devices |-> 0] /\ unsure' = {}
            /\ UNCHANGED <<scenario, ctxDone, handler, sessions, pending, running, asking, events, nameVars, wg, pc, job>>

(* One endpoint at least was registered, and the network started. *)
OpenEnd == life = "wired" /\ life' = "open" /\ UNCHANGED <<scenario, ctxDone, handler, sessions, tableVars, nameVars, wg, pc, job>>

(* Any step of Open may fail; once the client runs it is closed, which ends its goroutines. *)
OpenFail == /\ \/ life = "opening" /\ life' = "closed"
               \/ life = "wired" /\ life' = "failing"
            /\ UNCHANGED <<scenario, ctxDone, handler, sessions, tableVars, nameVars, wg, pc, job>>
OpenAbandon == /\ life = "failing" /\ pending = {}
               /\ life' = "closed" /\ handler' = FALSE
               /\ UNCHANGED <<scenario, ctxDone, sessions, tableVars, nameVars, wg, pc, job>>

(* The client is closed: it takes no frames, and requests fail. *)
CloseBegin == life = "open" /\ life' = "closing" /\ UNCHANGED <<scenario, ctxDone, handler, sessions, tableVars, nameVars, wg, pc, job>>
CloseClient == /\ life = "closing" /\ pending = {} /\ life' = "waiting"
               /\ UNCHANGED <<scenario, ctxDone, handler, sessions, tableVars, nameVars, wg, pc, job>>

(* wg.Wait, with the mutex still held. *)
CloseEnd == /\ life = "waiting" /\ wg = 0 /\ life' = "closed" /\ handler' = FALSE
            /\ UNCHANGED <<scenario, ctxDone, sessions, tableVars, nameVars, wg, pc, job>>

(* All that comes of it is that indications are dropped, so let there be one. *)
CancelContext == /\ pending # {} /\ ~ctxDone /\ ctxDone' = TRUE
                 /\ UNCHANGED <<scenario, life, handler, sessions, tableVars, nameVars, wg, pc, job>>

(* Without a table the handler is not kept. *)
OnDeviceEvent == Wired /\ ~handler /\ handler' = TRUE /\ UNCHANGED <<scenario, life, ctxDone, sessions, tableVars, nameVars, wg, pc, job>>

(************************ indications and the table ***********************)

(* Mutant: an announcement from a known device is ignored. *)
Applied_KnownKept(e, rec) ==
  CASE e.kind = "join" -> [nwk |-> e.no, caps |-> FALSE]
    [] e.kind = "leave" -> NoRecord
    [] e.kind = "announce" -> IF rec = NoRecord THEN [nwk |-> e.no, caps |-> TRUE] ELSE rec

(* What an indication makes of a device's record. *)
Applied(e, rec) ==
  CASE e.kind = "join" -> [nwk |-> e.no, caps |-> FALSE]
    [] e.kind = "leave" -> NoRecord
    [] e.kind = "announce" -> [nwk |-> e.no, caps |-> IF rec = NoRecord THEN TRUE ELSE rec.caps]

(* A frame of the coordinator starts a goroutine. The order of two that run at *)
(* once is anybody's guess.                                                    *)
Indicate(kind, d) ==
  LET e == [no |-> events + 1, kind |-> kind, dev |-> d]
  IN  /\ ClientUp /\ events < scenario.events
      /\ events' = e.no /\ pending' = pending \cup {e}
      /\ said' = [said EXCEPT ![d] = IF kind = "leave" THEN 0 ELSE e.no]
      /\ unsure' = IF \E o \in pending : o.dev = d THEN unsure \cup {d} ELSE unsure
      /\ UNCHANGED <<lifeVars, devices, running, asking, nameVars, wg, pc, job>>

(* Once Open's context has ended, indications are dropped. *)
Dropped(e) == /\ e \in pending /\ ctxDone
              /\ pending' = pending \ {e} /\ unsure' = unsure \cup {e.dev}
              /\ UNCHANGED <<lifeVars, devices, running, asking, said, events, nameVars, wg, pc, job>>

(* The callbacks of setupDeviceEventCallbacks. *)
Handle(e) ==
  /\ e \in pending
  /\ pending' = pending \ {e}
  /\ devices' = [devices EXCEPT ![e.dev] = Applied(e, @)]
  /\ LET told == handler /\ e.kind # "announce"
     IN  /\ running' = IF told THEN running \cup {e.no} ELSE running
         /\ wg' = wg + (IF told THEN 1 ELSE 0) + (IF e.kind = "leave" THEN 1 ELSE 0)
  /\ IF e.kind = "leave"
     THEN pc' = [pc EXCEPT ![e.no] = "lock"] /\ job' = [job EXCEPT ![e.no] = Job("delete", e.dev, NoName)]
     ELSE UNCHANGED <<pc, job>>
  /\ UNCHANGED <<lifeVars, asking, said, unsure, events, nameVars>>

(* A handler may call the adapter, as the one of examples/advanced/mqtt_bridge.go *)
(* that interviews the device: checkOpen takes the mutex.                         *)
HandlerCalls(n) == /\ n \in running \ asking /\ asking' = asking \cup {n}
                   /\ UNCHANGED <<lifeVars, devices, pending, running, said, unsure, events, nameVars, wg, pc, job>>

(* Mutant: a handler that returns is not taken off the WaitGroup. *)
HandlerEnds_Counted(n) ==
  /\ n \in running /\ (n \in asking => ~Locked)
  /\ running' = running \ {n} /\ asking' = asking \ {n} /\ wg' = wg
  /\ UNCHANGED <<lifeVars, devices, pending, said, unsure, events, nameVars, pc, job>>

HandlerEnds(n) ==
  /\ n \in running /\ (n \in asking => ~Locked)
  /\ running' = running \ {n} /\ asking' = asking \ {n} /\ wg' = wg - 1
  /\ UNCHANGED <<lifeVars, devices, pending, said, unsure, events, nameVars, pc, job>>

(********************************** calls *********************************)

(* The end of a call; a cleaner leaves the WaitGroup. *)
Leave(p, how) == /\ pc' = [pc EXCEPT ![p] = how]
                 /\ tab' = [tab EXCEPT ![p] = <<>>] /\ pos' = [pos EXCEPT ![p] = 1]
                 /\ wg' = IF p \in Cleaners THEN wg - 1 ELSE wg

Call(u) == /\ pc[u] = "idle" /\ u \in DOMAIN scenario.calls
           /\ pc' = [pc EXCEPT ![u] = "lock"] /\ job' = [job EXCEPT ![u] = scenario.calls[u]]
           /\ UNCHANGED <<lifeVars, tableVars, nameVars, wg>>

(* The mutex, for a moment. *)
Changes(p) == job[p].kind \in {"set", "delete"}
Enter(p) ==
  /\ pc[p] = "lock" /\ ~Locked
  /\ IF life # "open" THEN Leave(p, "failed") /\ UNCHANGED mixed
     ELSE /\ pc' = [pc EXCEPT ![p] = IF job[p].kind \in {"remove", "force"} THEN "ask" ELSE "read"]
          /\ mixed' = (mixed \/ \E q \in Procs \ {p} : pc[q] \in {"read", "write"} /\ Changes(q) /\ Changes(p))
          /\ UNCHANGED <<wg, tab, pos>>
  /\ UNCHANGED <<lifeVars, tableVars, nv, wanted, hurt, job>>

(* RemoveDevice asks the device to leave, ForceRemoveDevice deletes it from the *)
(* coordinator's table; both then forget it and delete its name.                *)
AskLeave(p) ==
  /\ pc[p] = "ask"
  /\ \/ ClientUp /\ pc' = [pc EXCEPT ![p] = "forget"]
     \/ pc' = [pc EXCEPT ![p] = "failed"]
  /\ UNCHANGED <<lifeVars, tableVars, nameVars, wg, job>>

(* The table is used without the mutex: if Close has come in between it is nil. *)
Forget(p) ==
  /\ pc[p] = "forget"
  /\ IF Wired
     THEN /\ devices' = [devices EXCEPT ![job[p].dev] = NoRecord] /\ said' = [said EXCEPT ![job[p].dev] = 0]
          /\ unsure' = IF \E e \in pending : e.dev = job[p].dev THEN unsure \cup {job[p].dev} ELSE unsure
          /\ pc' = [pc EXCEPT ![p] = "lock"] /\ job' = [job EXCEPT ![p].kind = "delete"]
     ELSE pc' = [pc EXCEPT ![p] = "panic"] /\ UNCHANGED <<devices, said, unsure, job>>
  /\ UNCHANGED <<lifeVars, pending, running, asking, events, nameVars, wg>>

(* A request that fails: the client is closed, the coordinator does not answer. *)
RequestFails(p) == /\ pc[p] \in {"read", "write"} /\ Leave(p, "failed")
                   /\ UNCHANGED <<lifeVars, tableVars, nv, wanted, mixed, hurt, job>>

ReadItem(p) ==
  /\ pc[p] = "read" /\ ClientUp /\ pos[p] <= MaxEntries /\ pos[p] <= Len(nv)
  /\ tab' = [tab EXCEPT ![p] = IF nv[pos[p]] = Corrupt THEN @ ELSE Append(@, nv[pos[p]])]
  /\ pos' = [pos EXCEPT ![p] = @ + 1]
  /\ UNCHANGED <<lifeVars, tableVars, nv, wanted, mixed, hurt, wg, pc, job>>

(* The item after the last is not there. What is to be changed is changed and written. *)
ReadEnds(p) ==
  LET j == job[p]
      gone == j.kind = "delete" /\ Slots(tab[p], j.dev) = {}
  IN  /\ pc[p] = "read" /\ ClientUp /\ (pos[p] > MaxEntries \/ pos[p] > Len(nv))
      /\ IF j.kind \in {"get", "list"} \/ gone
         THEN /\ Leave(p, "done")
              /\ wanted' = IF gone THEN [wanted EXCEPT ![j.dev] = {NoName}] ELSE wanted
         ELSE /\ tab' = [tab EXCEPT ![p] = IF j.kind = "set" THEN WithName(@, j.dev, j.name) ELSE WithoutName(@, j.dev)]
              /\ pos' = [pos EXCEPT ![p] = 1]
              /\ wanted' = [wanted EXCEPT ![j.dev] = @ \cup {j.name}]
              /\ pc' = [pc EXCEPT ![p] = "write"] /\ UNCHANGED wg
      /\ UNCHANGED <<lifeVars, tableVars, nv, mixed, hurt, job>>

(* Every item is written again. *)
WriteItem(p) ==
  /\ pc[p] = "write" /\ ClientUp
  /\ nv' = [i \in 1..(IF pos[p] > Len(nv) THEN pos[p] ELSE Len(nv)) |-> IF i = pos[p] THEN tab[p][i] ELSE nv[i]]
  /\ IF pos[p] = Len(tab[p])
     THEN Leave(p, "done") /\ wanted' = [wanted EXCEPT ![job[p].dev] = {job[p].name}]
     ELSE pos' = [pos EXCEPT ![p] = @ + 1] /\ UNCHANGED <<pc, wg, tab, wanted>>
  /\ UNCHANGED <<lifeVars, tableVars, mixed, hurt, job>>

Proceed(p) == Enter(p) \/ AskLeave(p) \/ Forget(p) \/ RequestFails(p) \/ ReadItem(p) \/ ReadEnds(p) \/ WriteItem(p)

Next == \/ OpenBegin \/ OpenWire \/ OpenEnd \/ OpenFail \/ OpenAbandon
        \/ CloseBegin \/ CloseClient \/ CloseEnd \/ CancelContext \/ OnDeviceEvent
        \/ \E d \in Devices, kind \in {"join", "announce", "leave"} : Indicate(kind, d)
        \/ \E e \in pending : Dropped(e) \/ Handle(e)
        \/ \E n \in running : HandlerCalls(n) \/ HandlerEnds(n)
        \/ \E u \in Users : Call(u)
        \/ \E p \in Procs : Proceed(p)

(* Goroutines run and requests end; the user's handler returns once its calls *)
(* got the mutex; Open goes on.                                              *)
Fairness == /\ WF_vars(OpenWire \/ OpenFail) /\ WF_vars(OpenEnd \/ OpenFail) /\ WF_vars(OpenAbandon)
            /\ WF_vars(CloseClient) /\ WF_vars(CloseEnd)
            /\ WF_vars(\E e \in pending : Handle(e)) /\ WF_vars(\E n \in running : HandlerEnds(n))
            /\ \A p \in Procs : WF_vars(Proceed(p))

Spec == Init /\ [][Next]_vars /\ Fairness

(******************************* properties *******************************)

Records == {NoRecord} \cup [nwk : 1..events, caps : BOOLEAN]
TypeOK == /\ devices \in [Devices -> Records] /\ said \in [Devices -> 0..events]
          /\ running \subseteq 1..events /\ asking \subseteq running /\ wg \in Nat /\ unsure \subseteq Devices
          /\ \A p \in Procs : Len(tab[p]) <= MaxEntries + 1 /\ pos[p] \in 1..(MaxEntries + 1)

(* The table has the devices, and each the network address, that the latest *)
(* indications and calls say, unless two for one device were under way at   *)
(* the same time or the context had ended.                                  *)
TableFollowsIndications ==
  \A d \in Devices : (Wired /\ d \notin unsure /\ ~\E e \in pending : e.dev = d) => devices[d].nwk = said[d]

(* A device has the name it was last given, or none after a deletion, and a *)
(* change that failed half-way leaves the old or the new one; other devices *)
(* keep theirs. Not so if two changes overlapped or the table was full; and *)
(* behind an item that does not parse, or if the device had two, a deleted  *)
(* name may come back.                                                      *)
NamesAreAsAsked ==
  \A d \in Devices : (~mixed /\ Len(nv) <= MaxEntries) =>
     \/ NameOf(Readable(nv), d) \in wanted[d]
     \/ hurt /\ NoName \in wanted[d]

(* A goroutine that Close waits for waits for the mutex that Close holds: the *)
(* cleaner of a device that left, or a handler that calls the adapter.        *)
Stuck == life = "waiting" /\ (asking # {} \/ \E n \in Cleaners : pc[n] = "lock")

(* Close returns, whatever indications, handlers and cleaners it finds under *)
(* way, or ends up stuck like that, for ever.                                *)
CloseReturns == life = "closing" ~> (life = "closed" \/ Stuck)

=============================================================================
