--------------------------- MODULE NetworkManagement ---------------------------
(***************************************************************************)
(* Callers that form a network, move it to another channel, erase it, save *)
(* and restore it, or delete a device from the coordinator's table         *)
(* (pkg/adapter/network_mgmt.go, backup.go, pkg/znp/nv.go, addr_mgr.go).   *)
(* Nothing keeps one out while another runs: an operation is what module   *)
(* NvMemory lists, one request at a time, and the coordinator goes on with *)
(* its own affairs in between.                                             *)
(***************************************************************************)
EXTENDS NvMemory

CONSTANTS Callers, Nobody,
          Unknown,     \* a length not asked for yet
          Rounds,      \* waits for a change of state before the deadline ends
          Scenarios    \* what is in memory, what each caller does, what may go wrong

(* The entries of the extended table, and the devices that either table has. *)
Good(entry) == Len(entry) = 2 /\ ~IsEmpty(entry)
Listed(entries) == {entries[k] : k \in {i \in 1..Len(entries) : Good(entries[i])}}
DevicesOf(cells, entries) == DevicesIn(Parsed(cells)) \cup DevicesIn(Listed(entries))

(* An item has its size, or is not there. *)
ASSUME ScenariosAreSane ==
  \A s \in Scenarios :
    /\ s.mem \in [Items -> Seq(Int)] /\ s.table \in Seq(Seq(Int))
    /\ \A i \in Items \ {"addrMgr"} : Len(s.mem[i]) \in {0, SizeOf(i)}
    /\ s.devs \subseteq DevicesOf(s.mem.addrMgr, s.table)
    /\ \A c \in DOMAIN s.jobs : s.jobs[c] \in Seq([kind : Operations, arg : Int])
    /\ s.faults \in Nat /\ s.own \in Nat /\ s.joins \subseteq Int

VARIABLES scenario,
          mem, table,  \* NV memory: the items, and the entries of the extended table
          mask,        \* the primary channel of the next formation
          forming,     \* whose commissioning the coordinator is at
          open,        \* the adapter
          pc, queue, call,
          file,        \* the last backup
          faults, own,
          begun, before, alone, sound   \* history

vars == <<scenario, mem, table, mask, forming, open, pc, queue, call, file, faults, own, begun, before, alone, sound>>
device == <<mem, table, mask, forming>>
history == <<begun, before>>

NoOut == [ieee |-> <<>>, nib |-> <<>>, key |-> <<>>, devs |-> {}, power |-> <<>>, found |-> FALSE]
NoOp == [kind |-> "none", arg |-> 0]
Idle == [op |-> NoOp, plan |-> <<>>, at |-> 1, off |-> 0, done |-> 0, total |-> Unknown, buf |-> <<>>, out |-> NoOut]
NoFile == [ieee |-> <<>>, key |-> <<>>, devs |-> {}]

Ended == {"idle", "done", "failed", "panicked"}
At(c) == call[c].plan[call[c].at]
Asks(c, do) == pc[c] = "run" /\ open /\ At(c).do \in do
Fault == faults < scenario.faults /\ faults' = faults + 1

Init ==
  /\ scenario \in Scenarios
  /\ mem = scenario.mem /\ table = scenario.table /\ mask = 0 /\ forming = Nobody /\ open = TRUE
  /\ pc = [c \in Callers |-> "idle"] /\ call = [c \in Callers |-> Idle]
  /\ queue = [c \in Callers |-> IF c \in DOMAIN scenario.jobs THEN scenario.jobs[c] ELSE <<>>]
  /\ file = NoFile /\ faults = 0 /\ own = 0
  /\ begun = {} /\ before = [c \in Callers |-> [mem |-> mem, table |-> table, file |-> file]] /\ alone = {} /\ sound = Callers

(********************************* outcomes *******************************)

(* checkOpen and the arguments come first; the mutex is not held after that. *)
Begin(c) ==
  /\ pc[c] \in {"idle", "done", "failed"} /\ queue[c] # <<>>
  /\ LET op == Head(queue[c])
     IN  /\ queue' = [queue EXCEPT ![c] = Tail(@)] /\ begun' = begun \cup {op}
         /\ call' = [call EXCEPT ![c] = [Idle EXCEPT !.op = op, !.plan = IF Valid(op, file) THEN Stages(op, file) ELSE <<>>]]
         /\ pc' = [pc EXCEPT ![c] = IF open /\ Valid(op, file) THEN "run" ELSE "failed"]
  /\ before' = [before EXCEPT ![c] = [mem |-> mem, table |-> table, file |-> file]]
  /\ alone' = alone \cup {c} /\ sound' = sound \cup {c}
  /\ UNCHANGED <<scenario, device, open, file, faults, own>>

(* To the stage n further on, or to the end. *)
Proceed(c, k, n) ==
  LET i == k.at + n
      ended == i > Len(k.plan)
  IN  /\ call' = [call EXCEPT ![c] = IF ended THEN k ELSE [k EXCEPT !.at = i, !.off = 0, !.done = 0, !.total = Unknown]]
      /\ pc' = [pc EXCEPT ![c] = IF ended THEN "done" ELSE IF k.plan[i].do = "await" THEN "register" ELSE "run"]
      /\ file' = IF ended /\ k.op.kind = "backup"
                 THEN [ieee |-> k.out.ieee, key |-> k.out.key, devs |-> {e \in k.out.devs : e[2] # Own}]
                 ELSE file
Continue(c, k) == call' = [call EXCEPT ![c] = k] /\ UNCHANGED <<pc, file>>

(* A request that failed ends the call, unless its error is dropped, or there is another table to look in. *)
Miss(c) ==
  LET k == [call[c] EXCEPT !.out.devs = {}]
  IN  /\ sound' = sound \ {c}
      /\ IF At(c).try \/ At(c).do \in {"exRead", "exDelete"} THEN Proceed(c, k, 1)
         ELSE pc' = [pc EXCEPT ![c] = "failed"] /\ UNCHANGED <<call, file>>

(* The answer comes, or is lost after the request was carried out. *)
Answered(c, k, n) ==
  /\ \/ Proceed(c, k, n) /\ UNCHANGED <<faults, sound>>
     \/ Fault /\ Miss(c)
Disturbs(c) == alone' = IF device' = device THEN alone ELSE alone \cap {c}
Rest == UNCHANGED <<scenario, open, queue, own, history>>
Reads == UNCHANGED <<device, alone>> /\ Rest

(******************************** requests ********************************)

(* The coordinator refuses, answers with an empty chunk, or the request is lost; *)
(* after Close, nothing is sent.                                                 *)
LoseRequest(c) ==
  /\ pc[c] = "run" /\ (IF open THEN Fault ELSE UNCHANGED faults)
  /\ open \/ call[c].op.kind \notin {"backup", "restore"}
  /\ Miss(c) /\ Reads

(* CreateBackup and RestoreBackup use a client that Close has set to nil. *)
Panic(c) ==
  /\ pc[c] = "run" /\ ~open /\ call[c].op.kind \in {"backup", "restore"}
  /\ pc' = [pc EXCEPT ![c] = "panicked"] /\ UNCHANGED <<call, file, faults, sound>> /\ Reads

Patched(s, buf) == IF s.item = "nib" THEN [buf EXCEPT ![ChannelAt] = s.data[1]] ELSE Without(buf, s.data[1])
Needed(s, buf) == IF s.item = "nib" THEN Len(buf) >= ChannelAt ELSE Places(buf, s.data[1]) # {}
DataOf(c) == IF At(c).do = "writeBack" THEN Patched(At(c), call[c].buf) ELSE At(c).data

(* NvWrite, once or chunk after chunk. *)
WriteChunk(c) ==
  LET k == call[c]
      data == DataOf(c)
      chunk == SubSeq(data, k.done + 1, Lesser(k.done + Chunk, Len(data)))
      next == [k EXCEPT !.done = @ + Len(chunk), !.off = NextOffset(@, Len(chunk)), !.out.found = At(c).item = "addrMgr"]
  IN  /\ Asks(c, {"write", "writeAll", "writeBack"})
      /\ \/ /\ Holds(mem[At(c).item], k.off, chunk)
            /\ mem' = [mem EXCEPT ![At(c).item] = Spliced(@, k.off, chunk)]
            /\ \/ next.done >= Len(data) /\ Answered(c, next, 1)
               \/ next.done < Len(data) /\ Continue(c, next) /\ UNCHANGED <<faults, sound>>
               \/ next.done < Len(data) /\ Fault /\ Miss(c)
         \/ ~Holds(mem[At(c).item], k.off, chunk) /\ Miss(c) /\ UNCHANGED <<mem, faults>>
      /\ UNCHANGED <<table, mask, forming>> /\ Disturbs(c) /\ Rest

InitItem(c) ==
  /\ Asks(c, {"init"})
  /\ mem' = [mem EXCEPT ![At(c).item] = IF @ = <<>> THEN At(c).data ELSE @]
  /\ Answered(c, call[c], 1) /\ UNCHANGED <<table, mask, forming>> /\ Disturbs(c) /\ Rest

ReadValue(c) ==
  LET cells == Piece(mem[At(c).item], 0)
  IN  /\ Asks(c, {"read"})
      /\ IF cells = <<>> THEN Miss(c) /\ UNCHANGED faults
         ELSE Proceed(c, [call[c] EXCEPT !.out.power = <<Signed(cells[1])>>], 1) /\ UNCHANGED <<faults, sound>>
      /\ Reads

(* What an item that was read whole is good for. *)
Whole(c, k) ==
  LET after == IF k.at < Len(k.plan) THEN k.plan[k.at + 1] ELSE Reset
      out == CASE At(c).item = "nib" -> [k.out EXCEPT !.nib = k.buf]
               [] At(c).item = "key" -> [k.out EXCEPT !.key = k.buf]
               [] OTHER -> [k.out EXCEPT !.devs = Parsed(k.buf)]
  IN  Proceed(c, [k EXCEPT !.out = out], IF after.do = "writeBack" /\ ~Needed(after, k.buf) THEN 2 ELSE 1)

ReadLength(c) ==
  LET n == Len(mem[At(c).item])
      k == [call[c] EXCEPT !.buf = <<>>, !.total = n]
  IN  /\ Asks(c, {"readAll"}) /\ call[c].total = Unknown
      /\ IF n = 0 THEN Whole(c, k) ELSE Continue(c, k)
      /\ UNCHANGED <<faults, sound>> /\ Reads

ReadChunk(c) ==
  LET k == call[c]
      chunk == Piece(mem[At(c).item], k.off)
      buf == k.buf \o chunk
      next == [k EXCEPT !.buf = SubSeq(buf, 1, Lesser(Len(buf), k.total)), !.done = @ + Len(chunk), !.off = NextOffset(@, Len(chunk))]
  IN  /\ Asks(c, {"readAll"}) /\ k.total # Unknown
      /\ IF next.done >= k.total THEN Whole(c, next) ELSE Continue(c, next)
      /\ UNCHANGED <<faults, sound>> /\ Reads

(* NvReadTable: an entry after the other, up to the first that is not there. *)
ReadEntry(c) ==
  LET k == call[c]
      i == k.off + 1
      there == i <= Len(table) /\ i <= MaxSubs
  IN  /\ Asks(c, {"exRead"})
      /\ IF there THEN Continue(c, [k EXCEPT !.off = i, !.out.devs = IF Good(table[i]) THEN @ \cup {table[i]} ELSE @])
         ELSE Proceed(c, k, IF k.out.devs = {} THEN 1 ELSE 2)
      /\ UNCHANGED <<faults, sound>> /\ Reads

(* deleteAddrMgrEntryEx *)
DeleteEntry(c) ==
  LET k == call[c]
      i == k.off + 1
      there == i <= Len(table) /\ i <= MaxSubs
      match == there /\ Len(table[i]) = 2 /\ table[i][2] = k.op.arg
  IN  /\ Asks(c, {"exDelete"})
      /\ \/ match /\ table' = NvWriteEx(table, i, Emptied) /\ Answered(c, [k EXCEPT !.out.found = TRUE], Len(k.plan))
         \/ there /\ ~match /\ Continue(c, [k EXCEPT !.off = i]) /\ UNCHANGED <<table, faults, sound>>
         \/ ~there /\ Proceed(c, k, 1) /\ UNCHANGED <<table, faults, sound>>
      /\ UNCHANGED <<mem, mask, forming>> /\ Disturbs(c) /\ Rest

Tune(c) == Asks(c, {"tune"}) /\ Proceed(c, call[c], 1) /\ UNCHANGED <<faults, sound>> /\ Reads

GetInfo(c) ==
  /\ Asks(c, {"deviceInfo", "nwkInfo"})
  /\ Proceed(c, IF At(c).do = "deviceInfo" THEN [call[c] EXCEPT !.out.ieee = mem.extAddr] ELSE call[c], 1)
  /\ UNCHANGED <<faults, sound>> /\ Reads

SetChannel(c) ==
  /\ Asks(c, {"primary", "secondary"})
  /\ mask' = IF At(c).do = "primary" THEN At(c).data[1] ELSE mask
  /\ Answered(c, call[c], 1) /\ UNCHANGED <<mem, table, forming>> /\ Disturbs(c) /\ Rest

Commission(c) ==
  /\ Asks(c, {"commission"}) /\ forming' = c
  /\ Answered(c, call[c], 1) /\ UNCHANGED <<mem, table, mask>> /\ Disturbs(c) /\ Rest

(******************************* the coordinator **************************)

(* What a restart leaves: with the order to clear it, no network and no devices. *)
Cleared(m) == [m EXCEPT !.startup = <<0>>, !.nib = Zeros(Len(@)), !.key = Zeros(Len(@)),
                        !.addrMgr = [i \in 1..Len(@) |-> IF i % 2 = 1 THEN Emptied[1] ELSE Emptied[2]]]
Restarts == /\ mem' = IF mem.startup = <<3>> THEN Cleared(mem) ELSE mem
            /\ table' = IF mem.startup = <<3>> THEN [i \in 1..Len(table) |-> Emptied] ELSE table
            /\ forming' = Nobody /\ mask' = mask

ResetRequest(c) == Asks(c, {"reset"}) /\ Restarts /\ Answered(c, call[c], 1) /\ Disturbs(c) /\ Rest

Moved(m, ch) == [m EXCEPT !.nib = [i \in 1..Len(@) |-> IF i = ChannelAt THEN ch ELSE @[i]]]
NwkUpdate(c) ==
  /\ Asks(c, {"nwkUpdate"})
  /\ mem' = Moved(mem, At(c).data[1])
  /\ Answered(c, call[c], 1) /\ UNCHANGED <<table, mask, forming>> /\ Disturbs(c) /\ Rest

OwnAffair == own < scenario.own /\ own' = own + 1
Quiet == UNCHANGED <<scenario, open, pc, queue, call, file, faults, history, sound>>

(* It counts its updates, loses power, or a device joins. *)
CountUpdate == /\ OwnAffair /\ Len(mem.nib) > 0 /\ mem' = [mem EXCEPT !.nib[1] = @ + 1]
               /\ UNCHANGED <<table, mask, forming>> /\ alone' = {} /\ Quiet
LosePower == OwnAffair /\ Restarts /\ alone' = {} /\ Quiet
Join(d) ==
  LET free == {k \in 1..Count(mem.addrMgr) : Entry(mem.addrMgr, k) = Emptied}
      k == Least(free)
  IN  /\ OwnAffair /\ free # {} /\ Places(mem.addrMgr, d) = {}
      /\ mem' = [mem EXCEPT !.addrMgr[2 * k - 1] = 1, !.addrMgr[2 * k] = d]
      /\ UNCHANGED <<table, mask, forming>> /\ alone' = {} /\ Quiet

(* It forms a network, unless it has one, and says that it is the coordinator: *)
(* to one who waits for a change of state, whoever that is, or to nobody.      *)
NoNetwork(m) == m.nib = <<>> \/ m.nib[ChannelAt] = 0
NewNetwork(m) == [m EXCEPT !.nib = [i \in 1..NibSize |-> IF i = ChannelAt THEN mask ELSE IF i = 1 THEN 1 ELSE 0],
                           !.key = <<0, IF @ = <<>> THEN 1 ELSE @[2] + 1>>]
Starts ==
  /\ forming # Nobody /\ forming' = Nobody
  /\ mem' = IF NoNetwork(mem) THEN NewNetwork(mem) ELSE mem
  /\ LET waiting == {c \in Callers : pc[c] = "waiting"}
     IN  \/ \E c \in waiting : Proceed(c, call[c], 1)
         \/ waiting = {} /\ UNCHANGED <<pc, call, file>>
  /\ alone' = IF call[forming].op.kind = "form" THEN alone \cap {forming} ELSE {}
  /\ UNCHANGED <<scenario, table, mask, open, queue, faults, own, history, sound>>

(* Before that, it may say that it is on its way. *)
Stirs(c) ==
  /\ forming # Nobody /\ pc[c] = "waiting" /\ call[c].off < Rounds
  /\ pc' = [pc EXCEPT ![c] = "register"] /\ call' = [call EXCEPT ![c].off = @ + 1]
  /\ UNCHANGED <<scenario, device, open, queue, file, faults, own, history, alone, sound>>

(******************************** waiting *********************************)

Register(c) == pc[c] = "register" /\ pc' = [pc EXCEPT ![c] = "waiting"] /\ UNCHANGED <<call, file, faults, sound>> /\ Reads

(* One wait is over, or the time for all of them. *)
Timeout(c) ==
  /\ pc[c] = "waiting"
  /\ \/ call[c].off < Rounds /\ pc' = [pc EXCEPT ![c] = "register"] /\ call' = [call EXCEPT ![c].off = @ + 1]
     \/ call[c].off = Rounds /\ pc' = [pc EXCEPT ![c] = "failed"] /\ UNCHANGED call
  /\ UNCHANGED <<file, faults, sound>> /\ Reads

Close == /\ scenario.closes /\ open /\ open' = FALSE
         /\ UNCHANGED <<scenario, device, pc, queue, call, file, faults, own, history, alone, sound>>

Step(c) == \/ Begin(c) \/ LoseRequest(c) \/ Panic(c) \/ WriteChunk(c) \/ InitItem(c) \/ ReadValue(c) \/ ReadLength(c)
           \/ ReadChunk(c) \/ ReadEntry(c) \/ DeleteEntry(c) \/ Tune(c) \/ GetInfo(c) \/ SetChannel(c) \/ Commission(c)
           \/ ResetRequest(c) \/ NwkUpdate(c) \/ Register(c) \/ Timeout(c)

Next == \/ \E c \in Callers : Step(c) \/ Stirs(c)
        \/ CountUpdate \/ LosePower \/ (\E d \in scenario.joins : Join(d)) \/ Starts \/ Close

Spec == Init /\ [][Next]_vars

(******************************* properties *******************************)

TypeOK ==
  /\ mem \in [Items -> Seq(Nat)] /\ mask \in Nat /\ forming \in Callers \cup {Nobody}
  /\ pc \in [Callers -> Ended \cup {"run", "register", "waiting"}]
  /\ \A c \in Callers : call[c].off \in 0..(IF pc[c] \in {"register", "waiting"} THEN Rounds ELSE OffsetMod + MaxSubs)
                        /\ (pc[c] \in {"run", "register", "waiting"} => call[c].at \in 1..Len(call[c].plan))

Devices == DevicesOf(mem.addrMgr, table)
Kinds == {op.kind : op \in begun}
(* A call that returned without error, while nobody else changed anything. *)
Succeeded(c) == pc[c] = "done" /\ c \in alone
(* A failed formation leaves the order to erase everything at the next restart. *)
Spared(c) == before[c].mem.startup # <<3>>

(* FormNetwork that succeeds leaves a coordinator on the channel asked for, *)
(* with none of the old devices, whatever was there before and however      *)
(* often the indication was missed.                                         *)
FormedAsAsked ==
  \A c \in Callers : (Succeeded(c) /\ call[c].op.kind = "form") =>
     /\ mem.startup = <<0>> /\ mem.type = <<0>> /\ mem.zdoCb = <<1>>
     /\ mem.nib[ChannelAt] = WithDefault(call[c].op.arg) /\ Devices = {}
     /\ mem.extAddr = before[c].mem.extAddr
     /\ c \in sound => mem.profile = <<4>>

(* Every other operation that succeeds has changed what it is for, and nothing *)
(* else: the restart in it erases nothing that was not to be erased.           *)
ChangesAreAsAsked ==
  \A c \in Callers :
     LET op == call[c].op
         m == before[c].mem
         same(keep) == \A i \in Items \ keep : mem[i] = m[i]
     IN  (Succeeded(c) /\ Spared(c)) =>
            /\ op.kind \in {"channel", "seamless"} => mem = (IF m.nib = <<>> THEN m ELSE Moved(m, op.arg))
            /\ op.kind \in {"backup", "getPower"} => mem = m
            /\ op.kind = "factoryReset" => /\ same({"nib", "key", "altKey"})
                                           /\ c \in sound => mem.nib = Zeros(Len(m.nib)) /\ mem.key = Zeros(2) /\ mem.altKey = Zeros(2)
            /\ op.kind = "restore" => /\ same({"extAddr", "key", "altKey"})
                                      /\ mem.extAddr = before[c].file.ieee /\ mem.key = before[c].file.key /\ mem.altKey = before[c].file.key
            /\ op.kind = "setPower" => same({"power"}) /\ (c \in sound => mem.power = <<Byte(op.arg)>>)
            /\ op.kind = "delete" => same({"addrMgr"})
            /\ op.kind \notin {"form", "delete"} => table = before[c].table

(* The entries that have a device's address, and whether there is but one. *)
Rows(entries, d) == {i \in 1..Len(entries) : Len(entries[i]) = 2 /\ entries[i][2] = d}
Single(m, entries, d) ==
  /\ Places(m.addrMgr, d) = {} \/ Rows(entries, d) = {}
  /\ \A i, j \in Places(m.addrMgr, d) : i = j
  /\ \A i, j \in Rows(entries, d) : i = j

(* What a call tells its caller is what memory holds: the power; the network *)
(* and the devices of a backup, those of the extended table if it has any;   *)
(* whether the device was there to delete, and then is not any more, if it   *)
(* had one entry. A request that failed may hide the devices, since the      *)
(* error is taken for an empty table; a table too long for the offsets, or   *)
(* for the entries that are looked at, is not read whole.                    *)
AnswersAreTheMemorys ==
  \A c \in Callers :
     LET op == call[c].op
         out == call[c].out
         b == before[c]
         fits == Fits(Len(mem.addrMgr)) /\ Len(table) <= MaxSubs
     IN  Succeeded(c) =>
            /\ op.kind = "getPower" => out.power = <<Signed(mem.power[1])>>
            /\ op.kind = "backup" =>
                  /\ out.ieee = mem.extAddr /\ out.nib = mem.nib /\ out.key = mem.key
                  /\ (c \in sound /\ fits) => out.devs = IF Listed(table) # {} THEN Listed(table) ELSE Parsed(mem.addrMgr)
            /\ (op.kind = "delete" /\ fits) =>
                  /\ out.found => /\ op.arg # FF => <<mem.addrMgr, table>> # <<b.mem.addrMgr, b.table>>
                                  /\ Single(b.mem, b.table, op.arg) => op.arg \notin Devices
                  /\ ~out.found => mem = b.mem /\ (c \in sound => op.arg \notin Devices)

(* However calls overlap and whatever fails in them, a device that nobody asked *)
(* to delete stays in the table, as long as no formation was asked for, now or  *)
(* by a failed one before, nobody joined meanwhile and the table fits the       *)
(* offsets.                                                                     *)
OthersKeepTheirEntries ==
  (own = 0 /\ "form" \notin Kinds /\ scenario.mem.startup # <<3>> /\ Fits(Len(mem.addrMgr))) =>
     \A d \in scenario.devs : (\E op \in begun : op.kind = "delete" /\ op.arg = d) \/ d \in Devices

(* The network is lost only after somebody began to form one or to reset to *)
(* factory settings, however other calls overlap, fail or are cut short.    *)
ErasedOnlyWhenAsked ==
  (Len(scenario.mem.nib) >= ChannelAt /\ mem.nib[ChannelAt] = 0) =>
     scenario.mem.nib[ChannelAt] = 0 \/ scenario.mem.startup = <<3>> \/ Kinds \cap {"form", "factoryReset"} # {}

=============================================================================
