----------------------- MODULE NetworkManagementProofs -----------------------
(***************************************************************************)
(* Proofs about callers that change the coordinator's memory, for every    *)
(* memory to begin with, all jobs of all callers, every size of a chunk    *)
(* and width of the offsets, and any number of failures. Two invariants:   *)
(* IInv is about calls that disturb one another, for what none of them may *)
(* lose; Typed and OnTheWay about those that nobody disturbs, stage by     *)
(* stage, for what each of them achieves.                                  *)
(***************************************************************************)
EXTENDS NetworkManagement, SequenceTheorems, WellFoundedInduction, TLAPS

-----------------------------------------------------------------------------
(***************************************************************************)
(* The first invariant. Its parts are about a call k, memory m and a table *)
(* t, in scenario s, when the operations b were begun and the coordinator  *)
(* did o things of its own, so that they can be stated of a step's outcome *)
(* too.                                                                    *)
(***************************************************************************)
\* Nobody forms a network, nor did before and left the order to clear the state.
NoForm(s, b) == s.mem.startup # <<3>> /\ \A op \in b : op.kind # "form"
Asked(d, b) == \E op \in b : op.kind = "delete" /\ op.arg = d
\* What is written to the table of devices is what was read from it.
Calm(s, o) == o = 0 /\ Fits(Len(s.mem.addrMgr))

\* A stage of an operation other than a formation: it writes neither the order
\* to clear the state nor, but for a deletion, the table of devices; to the
\* network information it writes only channels, unless it is to erase it.
SafeStage(op, st) ==
  /\ st.do \notin {"commission", "await"}
  /\ st.do \in {"write", "writeAll", "init"} =>
       st.item \notin {"startup", "addrMgr"} /\ (st.item = "nib" => op.kind = "factoryReset" /\ st.do # "init")
  /\ st.do \in {"write", "writeAll"} /\ st.item = "nib" => st.data \in Seq(Int) /\ Len(st.data) > 0
  /\ st.do = "writeBack" => \/ st.item = "nib" /\ st.data[1] \in Channels
                            \/ st.item = "addrMgr" /\ st.data[1] = op.arg /\ op.kind = "delete"
  /\ st.do = "nwkUpdate" => st.data[1] \in Channels
  /\ st.do = "exDelete" => op.kind = "delete"

\* What is written back was read just before, without fail.
Follows(p, i) ==
  p[i].do = "writeBack" =>
    /\ i > 1 /\ p[i - 1].do = "readAll" /\ p[i - 1].item = p[i].item /\ ~p[i - 1].try
    /\ i > 2 => p[i - 2].do \notin {"exRead", "readAll"}

SafePlan(op, p) == Len(p) \in Nat /\ \A i \in 1..Len(p) : SafeStage(op, p[i]) /\ Follows(p, i)

\* The cells of the devices nobody asked to delete are what they were.
Keeps(cells, old, b) ==
  \A k \in 1..(Len(old) \div 2) : ~Asked(old[2 * k], b) =>
    \A i \in {2 * k - 1, 2 * k} : i <= Len(cells) => cells[i] = old[i]

\* A transfer is at the start of a chunk.
Aligned(k) == k.off = k.done /\ \E j \in 0..k.done : k.done = Chunk * j

Fields == {"op", "plan", "at", "off", "done", "total", "buf", "out"}
Transfers == {"write", "writeAll", "writeBack", "readAll"}
Going(k) == k.plan[k.at]
ReadsOn(k, items) == Going(k).do = "readAll" /\ Going(k).item \in items /\ k.total # Unknown
WritesBack(k, item) == Going(k).do = "writeBack" /\ Going(k).item = item

\* Some of an item was read, or all of it, so that it can be written back.
PartRead(k, s) ==
  /\ k.total = Len(s.mem[Going(k).item]) /\ k.off <= k.done /\ k.done < k.total
  /\ k.buf \in Seq(Int) /\ Len(k.buf) = k.done
AllRead(k, s) == k.buf \in Seq(Int) /\ Len(k.buf) = Len(s.mem[Going(k).item]) /\ k.done < Len(k.buf)

\* A call that runs is at a stage of its plan, and has read what it writes back.
CallOK(k, s, b, o) ==
  /\ DOMAIN k = Fields
  /\ k.op \in b /\ SafePlan(k.op, k.plan) /\ k.at \in 1..Len(k.plan)
  /\ Going(k).do \in Transfers /\ Going(k).item \in {"nib", "addrMgr"} => k.off \in Nat /\ k.done \in Nat
  /\ Going(k).do = "readAll" /\ k.total = Unknown => k.off = 0 /\ k.done = 0
  /\ Going(k).do \in {"write", "writeAll"} /\ Going(k).item = "nib" => k.done < Len(Going(k).data)
  /\ ReadsOn(k, {"nib", "addrMgr"}) => PartRead(k, s)
  /\ WritesBack(k, "nib") => AllRead(k, s) /\ k.off = 0 /\ k.done = 0 /\ Len(k.buf) >= ChannelAt
  /\ WritesBack(k, "addrMgr") => AllRead(k, s) /\ Places(k.buf, k.op.arg) # {}
  /\ Calm(s, o) /\ (ReadsOn(k, {"addrMgr"}) \/ WritesBack(k, "addrMgr")) => Aligned(k) /\ Keeps(k.buf, s.mem.addrMgr, b)

\* Nothing was cleared: no item has changed its size, the channel is there
\* unless it was to be erased, and so are the devices nobody asked to delete.
MemoryOK(m, s, b, o) ==
  /\ DOMAIN m = Items /\ m.startup = s.mem.startup
  /\ m.nib \in Seq(Int) /\ Len(m.nib) = Len(s.mem.nib)
  /\ m.addrMgr \in Seq(Int) /\ Len(m.addrMgr) = Len(s.mem.addrMgr)
  /\ (Len(s.mem.nib) >= ChannelAt /\ s.mem.nib[ChannelAt] # 0 /\ \A op \in b : op.kind # "factoryReset") => m.nib[ChannelAt] # 0
  /\ Calm(s, o) => Keeps(m.addrMgr, s.mem.addrMgr, b)
TableOK(t, s, b) ==
  /\ DOMAIN t = DOMAIN s.table /\ Len(t) = Len(s.table)
  /\ \A i \in DOMAIN t : Len(s.table[i]) = 2 /\ ~Asked(s.table[i][2], b) => t[i] = s.table[i]

Waits == {"register", "waiting"}
IInv ==
  /\ scenario \in Scenarios /\ own \in Nat
  /\ DOMAIN queue = Callers /\ \A c \in Callers : queue[c] \in Seq([kind : Operations, arg : Int])
  /\ NoForm(scenario, begun) =>
       /\ MemoryOK(mem, scenario, begun, own) /\ TableOK(table, scenario, begun) /\ forming = Nobody
       /\ DOMAIN pc = Callers /\ DOMAIN call = Callers
       /\ \A c \in Callers : pc[c] \notin Waits /\ (pc[c] = "run" => CallOK(call[c], scenario, begun, own))

-----------------------------------------------------------------------------
(***************************************************************************)
(* Operators                                                               *)
(***************************************************************************)
\* A set of numbers that has a member has a least one.
LEMMA LeastIsThere ==
  ASSUME NEW S, S \subseteq Nat, S # {}
  PROVE  Least(S) \in S
  <1>1. PICK x \in S : \A y \in S : ~(<<y, x>> \in OpToRel(<, Nat))
    BY NatLessThanWellFounded, WFMin, Zenon
  <1>2. \A y \in S : x <= y
    <2> TAKE y \in S
    <2>1. x \in Nat /\ y \in Nat
      OBVIOUS
    <2>2. ~(y < x)
      BY <1>1, <2>1 DEF OpToRel
    <2> QED BY <2>1, <2>2
  <1> QED BY <1>1, <1>2 DEF Least

\* A chunk of a table that fits starts where eight bits can say.
LEMMA ChunksFit ==
  ASSUME NEW n \in Nat, NEW j \in Nat, Fits(n), Chunk * j < n
  PROVE  Chunk * j < OffsetMod /\ (Chunk * j) % OffsetMod = Chunk * j
  <1> DEFINE q == (OffsetMod - 1) \div Chunk
  <1>1. q \in Nat /\ Chunk * q <= OffsetMod - 1
    BY SizesAreSane
  <1>2. Chunk * j < Chunk * (q + 1)
    BY <1>1, SizesAreSane DEF Fits
  <1>3. j < q + 1
    BY <1>1, <1>2, SizesAreSane
  <1>4. Chunk * j <= Chunk * q
    BY <1>1, <1>3, SizesAreSane
  <1>5. Chunk * j \in Nat /\ Chunk * j < OffsetMod
    BY <1>1, <1>4, SizesAreSane
  <1> QED BY <1>5, SizesAreSane

\* Offsets do not grow when they wrap.
LEMMA ModIsLess ==
  ASSUME NEW n \in Nat
  PROVE  n % OffsetMod \in Nat /\ n % OffsetMod <= n
  <1>1. n % OffsetMod \in 0..(OffsetMod - 1)
    BY SizesAreSane
  <1>2. CASE n < OffsetMod
    BY <1>2, SizesAreSane
  <1>3. CASE n >= OffsetMod
    BY <1>1, <1>3, SizesAreSane
  <1> QED BY <1>1, <1>2, <1>3, SizesAreSane

\* What a chunk of a sequence is.
LEMMA ChunkOf ==
  ASSUME NEW d \in Seq(Int), NEW i \in Nat, i < Len(d)
  PROVE  LET n == Lesser(i + Chunk, Len(d))
             p == SubSeq(d, i + 1, n)
         IN  /\ p \in Seq(Int) /\ n \in Nat /\ n <= Len(d) /\ Len(p) = n - i /\ Len(p) > 0
             /\ \A j \in 1..Len(p) : p[j] = d[i + j]
             /\ n < Len(d) => Len(p) = Chunk
  <1> DEFINE n == Lesser(i + Chunk, Len(d))
             p == SubSeq(d, i + 1, n)
  <1>1. n \in Nat /\ n <= Len(d) /\ i + 1 <= n /\ (n < Len(d) => n = i + Chunk)
    BY SizesAreSane DEF Lesser
  <1>2. \A j \in (i + 1)..n : d[j] \in Int
    BY <1>1, ElementOfSeq
  <1> HIDE DEF n
  <1>3. /\ p \in Seq(Int) /\ Len(p) = IF i + 1 <= n THEN n - (i + 1) + 1 ELSE 0
        /\ \A j \in 1..(n - (i + 1) + 1) : p[j] = d[i + 1 + j - 1]
    BY <1>1, <1>2, SubSeqProperties
  <1>4. Len(p) = n - i
    BY <1>1, <1>3
  <1>5. \A j \in 1..Len(p) : p[j] = d[i + j]
    BY <1>1, <1>3, <1>4
  <1> HIDE DEF p
  <1>6. /\ p \in Seq(Int) /\ n \in Nat /\ n <= Len(d) /\ Len(p) = n - i /\ Len(p) > 0
        /\ \A j \in 1..Len(p) : p[j] = d[i + j]
        /\ n < Len(d) => Len(p) = Chunk
    BY <1>1, <1>3, <1>4, <1>5, SizesAreSane
  <1> QED BY <1>6 DEF n, p

\* A write changes the cells it covers.
LEMMA SplicedCells ==
  ASSUME NEW cells \in Seq(Int), NEW off \in Nat, NEW data \in Seq(Int), Holds(cells, off, data)
  PROVE  /\ Spliced(cells, off, data) \in Seq(Int) /\ Len(Spliced(cells, off, data)) = Len(cells)
         /\ \A i \in 1..Len(cells) :
              Spliced(cells, off, data)[i] = IF i > off /\ i <= off + Len(data) THEN data[i - off] ELSE cells[i]
  <1>1. \A i \in 1..Len(cells) : (IF i > off /\ i <= off + Len(data) THEN data[i - off] ELSE cells[i]) \in Int
    BY ElementOfSeq
  <1> QED BY <1>1 DEF Spliced, Holds

\* Both cells of an entry are there.
LEMMA CellsOfEntry ==
  ASSUME NEW n \in Nat, NEW j \in 1..(n \div 2)
  PROVE  j \in Nat /\ 2 * j \in 1..n /\ 2 * j - 1 \in 1..n
  OBVIOUS

\* An address that is found is overwritten, and nothing else.
LEMMA WithoutOne ==
  ASSUME NEW cells \in Seq(Int), NEW d, Places(cells, d) # {}
  PROVE  /\ Without(cells, d) \in Seq(Int) /\ Len(Without(cells, d)) = Len(cells)
         /\ \E k \in 1..(Len(cells) \div 2) : /\ cells[2 * k] = d
                                              /\ \A i \in 1..Len(cells) : i \notin {2 * k - 1, 2 * k} => Without(cells, d)[i] = cells[i]
  <1> DEFINE k == Least(Places(cells, d))
  <1>1. k \in 1..(Len(cells) \div 2) /\ cells[2 * k] = d
    <2>1. Places(cells, d) \subseteq Nat
      BY DEF Places
    <2>2. k \in Places(cells, d)
      BY <2>1, LeastIsThere
    <2> QED BY <2>2 DEF Places, Count, Entry
  <1>2. Without(cells, d) = [i \in 1..Len(cells) |-> IF i = 2 * k - 1 THEN 0 ELSE IF i = 2 * k THEN FF ELSE cells[i]]
    BY DEF Without, Emptied
  <1> HIDE DEF k
  <1>3. Without(cells, d) \in Seq(Int) /\ Len(Without(cells, d)) = Len(cells)
    BY <1>2 DEF FF
  <1>4. \A i \in 1..Len(cells) : i \notin {2 * k - 1, 2 * k} => Without(cells, d)[i] = cells[i]
    BY <1>2
  <1> QED BY <1>1, <1>3, <1>4

-----------------------------------------------------------------------------
(***************************************************************************)
(* Plans                                                                   *)
(***************************************************************************)
Jobs == [kind : Operations, arg : Int]

\* What a network is erased with.
LEMMA ErasingIsSafe == Zeros(NibSize) \in Seq(Int) /\ Len(Zeros(NibSize)) > 0
  BY SizesAreSane DEF Zeros

\* The stages of a backup.
LEMMA BackupIsSafe ==
  ASSUME NEW op
  PROVE  SafePlan(op, CreateBackup) /\ Len(CreateBackup) = 6 /\ CreateBackup[1].do = "deviceInfo"
  <1> DEFINE a == <<Command("deviceInfo", <<>>), Command("nwkInfo", <<>>), NvReadAll("nib"), NvReadAll("key")>>
             b == <<Command("exRead", <<>>), NvReadAll("addrMgr")>>
             S == {a[1], a[2], a[3], a[4], b[1], b[2]}
  <1>1. a \in Seq(S) /\ b \in Seq(S) /\ Len(a) = 4 /\ Len(b) = 2
    OBVIOUS
  <1>2. CreateBackup = a \o b
    BY DEF CreateBackup, ReadAddrMgrTable
  <1>3. /\ a[1] = Command("deviceInfo", <<>>) /\ a[2] = Command("nwkInfo", <<>>) /\ a[3] = NvReadAll("nib")
        /\ a[4] = NvReadAll("key") /\ b[1] = Command("exRead", <<>>) /\ b[2] = NvReadAll("addrMgr")
    OBVIOUS
  <1> HIDE DEF a, b, S
  <1>4. /\ Len(a \o b) = Len(a) + Len(b)
        /\ \A i \in 1..Len(a) + Len(b) : (a \o b)[i] = IF i <= Len(a) THEN a[i] ELSE b[i - Len(a)]
    BY <1>1, ConcatProperties
  <1>5. /\ Len(CreateBackup) = 6
        /\ \A i \in 1..6 : CreateBackup[i] \in {Command("deviceInfo", <<>>), Command("nwkInfo", <<>>), NvReadAll("nib"),
                                                NvReadAll("key"), Command("exRead", <<>>), NvReadAll("addrMgr")}
        /\ CreateBackup[1] = Command("deviceInfo", <<>>)
    BY <1>1, <1>2, <1>3, <1>4
  <1> QED BY <1>5 DEF SafePlan, SafeStage, Follows, Command, NvReadAll, Stage

\* What an operation other than a formation is made of is safe.
LEMMA PlansAreSafe ==
  ASSUME NEW op \in Jobs, NEW f, Valid(op, f), op.kind # "form"
  PROVE  SafePlan(op, Stages(op, f)) /\ Len(Stages(op, f)) > 0 /\ Stages(op, f)[1].do # "writeBack"
  <1> USE DEF SafePlan, SafeStage, Follows, Command, NvReadAll, Write, NvWriteAll, NvItemInit, Stage, Try, Reset, Stages
  <1>1. CASE op.kind = "channel"
    BY <1>1 DEF ChangeChannel, Valid
  <1>2. CASE op.kind = "seamless"
    BY <1>2 DEF ChangeChannel, Valid
  <1>3. CASE op.kind = "setPower"
    BY <1>3 DEF SetTxPower
  <1>4. CASE op.kind = "getPower"
    BY <1>4 DEF GetTxPower
  <1>5. CASE op.kind = "factoryReset"
    BY <1>5, ErasingIsSafe DEF FactoryReset
  <1>6. CASE op.kind = "restore"
    BY <1>6 DEF RestoreBackup
  <1>7. CASE op.kind = "delete"
    BY <1>7 DEF DeleteAddrMgrEntry
  <1>8. CASE op.kind = "backup"
    BY <1>8, BackupIsSafe
  <1> QED BY <1>1, <1>2, <1>3, <1>4, <1>5, <1>6, <1>7, <1>8 DEF Jobs, Operations
-----------------------------------------------------------------------------
(***************************************************************************)
(* Calls                                                                   *)
(***************************************************************************)
\* As more is begun, and the coordinator does more of its own, less is claimed.
LEMMA KeepsStays ==
  ASSUME NEW cells, NEW old, NEW b, NEW b2, b \subseteq b2, Keeps(cells, old, b)
  PROVE  Keeps(cells, old, b2)
  BY DEF Keeps, Asked

LEMMA CallStaysOK ==
  ASSUME NEW k, NEW s, NEW b, NEW o, NEW b2, NEW o2, CallOK(k, s, b, o), b \subseteq b2, o2 = 0 => o = 0
  PROVE  CallOK(k, s, b2, o2)
  <1>1. Keeps(k.buf, s.mem.addrMgr, b) => Keeps(k.buf, s.mem.addrMgr, b2)
    BY KeepsStays
  <1>2. Calm(s, o2) => Calm(s, o)
    BY DEF Calm
  <1> QED BY <1>1, <1>2 DEF CallOK

LEMMA MemoryStaysOK ==
  ASSUME NEW m, NEW t, NEW s, NEW b, NEW o, NEW b2, NEW o2, MemoryOK(m, s, b, o), TableOK(t, s, b), b \subseteq b2, o2 = 0 => o = 0
  PROVE  MemoryOK(m, s, b2, o2) /\ TableOK(t, s, b2)
  <1>1. Keeps(m.addrMgr, s.mem.addrMgr, b) => Keeps(m.addrMgr, s.mem.addrMgr, b2)
    BY KeepsStays
  <1>2. Calm(s, o2) => Calm(s, o)
    BY DEF Calm
  <1>3. MemoryOK(m, s, b2, o2)
    BY <1>1, <1>2 DEF MemoryOK
  <1>4. TableOK(t, s, b2)
    BY DEF TableOK, Asked
  <1> QED BY <1>3, <1>4

\* The call k is at the same stage of the same operation as the call l.
SameStage(k, l) == DOMAIN k = Fields /\ k.op = l.op /\ k.plan = l.plan /\ k.at = l.at

\* Nothing is claimed of a call that begins a stage, unless it writes back.
LEMMA FreshCallOK ==
  ASSUME NEW k, NEW s, NEW b, NEW o, DOMAIN k = Fields, k.op \in b, SafePlan(k.op, k.plan), k.at \in 1..Len(k.plan),
         k.off = 0, k.done = 0, k.total = Unknown, Going(k).do # "writeBack"
  PROVE  CallOK(k, s, b, o)
  <1>1. SafeStage(k.op, Going(k))
    BY DEF SafePlan, Going
  <1>2. Going(k).do \in {"write", "writeAll"} /\ Going(k).item = "nib" => k.done < Len(Going(k).data)
    BY <1>1 DEF SafeStage
  <1> QED BY <1>2 DEF CallOK, ReadsOn, WritesBack

\* What a step of a caller leaves of the calls.
Moves(c) ==
  /\ DOMAIN pc' = Callers /\ DOMAIN call' = Callers
  /\ \A e \in Callers \ {c} : pc'[e] = pc[e] /\ call'[e] = call[e]
  /\ pc'[c] \notin Waits /\ (pc'[c] = "run" => CallOK(call'[c], scenario, begun, own))
Live(c) == DOMAIN pc = Callers /\ DOMAIN call = Callers /\ pc[c] = "run" /\ CallOK(call[c], scenario, begun, own)

\* The end of a stage that does not lead to one that writes back.
LEMMA ProceedMoves ==
  ASSUME NEW c \in Callers, Live(c), NEW k, SameStage(k, call[c]), NEW n \in Nat, n > 0, Proceed(c, k, n),
         k.at + n <= Len(k.plan) => k.plan[k.at + n].do # "writeBack"
  PROVE  Moves(c)
  <1> DEFINE i == k.at + n
             next == [k EXCEPT !.at = i, !.off = 0, !.done = 0, !.total = Unknown]
  <1>1. /\ k.op \in begun /\ SafePlan(k.op, k.plan) /\ k.at \in 1..Len(k.plan) /\ DOMAIN k = Fields /\ Len(k.plan) \in Nat
        /\ DOMAIN pc = Callers /\ DOMAIN call = Callers
    BY DEF Live, SameStage, CallOK, SafePlan
  <1>2. CASE i > Len(k.plan)
    <2>1. pc' = [pc EXCEPT ![c] = "done"] /\ call' = [call EXCEPT ![c] = k]
      BY <1>2 DEF Proceed
    <2> QED BY <1>1, <2>1 DEF Moves, Waits
  <1>3. CASE i <= Len(k.plan)
    <2>1. i \in 1..Len(k.plan) /\ ~(i > Len(k.plan))
      BY <1>1, <1>3
    <2>2. k.plan[i].do # "await"
      BY <1>1, <2>1 DEF SafePlan, SafeStage
    <2>3. pc' = [pc EXCEPT ![c] = "run"] /\ call' = [call EXCEPT ![c] = next]
      BY <2>1, <2>2 DEF Proceed
    <2>4. /\ DOMAIN next = Fields /\ next.op = k.op /\ next.plan = k.plan /\ next.at = i
          /\ next.off = 0 /\ next.done = 0 /\ next.total = Unknown
      BY <1>1 DEF Fields
    <2> HIDE DEF next
    <2>5. Going(next).do # "writeBack"
      BY <1>3, <2>4 DEF Going
    <2>6. CallOK(next, scenario, begun, own)
      BY <1>1, <2>1, <2>4, <2>5, FreshCallOK
    <2> QED BY <1>1, <2>3, <2>6 DEF Moves, Waits
  <1>4. k.at \in Nat /\ i \in Nat
    BY <1>1
  <1> QED BY <1>1, <1>2, <1>3, <1>4

\* Only the stage before it leads to one that writes back.
LEMMA StageAfter ==
  ASSUME NEW p, Len(p) \in Nat, \A i \in 1..Len(p) : Follows(p, i), NEW i \in 1..Len(p), NEW n \in Nat, i + n <= Len(p),
         \/ n = 1 /\ (p[i].do # "readAll" \/ p[i].try)
         \/ n = 2 /\ p[i].do \in {"exRead", "readAll"}
  PROVE  p[i + n].do # "writeBack"
  <1>1. i + n \in 1..Len(p) /\ i \in Nat
    OBVIOUS
  <1>2. Follows(p, i + n)
    BY <1>1
  <1>3. CASE n = 1
    <2>1. (i + n) - 1 = i
      BY <1>1, <1>3
    <2> QED BY <1>2, <1>3, <2>1 DEF Follows
  <1>4. CASE n = 2
    <2>1. (i + n) - 2 = i /\ i + n > 2
      BY <1>1, <1>4
    <2> QED BY <1>2, <1>4, <2>1 DEF Follows
  <1> QED BY <1>3, <1>4

LEMMA LeadsOn ==
  ASSUME NEW op, NEW p, SafePlan(op, p), NEW i \in 1..Len(p), NEW n \in Nat, i + n <= Len(p),
         \/ n = 1 /\ (p[i].do # "readAll" \/ p[i].try)
         \/ n = 2 /\ p[i].do \in {"exRead", "readAll"}
  PROVE  p[i + n].do # "writeBack"
  BY StageAfter DEF SafePlan

\* A call that fails ends, or goes on with what it did not need.
LEMMA MissMoves ==
  ASSUME NEW c \in Callers, Live(c), Miss(c)
  PROVE  Moves(c)
  <1> DEFINE k == [call[c] EXCEPT !.out.devs = {}]
  <1>1. CallOK(call[c], scenario, begun, own) /\ DOMAIN pc = Callers /\ DOMAIN call = Callers
    BY DEF Live
  <1>2. SameStage(k, call[c])
    BY <1>1 DEF SameStage, CallOK, Fields
  <1>3. CASE At(c).try \/ At(c).do \in {"exRead", "exDelete"}
    <2>1. Proceed(c, k, 1)
      BY <1>3 DEF Miss
    <2> HIDE DEF k
    <2>2. k.at + 1 <= Len(k.plan) => k.plan[k.at + 1].do # "writeBack"
      BY <1>1, <1>2, <1>3, LeadsOn DEF SameStage, CallOK, At
    <2> QED BY <1>2, <2>1, <2>2, ProceedMoves
  <1>4. CASE ~(At(c).try \/ At(c).do \in {"exRead", "exDelete"})
    <2>1. pc' = [pc EXCEPT ![c] = "failed"] /\ call' = call
      BY <1>4 DEF Miss
    <2> QED BY <1>1, <2>1 DEF Moves, Waits
  <1> QED BY <1>3, <1>4

\* A request whose answer comes, or is lost.
LEMMA AnsweredMoves ==
  ASSUME NEW c \in Callers, Live(c), NEW k, SameStage(k, call[c]), Answered(c, k, 1), At(c).do # "readAll"
  PROVE  Moves(c)
  <1>1. CASE Proceed(c, k, 1)
    <2>1. k.at + 1 <= Len(k.plan) => k.plan[k.at + 1].do # "writeBack"
      BY LeadsOn DEF Live, SameStage, CallOK, At
    <2> QED BY <1>1, <2>1, ProceedMoves
  <1>2. CASE Miss(c)
    BY <1>2, MissMoves
  <1> QED BY <1>1, <1>2 DEF Answered

\* A call that stays at its stage.
LEMMA ContinueMoves ==
  ASSUME NEW c \in Callers, Live(c), NEW k, Continue(c, k), CallOK(k, scenario, begun, own)
  PROVE  Moves(c)
  BY DEF Live, Continue, Moves, Waits

\* What was read of an item is all of it.
ReadWhole(c, k) ==
  /\ At(c).item \in {"nib", "addrMgr"} => k.buf \in Seq(Int) /\ Len(k.buf) = Len(scenario.mem[At(c).item])
  /\ Calm(scenario, own) /\ At(c).item = "addrMgr" => Keeps(k.buf, scenario.mem.addrMgr, begun)

\* A table with an entry for the address has a cell.
LEMMA NeededIsThere ==
  ASSUME NEW st, NEW buf \in Seq(Int), Needed(st, buf)
  PROVE  Len(buf) > 0
  BY SizesAreSane DEF Needed, Places, Count

\* An item that was read whole may be written back.
LEMMA WriteBackOK ==
  ASSUME NEW k, NEW s, NEW b, NEW o, DOMAIN k = Fields, k.op \in b, SafePlan(k.op, k.plan), k.at \in 1..Len(k.plan),
         k.off = 0, k.done = 0, Going(k).do = "writeBack", Needed(Going(k), k.buf),
         k.buf \in Seq(Int), Len(k.buf) = Len(s.mem[Going(k).item]),
         Calm(s, o) /\ Going(k).item = "addrMgr" => Keeps(k.buf, s.mem.addrMgr, b)
  PROVE  CallOK(k, s, b, o)
  <1>1. SafeStage(k.op, Going(k))
    BY DEF SafePlan, Going
  <1>2. AllRead(k, s)
    BY NeededIsThere DEF AllRead
  <1>3. Going(k).item = "nib" => Len(k.buf) >= ChannelAt
    BY DEF Needed
  <1>4. Going(k).item = "addrMgr" => Places(k.buf, k.op.arg) # {}
    BY <1>1 DEF Needed, SafeStage
  <1>5. Aligned(k)
    BY SizesAreSane DEF Aligned
  <1> QED BY <1>2, <1>3, <1>4, <1>5 DEF CallOK, ReadsOn, WritesBack

\* The end of a stage that read an item.
LEMMA WholeMoves ==
  ASSUME NEW c \in Callers, Live(c), At(c).do = "readAll", NEW k, SameStage(k, call[c]), Whole(c, k), ReadWhole(c, k)
  PROVE  Moves(c)
  <1> DEFINE after == IF k.at < Len(k.plan) THEN k.plan[k.at + 1] ELSE Reset
             n == IF after.do = "writeBack" /\ ~Needed(after, k.buf) THEN 2 ELSE 1
  <1>1. PICK out : Proceed(c, [k EXCEPT !.out = out], n)
    BY DEF Whole
  <1> DEFINE l == [k EXCEPT !.out = out]
  <1>2. SameStage(l, call[c]) /\ l.buf = k.buf /\ k.at = l.at /\ k.plan = l.plan
    BY DEF SameStage, Fields
  <1>3. /\ l.op \in begun /\ SafePlan(l.op, l.plan) /\ l.at \in 1..Len(l.plan) /\ Len(l.plan) \in Nat /\ DOMAIN l = Fields
        /\ DOMAIN pc = Callers /\ DOMAIN call = Callers /\ Going(l) = At(c)
    BY <1>2 DEF SameStage, Live, CallOK, SafePlan, Going, At
  <1>4. n \in {1, 2} /\ Proceed(c, l, n)
    BY <1>1
  <1>5. CASE l.at + n <= Len(l.plan) /\ l.plan[l.at + n].do = "writeBack"
    <2>1. n = 1
      <3> HIDE DEF n, l
      <3>1. n = 2 => l.plan[l.at + n].do # "writeBack"
        BY <1>3, <1>4, <1>5, LeadsOn DEF Going
      <3> QED BY <1>4, <1>5, <3>1
    <2>2. after = l.plan[l.at + 1] /\ l.at + 1 \in 1..Len(l.plan) /\ l.at \in Nat
      BY <1>2, <1>3, <1>5, <2>1
    <2>3. after.do = "writeBack" /\ Needed(after, k.buf)
      BY <1>5, <2>1, <2>2
    <2> HIDE DEF n, after
    <2> DEFINE next == [l EXCEPT !.at = l.at + 1, !.off = 0, !.done = 0, !.total = Unknown]
    <2>4. pc' = [pc EXCEPT ![c] = "run"] /\ call' = [call EXCEPT ![c] = next]
      <3> HIDE DEF l
      <3>1. Proceed(c, l, 1) /\ ~(l.at + 1 > Len(l.plan)) /\ l.plan[l.at + 1].do # "await"
        BY <1>3, <1>4, <1>5, <2>1, <2>2
      <3> QED BY <3>1 DEF Proceed
    <2>5. /\ DOMAIN next = Fields /\ next.op = l.op /\ next.plan = l.plan /\ next.at = l.at + 1
          /\ next.off = 0 /\ next.done = 0 /\ next.buf = k.buf
      <3> HIDE DEF l
      <3> QED BY <1>2, <1>3 DEF Fields
    <2> HIDE DEF next
    <2>6. Going(next) = after
      BY <2>2, <2>5 DEF Going
    <2>7. after.item = At(c).item
      <3>1. Follows(l.plan, l.at + 1)
        BY <1>3, <2>2 DEF SafePlan
      <3>2. (l.at + 1) - 1 = l.at
        BY <2>2
      <3> HIDE DEF l
      <3> QED BY <1>3, <2>2, <2>3, <3>1, <3>2 DEF Follows, Going
    <2>8. after.item \in {"nib", "addrMgr"}
      <3>1. SafeStage(l.op, l.plan[l.at + 1])
        BY <1>3, <2>2 DEF SafePlan
      <3> HIDE DEF l
      <3> QED BY <2>2, <2>3, <3>1 DEF SafeStage
    <2>9. CallOK(next, scenario, begun, own)
      <3> HIDE DEF l
      <3>1. /\ next.buf \in Seq(Int) /\ Len(next.buf) = Len(scenario.mem[Going(next).item])
            /\ Calm(scenario, own) /\ Going(next).item = "addrMgr" => Keeps(next.buf, scenario.mem.addrMgr, begun)
        BY <2>5, <2>6, <2>7, <2>8 DEF ReadWhole
      <3>2. /\ next.op \in begun /\ SafePlan(next.op, next.plan) /\ next.at \in 1..Len(next.plan)
            /\ Going(next).do = "writeBack" /\ Needed(Going(next), next.buf)
        BY <1>3, <2>2, <2>3, <2>5, <2>6
      <3> QED BY <2>5, <3>1, <3>2, WriteBackOK
    <2> QED BY <1>3, <2>4, <2>9 DEF Moves, Waits
  <1>6. CASE l.at + n <= Len(l.plan) => l.plan[l.at + n].do # "writeBack"
    <2> HIDE DEF l, n
    <2> QED BY <1>2, <1>4, <1>6, ProceedMoves
  <1> QED BY <1>5, <1>6

\* One more chunk of an item.
More(buf, m, off) == SubSeq(buf \o Piece(m, off), 1, Lesser(Len(buf \o Piece(m, off)), Len(m)))
OneMore(next, buf, m, off, done) ==
  /\ Len(Piece(m, off)) \in Nat /\ next \in Seq(Int) /\ Len(next) = Lesser(done + Len(Piece(m, off)), Len(m))
  /\ off = done => /\ \A i \in 1..Len(next) : next[i] = IF i <= done THEN buf[i] ELSE m[i]
                   /\ done + Len(Piece(m, off)) < Len(m) => Len(Piece(m, off)) = Chunk
LEMMA OneMoreChunk ==
  ASSUME NEW buf \in Seq(Int), NEW m \in Seq(Int), NEW off \in Nat, NEW done \in Nat, off <= done, done < Len(m), Len(buf) = done
  PROVE  OneMore(More(buf, m, off), buf, m, off, done)
  <1> DEFINE chunk == Piece(m, off)
             whole == buf \o chunk
             last == Lesser(Len(whole), Len(m))
             next == SubSeq(whole, 1, last)
             n == Lesser(off + Chunk, Len(m))
  <1>1. /\ chunk \in Seq(Int) /\ n \in Nat /\ n <= Len(m) /\ Len(chunk) = n - off /\ Len(chunk) > 0
        /\ \A j \in 1..Len(chunk) : chunk[j] = m[off + j]
        /\ n < Len(m) => Len(chunk) = Chunk
    BY ChunkOf DEF Piece
  <1> HIDE DEF chunk, n
  <1>2. /\ whole \in Seq(Int) /\ Len(whole) = done + Len(chunk)
        /\ \A i \in 1..(done + Len(chunk)) : whole[i] = IF i <= done THEN buf[i] ELSE chunk[i - done]
    BY <1>1, ConcatProperties
  <1> HIDE DEF whole
  <1>3. Len(chunk) \in Nat /\ last \in Nat /\ last <= Len(whole) /\ last <= Len(m) /\ last = Lesser(done + Len(chunk), Len(m)) /\ last > 0
    <2>1. Len(chunk) \in Nat /\ Len(m) \in Nat /\ Len(m) > 0
      BY <1>1, LenProperties
    <2>2. Len(whole) \in Nat /\ Len(whole) > 0
      BY <1>1, <1>2, <2>1
    <2> QED BY <1>2, <2>1, <2>2 DEF Lesser
  <1> HIDE DEF last
  <1>4. \A i \in 1..last : whole[i] \in Int
    BY <1>2, <1>3, ElementOfSeq
  <1>5. /\ next \in Seq(Int) /\ Len(next) = IF 1 <= last THEN last - 1 + 1 ELSE 0
        /\ \A i \in 1..(last - 1 + 1) : next[i] = whole[1 + i - 1]
    BY <1>3, <1>4, SubSeqProperties
  <1> HIDE DEF next
  <1>6. Len(next) = last /\ \A i \in 1..Len(next) : next[i] = whole[i]
    BY <1>3, <1>5
  <1>7. ASSUME off = done
        PROVE  /\ \A i \in 1..Len(next) : next[i] = IF i <= done THEN buf[i] ELSE m[i]
               /\ done + Len(chunk) < Len(m) => Len(chunk) = Chunk
    <2>1. done + Len(chunk) = n
      BY <1>1, <1>7
    <2>2. \A i \in 1..Len(next) : i > done => chunk[i - done] = m[i]
      <3> TAKE i \in 1..Len(next)
      <3> HAVE i > done
      <3>1. i - done \in 1..Len(chunk) /\ off + (i - done) = i
        BY <1>2, <1>3, <1>6, <1>7
      <3> QED BY <1>1, <3>1
    <2>3. \A i \in 1..Len(next) : next[i] = IF i <= done THEN buf[i] ELSE m[i]
      <3> TAKE i \in 1..Len(next)
      <3>1. i \in 1..(done + Len(chunk)) /\ next[i] = whole[i]
        BY <1>2, <1>3, <1>6
      <3>2. CASE i <= done
        BY <1>2, <3>1, <3>2
      <3>3. CASE i > done
        BY <1>2, <2>2, <3>1, <3>3
      <3> QED BY <3>2, <3>3
    <2>4. done + Len(chunk) < Len(m) => Len(chunk) = Chunk
      BY <1>1, <2>1
    <2> QED BY <2>3, <2>4
  <1> QED BY <1>3, <1>5, <1>6, <1>7 DEF OneMore, More, next, whole, last, chunk

\* The first stage of a transfer, and one that goes on.
LEMMA ReadLengthMoves ==
  ASSUME NEW c \in Callers, Live(c), MemoryOK(mem, scenario, begun, own), ReadLength(c)
  PROVE  Moves(c)
  <1> DEFINE n == Len(mem[At(c).item])
             k == [call[c] EXCEPT !.buf = <<>>, !.total = n]
  <1>1. At(c).do = "readAll" /\ call[c].total = Unknown
    BY DEF ReadLength, Asks
  <1>2. CallOK(call[c], scenario, begun, own)
    BY DEF Live
  <1>3. /\ SameStage(k, call[c]) /\ k.buf = <<>> /\ k.total = n /\ k.off = call[c].off /\ k.done = call[c].done
    BY <1>2 DEF SameStage, CallOK, Fields
  <1>4. At(c).item \in {"nib", "addrMgr"} => n \in Nat /\ n = Len(scenario.mem[At(c).item])
    BY DEF MemoryOK
  <1>5. Keeps(k.buf, scenario.mem.addrMgr, begun)
    <2> HIDE DEF k
    <2>1. k.buf = <<>> /\ Len(k.buf) = 0
      BY <1>3
    <2> QED BY <2>1 DEF Keeps
  <1>6. CASE n = 0
    <2>1. Whole(c, k)
      BY <1>6 DEF ReadLength
    <2> HIDE DEF k
    <2>2. ReadWhole(c, k)
      BY <1>3, <1>4, <1>5, <1>6 DEF ReadWhole
    <2> QED BY <1>1, <1>3, <2>1, <2>2, WholeMoves
  <1>7. CASE n # 0
    <2>1. Continue(c, k)
      BY <1>7 DEF ReadLength
    <2> HIDE DEF k
    <2>2. Going(k) = At(c) /\ Going(call[c]) = At(c)
      BY <1>3 DEF SameStage, Going, At
    <2>3. k.off = 0 /\ k.done = 0
      BY <1>1, <1>2, <1>3, <2>2 DEF CallOK
    <2>4. ReadsOn(k, {"nib", "addrMgr"}) => PartRead(k, scenario)
      BY <1>3, <1>4, <1>7, <2>2, <2>3 DEF ReadsOn, PartRead
    <2>5. Aligned(k)
      BY <2>3, SizesAreSane DEF Aligned
    <2>6. CallOK(k, scenario, begun, own)
      BY <1>1, <1>2, <1>3, <1>5, <2>2, <2>3, <2>4, <2>5 DEF CallOK, SameStage, WritesBack
    <2> QED BY <2>1, <2>6, ContinueMoves
  <1> QED BY <1>6, <1>7

LEMMA ReadChunkMoves ==
  ASSUME NEW c \in Callers, Live(c), MemoryOK(mem, scenario, begun, own), ReadChunk(c)
  PROVE  Moves(c)
  <1> DEFINE k == call[c]
             chunk == Piece(mem[At(c).item], k.off)
             buf == k.buf \o chunk
             next == [k EXCEPT !.buf = SubSeq(buf, 1, Lesser(Len(buf), k.total)), !.done = @ + Len(chunk), !.off = NextOffset(@, Len(chunk))]
             items == {"nib", "addrMgr"}
  <1>1. At(c).do = "readAll" /\ k.total # Unknown
    BY DEF ReadChunk, Asks
  <1>2. CallOK(k, scenario, begun, own) /\ Going(k) = At(c)
    BY DEF Live, Going, At
  <1>3. /\ SameStage(next, call[c]) /\ next.total = k.total /\ Going(next) = At(c)
        /\ next.buf = SubSeq(buf, 1, Lesser(Len(buf), k.total))
        /\ next.done = k.done + Len(chunk) /\ next.off = (k.off + Len(chunk)) % OffsetMod
    BY <1>2 DEF SameStage, CallOK, Fields, NextOffset, Going, At
  <1>4. IF next.done >= k.total THEN Whole(c, next) ELSE Continue(c, next)
    BY DEF ReadChunk
  <1> HIDE DEF next
  <1>5. ASSUME At(c).item \in items
        PROVE  /\ next.done \in Nat /\ next.off \in Nat /\ next.off <= next.done
               /\ next.buf \in Seq(Int) /\ Len(next.buf) = Lesser(next.done, k.total) /\ k.total \in Nat
               /\ k.total = Len(scenario.mem[At(c).item])
               /\ At(c).item = "addrMgr" /\ Calm(scenario, own) =>
                    /\ Keeps(next.buf, scenario.mem.addrMgr, begun)
                    /\ next.done < k.total => Aligned(next)
    <2>1. PartRead(k, scenario)
      BY <1>1, <1>2, <1>5 DEF CallOK, ReadsOn
    <2> DEFINE m == mem[At(c).item]
    <2>2. m \in Seq(Int) /\ Len(m) = k.total /\ k.total \in Nat
      BY <1>2, <1>5, <2>1 DEF MemoryOK, PartRead
    <2>3. /\ k.off \in Nat /\ k.done \in Nat /\ k.off <= k.done /\ k.done < Len(m) /\ k.buf \in Seq(Int) /\ Len(k.buf) = k.done
      BY <1>1, <1>2, <1>5, <2>1, <2>2 DEF PartRead, CallOK, Transfers
    <2>4. /\ Len(chunk) \in Nat /\ next.buf \in Seq(Int) /\ Len(next.buf) = Lesser(k.done + Len(chunk), Len(m))
          /\ k.off = k.done => /\ \A i \in 1..Len(next.buf) : next.buf[i] = IF i <= k.done THEN k.buf[i] ELSE m[i]
                               /\ k.done + Len(chunk) < Len(m) => Len(chunk) = Chunk
      <3>1. next.buf = SubSeq(k.buf \o chunk, 1, Lesser(Len(k.buf \o chunk), Len(m)))
        BY <1>3, <2>2
      <3>2. next.buf = More(k.buf, m, k.off)
        BY <3>1 DEF More
      <3>3. OneMore(More(k.buf, m, k.off), k.buf, m, k.off, k.done)
        BY <2>2, <2>3, OneMoreChunk
      <3> QED BY <3>2, <3>3 DEF OneMore
    <2> HIDE DEF chunk
    <2>5. next.done \in Nat /\ next.off \in Nat /\ next.off <= next.done
      <3> DEFINE n == k.off + Len(chunk)
      <3>1. n \in Nat /\ n <= next.done /\ next.done \in Nat
        BY <1>3, <2>3, <2>4
      <3>2. next.off = n % OffsetMod
        BY <1>3
      <3> HIDE DEF n
      <3>3. n % OffsetMod \in Nat /\ n % OffsetMod <= n
        BY <3>1, ModIsLess
      <3> QED BY <3>1, <3>2, <3>3
    <2>6. ASSUME At(c).item = "addrMgr", Calm(scenario, own)
          PROVE  /\ Keeps(next.buf, scenario.mem.addrMgr, begun)
                 /\ next.done < k.total => Aligned(next)
      <3>1. Aligned(k) /\ Keeps(k.buf, scenario.mem.addrMgr, begun)
        BY <1>1, <1>2, <2>6 DEF CallOK, ReadsOn
      <3>2. Keeps(m, scenario.mem.addrMgr, begun) /\ Fits(Len(m))
        BY <2>6, <2>2, <2>1, <1>2 DEF MemoryOK, Calm, PartRead
      <3>3. Len(next.buf) <= Len(m)
        BY <2>2, <2>3, <2>4 DEF Lesser
      <3>4. \A i \in 1..Len(next.buf) : next.buf[i] = IF i <= Len(k.buf) THEN k.buf[i] ELSE m[i]
        BY <2>3, <2>4, <3>1 DEF Aligned
      <3>5. Keeps(next.buf, scenario.mem.addrMgr, begun)
        <4> SUFFICES ASSUME NEW j \in 1..(Len(scenario.mem.addrMgr) \div 2), ~Asked(scenario.mem.addrMgr[2 * j], begun),
                            NEW i \in {2 * j - 1, 2 * j}, i <= Len(next.buf)
                     PROVE  next.buf[i] = scenario.mem.addrMgr[i]
          BY DEF Keeps
        <4>1. i \in Nat /\ i >= 1
          OBVIOUS
        <4>2. next.buf[i] = IF i <= Len(k.buf) THEN k.buf[i] ELSE m[i]
          BY <2>4, <3>3, <3>4, <4>1
        <4>3. i <= Len(m)
          BY <2>2, <2>4, <3>3, <4>1
        <4> QED BY <3>1, <3>2, <4>2, <4>3 DEF Keeps
      <3>6. ASSUME next.done < k.total
            PROVE  Aligned(next)
        <4>1. PICK j \in 0..k.done : k.done = Chunk * j
          BY <3>1 DEF Aligned
        <4>2. j + 1 \in Nat /\ next.done = Chunk * (j + 1)
          <5>1. Len(chunk) = Chunk /\ j \in Nat
            BY <1>3, <2>2, <2>3, <2>4, <3>1, <3>6, <4>1 DEF Aligned
          <5>2. Chunk * (j + 1) = Chunk * j + Chunk
            BY <5>1, SizesAreSane
          <5> QED BY <1>3, <4>1, <5>1, <5>2
        <4>3. next.done % OffsetMod = next.done
          BY <2>2, <3>2, <3>6, <4>2, ChunksFit
        <4>4. next.off = next.done
          BY <1>3, <3>1, <4>3 DEF Aligned
        <4>5. j + 1 <= next.done
          BY <4>2, SizesAreSane
        <4> QED BY <4>2, <4>4, <4>5 DEF Aligned
      <3> QED BY <3>5, <3>6
    <2> QED BY <2>1, <1>2, <2>2, <1>3, <2>4, <2>5, <2>6 DEF PartRead
  <1> HIDE DEF chunk, buf
  <1>6. CASE next.done >= k.total
    <2>1. Whole(c, next)
      BY <1>4, <1>6
    <2>2. ReadWhole(c, next)
      BY <1>5, <1>6 DEF ReadWhole, Lesser
    <2> QED BY <1>1, <1>3, <2>1, <2>2, WholeMoves
  <1>7. CASE ~(next.done >= k.total)
    <2>1. Continue(c, next)
      BY <1>4, <1>7
    <2>2. ReadsOn(next, items) => PartRead(next, scenario)
      BY <1>3, <1>5, <1>7 DEF ReadsOn, PartRead, Lesser
    <2>3. Calm(scenario, own) /\ At(c).item = "addrMgr" => Aligned(next) /\ Keeps(next.buf, scenario.mem.addrMgr, begun)
      BY <1>5, <1>7
    <2>4. CallOK(next, scenario, begun, own)
      BY <1>1, <1>2, <1>3, <1>5, <2>2, <2>3 DEF CallOK, SameStage, WritesBack, ReadsOn
    <2> QED BY <2>1, <2>4, ContinueMoves
  <1> QED BY <1>6, <1>7

-----------------------------------------------------------------------------
(***************************************************************************)
(* Writes                                                                  *)
(***************************************************************************)
\* To delete a device keeps the entries of the others.
LEMMA WithoutKeeps ==
  ASSUME NEW cells \in Seq(Int), NEW old, NEW b, NEW d, Keeps(cells, old, b), Len(cells) = Len(old), Asked(d, b), Places(cells, d) # {}
  PROVE  Keeps(Without(cells, d), old, b)
  <1>1. PICK p \in 1..(Len(cells) \div 2) :
          cells[2 * p] = d /\ \A i \in 1..Len(cells) : i \notin {2 * p - 1, 2 * p} => Without(cells, d)[i] = cells[i]
    BY WithoutOne
  <1> SUFFICES ASSUME NEW j \in 1..(Len(old) \div 2), ~Asked(old[2 * j], b), NEW i \in {2 * j - 1, 2 * j}
               PROVE  Without(cells, d)[i] = old[i]
    BY DEF Keeps
  <1>2. Len(cells) \in Nat /\ i \in 1..Len(cells) /\ 2 * j <= Len(cells)
    BY LenProperties
  <1>3. cells[i] = old[i] /\ cells[2 * j] = old[2 * j]
    <2>1. \A e \in {2 * j - 1, 2 * j} : e <= Len(cells) => cells[e] = old[e]
      BY DEF Keeps
    <2> QED BY <1>2, <2>1
  <1>4. p # j
    BY <1>1, <1>3
  <1>5. i \notin {2 * p - 1, 2 * p}
    BY <1>4
  <1> QED BY <1>1, <1>2, <1>3, <1>5

\* The channel is put in its place.
LEMMA PatchedNib ==
  ASSUME NEW buf \in Seq(Int), NEW st, st.item = "nib", st.data[1] \in Channels, Len(buf) >= ChannelAt
  PROVE  Patched(st, buf) \in Seq(Int) /\ Len(Patched(st, buf)) = Len(buf) /\ Patched(st, buf)[ChannelAt] \in Channels
  <1>1. Patched(st, buf) = [buf EXCEPT ![ChannelAt] = st.data[1]]
    BY DEF Patched
  <1>2. ChannelAt \in 1..Len(buf) /\ st.data[1] \in Int
    <2>1. Len(buf) \in Nat
      BY LenProperties
    <2>2. ChannelAt \in 1..Len(buf)
      BY <2>1, SizesAreSane
    <2>3. \A n \in Channels : n \in Int
      BY DEF Channels
    <2> QED BY <2>2, <2>3
  <1> QED BY <1>1, <1>2, ExceptSeq

\* What a stage writes to the two items, and where in it the transfer is.
Wrote(c) == SubSeq(DataOf(c), call[c].done + 1, Lesser(call[c].done + Chunk, Len(DataOf(c))))
LEMMA WritesData ==
  ASSUME NEW c \in Callers, Live(c), At(c).do \in {"write", "writeAll", "writeBack"}
  PROVE  /\ At(c).item # "startup"
         /\ At(c).item = "addrMgr" => At(c).do = "writeBack" /\ At(c).data[1] = call[c].op.arg /\ Asked(call[c].op.arg, begun)
         /\ At(c).item = "nib" /\ At(c).do # "writeBack" => \E op \in begun : op.kind = "factoryReset"
         /\ At(c).item = "nib" /\ At(c).do = "writeBack" => At(c).data[1] \in Channels
         /\ At(c).item \in {"nib", "addrMgr"} =>
              /\ call[c].off \in Nat /\ call[c].done \in Nat
              /\ DataOf(c) \in Seq(Int) /\ call[c].done < Len(DataOf(c))
              /\ At(c).do = "writeBack" => Len(DataOf(c)) = Len(call[c].buf)
  <1> DEFINE k == call[c]
  <1>1. CallOK(k, scenario, begun, own) /\ Going(k) = At(c)
    BY DEF Live, Going, At
  <1>2. SafeStage(k.op, At(c)) /\ k.op \in begun
    BY <1>1 DEF CallOK, SafePlan, Going
  <1>3. CASE At(c).do # "writeBack"
    <2>1. DataOf(c) = At(c).data
      BY <1>3 DEF DataOf
    <2> QED BY <1>1, <1>2, <1>3, <2>1 DEF CallOK, SafeStage, Transfers
  <1>4. CASE At(c).do = "writeBack" /\ At(c).item = "nib"
    <2>1. DataOf(c) = Patched(At(c), k.buf) /\ At(c).data[1] \in Channels
      BY <1>2, <1>4 DEF DataOf, SafeStage
    <2>2. AllRead(k, scenario) /\ Len(k.buf) >= ChannelAt
      BY <1>1, <1>4 DEF CallOK, WritesBack
    <2>3. DataOf(c) \in Seq(Int) /\ Len(DataOf(c)) = Len(k.buf)
      BY <1>4, <2>1, <2>2, PatchedNib DEF AllRead
    <2> QED BY <1>1, <1>4, <2>1, <2>2, <2>3 DEF CallOK, AllRead, Transfers
  <1>5. CASE At(c).do = "writeBack" /\ At(c).item = "addrMgr"
    <2>1. DataOf(c) = Without(k.buf, k.op.arg) /\ At(c).data[1] = k.op.arg /\ k.op.kind = "delete"
      BY <1>2, <1>5 DEF DataOf, SafeStage, Patched
    <2>2. AllRead(k, scenario) /\ Places(k.buf, k.op.arg) # {}
      BY <1>1, <1>5 DEF CallOK, WritesBack
    <2>3. DataOf(c) \in Seq(Int) /\ Len(DataOf(c)) = Len(k.buf)
      <3>1. k.buf \in Seq(Int)
        BY <2>2 DEF AllRead
      <3>2. Without(k.buf, k.op.arg) \in Seq(Int) /\ Len(Without(k.buf, k.op.arg)) = Len(k.buf)
        BY <2>2, <3>1, WithoutOne
      <3> QED BY <2>1, <3>2
    <2> QED BY <1>1, <1>2, <1>5, <2>1, <2>2, <2>3 DEF CallOK, AllRead, Asked, Transfers
  <1> QED BY <1>2, <1>3, <1>4, <1>5 DEF SafeStage

\* What is written back to the network information is all of it, with a channel.
LEMMA NibAtOnce ==
  ASSUME NEW c \in Callers, Live(c), scenario \in Scenarios, At(c).do = "writeBack", At(c).item = "nib"
  PROVE  /\ call[c].off = 0 /\ call[c].done = 0 /\ Len(Wrote(c)) = Len(DataOf(c)) /\ ChannelAt \in 1..Len(Wrote(c))
         /\ Wrote(c) \in Seq(Int) /\ Wrote(c)[ChannelAt] # 0
  <1> DEFINE k == call[c]
  <1>1. CallOK(k, scenario, begun, own) /\ Going(k) = At(c)
    BY DEF Live, Going, At
  <1>2. AllRead(k, scenario) /\ k.off = 0 /\ k.done = 0 /\ Len(k.buf) >= ChannelAt
    BY <1>1 DEF CallOK, WritesBack
  <1>3. Len(scenario.mem.nib) \in {0, NibSize}
    <2>1. "nib" \in Items \ {"addrMgr"} /\ SizeOf("nib") = NibSize
      BY DEF Items, SizeOf
    <2> QED BY <2>1, ScenariosAreSane
  <1>4. DataOf(c) \in Seq(Int) /\ Len(DataOf(c)) = Len(k.buf) /\ DataOf(c)[ChannelAt] \in Channels
    BY <1>2, WritesData, PatchedNib DEF DataOf, AllRead
  <1>5. Len(DataOf(c)) \in ChannelAt..Chunk /\ Len(DataOf(c)) \in Nat
    BY <1>1, <1>2, <1>3, <1>4, SizesAreSane DEF AllRead
  <1>6. Wrote(c) = SubSeq(DataOf(c), 0 + 1, Lesser(0 + Chunk, Len(DataOf(c))))
    BY <1>2 DEF Wrote
  <1>7. Lesser(0 + Chunk, Len(DataOf(c))) = Len(DataOf(c)) /\ 0 < Len(DataOf(c))
    BY <1>5, SizesAreSane DEF Lesser
  <1>8. /\ Wrote(c) \in Seq(Int) /\ Len(Wrote(c)) = Len(DataOf(c)) - 0
        /\ \A j \in 1..Len(Wrote(c)) : Wrote(c)[j] = DataOf(c)[0 + j]
    BY <1>4, <1>6, <1>7, ChunkOf
  <1>9. ChannelAt \in 1..Len(Wrote(c)) /\ Wrote(c)[ChannelAt] = DataOf(c)[ChannelAt]
    BY <1>5, <1>8, SizesAreSane
  <1>10. Wrote(c)[ChannelAt] # 0
    BY <1>4, <1>9 DEF Channels
  <1>11. Len(Wrote(c)) = Len(DataOf(c))
    BY <1>5, <1>8
  <1> QED BY <1>2, <1>8, <1>9, <1>10, <1>11

\* What a write puts into memory.
Put(c) == [mem EXCEPT ![At(c).item] = Spliced(@, call[c].off, Wrote(c))]

\* Nothing is cleared by a chunk that is written.
LEMMA PutOK ==
  ASSUME NEW c \in Callers, Live(c), scenario \in Scenarios, MemoryOK(mem, scenario, begun, own),
         At(c).do \in {"write", "writeAll", "writeBack"}, Holds(mem[At(c).item], call[c].off, Wrote(c))
  PROVE  MemoryOK(Put(c), scenario, begun, own)
  <1> DEFINE k == call[c]
             it == At(c).item
             new == Spliced(mem[it], k.off, Wrote(c))
             data == DataOf(c)
  <1>1. it # "startup" /\ DOMAIN mem = Items
    BY WritesData DEF MemoryOK
  <1>2. Put(c) = [mem EXCEPT ![it] = new]
    BY DEF Put
  <1>3. /\ DOMAIN Put(c) = Items
        /\ \A i \in Items : Put(c)[i] = IF i = it THEN new ELSE mem[i]
    BY <1>1, <1>2
  <1>4. CASE it \notin {"nib", "addrMgr"}
    <2>1. Put(c).nib = mem.nib /\ Put(c).addrMgr = mem.addrMgr /\ Put(c).startup = mem.startup
      BY <1>1, <1>3, <1>4 DEF Items
    <2> QED BY <1>3, <2>1 DEF MemoryOK
  <1>5. ASSUME it \in {"nib", "addrMgr"}
        PROVE  /\ new \in Seq(Int) /\ Len(new) = Len(mem[it])
               /\ \A i \in 1..Len(mem[it]) : new[i] = IF i > k.off /\ i <= k.off + Len(Wrote(c)) THEN Wrote(c)[i - k.off] ELSE mem[it][i]
               /\ Wrote(c) \in Seq(Int) /\ Len(Wrote(c)) \in Nat /\ k.done + Len(Wrote(c)) <= Len(data)
               /\ \A j \in 1..Len(Wrote(c)) : Wrote(c)[j] = data[k.done + j]
               /\ k.off \in Nat /\ k.done \in Nat
    <2>1. k.off \in Nat /\ k.done \in Nat /\ data \in Seq(Int) /\ k.done < Len(data)
      BY <1>5, WritesData
    <2>2. mem[it] \in Seq(Int)
      BY <1>5 DEF MemoryOK
    <2>3. /\ Wrote(c) \in Seq(Int) /\ Len(Wrote(c)) = Lesser(k.done + Chunk, Len(data)) - k.done
          /\ \A j \in 1..Len(Wrote(c)) : Wrote(c)[j] = data[k.done + j]
          /\ Lesser(k.done + Chunk, Len(data)) <= Len(data) /\ Lesser(k.done + Chunk, Len(data)) \in Nat
      <3> HIDE DEF data, k
      <3> QED BY <2>1, ChunkOf DEF Wrote, data, k
    <2>4. /\ new \in Seq(Int) /\ Len(new) = Len(mem[it])
          /\ \A i \in 1..Len(mem[it]) : new[i] = IF i > k.off /\ i <= k.off + Len(Wrote(c)) THEN Wrote(c)[i - k.off] ELSE mem[it][i]
      BY <2>1, <2>2, <2>3, SplicedCells
    <2>5. Len(Wrote(c)) \in Nat /\ k.done + Len(Wrote(c)) <= Len(data)
      BY <2>1, <2>3, LenProperties
    <2> QED BY <2>1, <2>3, <2>4, <2>5
  <1>6. CASE it = "nib"
    <2>1. Put(c).nib = new /\ Put(c).addrMgr = mem.addrMgr /\ Put(c).startup = mem.startup
      BY <1>3, <1>6 DEF Items
    <2>2. At(c).do # "writeBack" => \E op \in begun : op.kind = "factoryReset"
      BY <1>6, WritesData
    <2>3. ASSUME At(c).do = "writeBack"
          PROVE  new[ChannelAt] # 0
      <3>1. /\ k.off = 0 /\ ChannelAt \in 1..Len(Wrote(c)) /\ Wrote(c)[ChannelAt] # 0
        BY <1>6, <2>3, NibAtOnce
      <3>2. k.off + Len(Wrote(c)) <= Len(mem[it]) /\ Len(Wrote(c)) \in Nat
        BY <1>5, <1>6 DEF Holds
      <3>3. ChannelAt \in 1..Len(mem[it]) /\ ChannelAt - k.off = ChannelAt /\ ChannelAt > k.off /\ ChannelAt <= k.off + Len(Wrote(c))
        BY <3>1, <3>2, SizesAreSane, <1>6 DEF MemoryOK
      <3>4. new[ChannelAt] = Wrote(c)[ChannelAt]
        BY <1>5, <1>6, <3>3
      <3> QED BY <3>1, <3>4
    <2> HIDE DEF new
    <2> QED BY <1>3, <1>5, <1>6, <2>1, <2>2, <2>3 DEF MemoryOK
  <1>7. CASE it = "addrMgr"
    <2>1. Put(c).nib = mem.nib /\ Put(c).addrMgr = new /\ Put(c).startup = mem.startup
      BY <1>3, <1>7 DEF Items
    <2>2. ASSUME Calm(scenario, own)
          PROVE  Keeps(new, scenario.mem.addrMgr, begun)
      <3> DEFINE old == scenario.mem.addrMgr
      <3>1. At(c).do = "writeBack" /\ At(c).data[1] = k.op.arg /\ Asked(k.op.arg, begun)
        BY <1>7, WritesData
      <3>2. CallOK(k, scenario, begun, own) /\ WritesBack(k, "addrMgr")
        BY <1>7, <3>1 DEF Live, WritesBack, Going, At
      <3>3. /\ Aligned(k) /\ Keeps(k.buf, old, begun) /\ Places(k.buf, k.op.arg) # {}
            /\ k.buf \in Seq(Int) /\ Len(k.buf) = Len(old)
        BY <1>7, <2>2, <3>2 DEF CallOK, AllRead, WritesBack
      <3>4. data = Without(k.buf, k.op.arg)
        BY <1>7, <3>1 DEF DataOf, Patched
      <3>5. Keeps(data, old, begun)
        BY <3>1, <3>3, <3>4, WithoutKeeps
      <3>6. Keeps(mem.addrMgr, old, begun) /\ Len(mem.addrMgr) = Len(old) /\ Len(data) = Len(old) /\ Len(old) \in Nat
        BY <1>7, <2>2, <3>1, <3>3, WritesData, LenProperties DEF MemoryOK
      <3> HIDE DEF data, old, new
      <3>7. \A i \in 1..Len(old) : new[i] = data[i] \/ new[i] = mem.addrMgr[i]
        <4> TAKE i \in 1..Len(old)
        <4>1. new[i] = IF i > k.off /\ i <= k.off + Len(Wrote(c)) THEN Wrote(c)[i - k.off] ELSE mem.addrMgr[i]
          BY <1>5, <1>7, <3>6
        <4>2. CASE i > k.off /\ i <= k.off + Len(Wrote(c))
          <5>1. i - k.off \in 1..Len(Wrote(c)) /\ k.done + (i - k.off) = i
            BY <1>5, <1>7, <3>3, <4>2 DEF Aligned
          <5>2. Wrote(c)[i - k.off] = data[k.done + (i - k.off)]
            BY <1>5, <1>7, <5>1
          <5> QED BY <4>1, <4>2, <5>1, <5>2
        <4> QED BY <4>1, <4>2
      <3>8. Len(new) = Len(old)
        BY <1>5, <1>7, <3>6
      <3> SUFFICES ASSUME NEW j \in 1..(Len(old) \div 2), ~Asked(old[2 * j], begun), NEW i \in {2 * j - 1, 2 * j}
                   PROVE  new[i] = old[i]
        BY DEF Keeps, old
      <3>9. i \in 1..Len(old)
        BY <3>6
      <3>10. data[i] = old[i] /\ mem.addrMgr[i] = old[i]
        BY <3>5, <3>6, <3>9 DEF Keeps
      <3> QED BY <3>7, <3>9, <3>10
    <2> HIDE DEF new
    <2> QED BY <1>3, <1>5, <1>7, <2>1, <2>2 DEF MemoryOK
  <1> QED BY <1>4, <1>6, <1>7

\* A transfer to an item, between two chunks.
LEMMA GoesOnWriting ==
  ASSUME NEW c \in Callers, Live(c), scenario \in Scenarios, At(c).do \in {"write", "writeAll", "writeBack"},
         NEW k, SameStage(k, call[c]), k.buf = call[c].buf,
         k.done = call[c].done + Len(Wrote(c)), k.off = NextOffset(call[c].off, Len(Wrote(c))), k.done < Len(DataOf(c))
  PROVE  CallOK(k, scenario, begun, own)
  <1> DEFINE l == call[c]
             it == At(c).item
             data == DataOf(c)
  <1>1. CallOK(l, scenario, begun, own) /\ Going(l) = At(c) /\ Going(k) = At(c)
    BY DEF Live, SameStage, Going, At
  <1>2. ASSUME it \in {"nib", "addrMgr"}
        PROVE  /\ k.off \in Nat /\ k.done \in Nat /\ data \in Seq(Int) /\ Len(data) \in Nat
               /\ l.off \in Nat /\ l.done \in Nat /\ Len(Wrote(c)) = Chunk
               /\ At(c).do = "writeBack" => Len(data) = Len(l.buf)
    <2>1. /\ l.off \in Nat /\ l.done \in Nat /\ data \in Seq(Int) /\ l.done < Len(data)
          /\ At(c).do = "writeBack" => Len(data) = Len(l.buf)
      BY <1>2, WritesData
    <2>2. /\ Lesser(l.done + Chunk, Len(data)) \in Nat
          /\ Len(Wrote(c)) = Lesser(l.done + Chunk, Len(data)) - l.done
          /\ Lesser(l.done + Chunk, Len(data)) < Len(data) => Len(Wrote(c)) = Chunk
      <3> HIDE DEF data, l
      <3> QED BY <2>1, ChunkOf DEF Wrote, data, l
    <2>3. Len(Wrote(c)) = Chunk /\ k.done \in Nat /\ Len(data) \in Nat
      BY <2>1, <2>2, LenProperties
    <2>4. k.off \in Nat
      <3>1. l.off + Chunk \in Nat /\ k.off = (l.off + Chunk) % OffsetMod
        BY <2>1, <2>3, SizesAreSane DEF NextOffset
      <3> HIDE DEF l
      <3> QED BY <3>1, ModIsLess
    <2> QED BY <2>1, <2>3, <2>4
  <1>3. ~WritesBack(k, "nib")
    <2> SUFFICES ASSUME WritesBack(k, "nib") PROVE FALSE
      OBVIOUS
    <2>1. l.done = 0 /\ Len(Wrote(c)) = Len(data) /\ Len(data) \in Nat
      BY <1>1, <1>2, NibAtOnce DEF WritesBack
    <2> QED BY <2>1
  <1>4. At(c).do \in {"write", "writeAll"} => data = At(c).data
    BY DEF DataOf
  <1>5. ASSUME WritesBack(k, "addrMgr")
        PROVE  AllRead(k, scenario) /\ Places(k.buf, k.op.arg) # {}
    <2>1. AllRead(l, scenario) /\ Places(l.buf, l.op.arg) # {}
      BY <1>1, <1>5 DEF CallOK, WritesBack
    <2>2. k.done < Len(k.buf)
      BY <1>1, <1>2, <1>5 DEF WritesBack
    <2> QED BY <1>1, <2>1, <2>2 DEF AllRead, SameStage
  <1>6. ASSUME WritesBack(k, "addrMgr"), Calm(scenario, own)
        PROVE  Aligned(k) /\ Keeps(k.buf, scenario.mem.addrMgr, begun)
    <2>1. Aligned(l) /\ Keeps(l.buf, scenario.mem.addrMgr, begun) /\ AllRead(l, scenario)
      BY <1>1, <1>6 DEF CallOK, WritesBack
    <2>2. PICK j \in 0..l.done : l.done = Chunk * j
      BY <2>1 DEF Aligned
    <2>3. /\ k.done \in Nat /\ l.done \in Nat /\ Len(Wrote(c)) = Chunk /\ Len(data) = Len(scenario.mem.addrMgr) /\ Len(data) \in Nat
      BY <1>1, <1>2, <1>6, <2>1 DEF WritesBack, AllRead
    <2>4. j + 1 \in Nat /\ k.done = Chunk * (j + 1) /\ j + 1 <= k.done
      <3>1. j \in Nat /\ Chunk * (j + 1) = Chunk * j + Chunk
        BY <2>3, SizesAreSane
      <3>2. k.done = Chunk * (j + 1)
        BY <2>2, <2>3, <3>1
      <3> QED BY <3>1, <3>2, SizesAreSane
    <2>5. k.done % OffsetMod = k.done
      BY <1>6, <2>3, <2>4, ChunksFit DEF Calm
    <2>6. k.off = k.done
      BY <2>1, <2>3, <2>5 DEF Aligned, NextOffset
    <2> QED BY <2>1, <2>4, <2>6 DEF Aligned
  <1> HIDE DEF l, data
  <1>7. k.op \in begun /\ SafePlan(k.op, k.plan) /\ k.at \in 1..Len(k.plan) /\ DOMAIN k = Fields
    BY <1>1 DEF CallOK, SameStage, l
  <1> QED BY <1>1, <1>2, <1>3, <1>4, <1>5, <1>6, <1>7 DEF CallOK, ReadsOn, data

LEMMA WriteChunkOK ==
  ASSUME NEW c \in Callers, Live(c), scenario \in Scenarios, MemoryOK(mem, scenario, begun, own), WriteChunk(c)
  PROVE  MemoryOK(mem', scenario, begun, own) /\ Moves(c)
  <1> DEFINE k == call[c]
             next == [k EXCEPT !.done = @ + Len(Wrote(c)), !.off = NextOffset(@, Len(Wrote(c))), !.out.found = At(c).item = "addrMgr"]
  <1>1. At(c).do \in {"write", "writeAll", "writeBack"}
    BY DEF WriteChunk, Asks
  <1>2. \/ /\ Holds(mem[At(c).item], k.off, Wrote(c)) /\ mem' = Put(c)
           /\ \/ Answered(c, next, 1)
              \/ next.done < Len(DataOf(c)) /\ Continue(c, next)
              \/ Miss(c)
        \/ Miss(c) /\ mem' = mem
    BY DEF WriteChunk, Wrote, Put
  <1>3. /\ SameStage(next, call[c]) /\ next.buf = k.buf
        /\ next.done = k.done + Len(Wrote(c)) /\ next.off = NextOffset(k.off, Len(Wrote(c)))
    BY DEF SameStage, Live, CallOK, Fields
  <1> HIDE DEF next
  <1>4. MemoryOK(mem', scenario, begun, own)
    BY <1>1, <1>2, PutOK
  <1>5. CASE Answered(c, next, 1)
    BY <1>1, <1>3, <1>4, <1>5, AnsweredMoves
  <1>6. CASE next.done < Len(DataOf(c)) /\ Continue(c, next)
    BY <1>1, <1>3, <1>4, <1>6, GoesOnWriting, ContinueMoves
  <1>7. CASE Miss(c)
    BY <1>4, <1>7, MissMoves
  <1> QED BY <1>2, <1>4, <1>5, <1>6, <1>7

-----------------------------------------------------------------------------
(***************************************************************************)
(* The other requests                                                      *)
(***************************************************************************)
Undisturbed ==
  /\ scenario \in Scenarios /\ NoForm(scenario, begun)
  /\ MemoryOK(mem, scenario, begun, own) /\ TableOK(table, scenario, begun) /\ forming = Nobody
Outcome(c) ==
  /\ MemoryOK(mem', scenario, begun, own) /\ TableOK(table', scenario, begun) /\ forming' = Nobody /\ Moves(c)

\* A request that only reads.
LEMMA ReadsOK ==
  ASSUME NEW c \in Callers, Undisturbed, Reads, Moves(c)
  PROVE  Outcome(c)
  BY DEF Undisturbed, Outcome, Reads, device

LEMMA PlainReadsMove ==
  ASSUME NEW c \in Callers, Live(c), Undisturbed,
         LoseRequest(c) \/ Panic(c) \/ ReadValue(c) \/ ReadEntry(c) \/ Tune(c) \/ GetInfo(c)
  PROVE  Moves(c)
  <1>1. CallOK(call[c], scenario, begun, own) /\ Going(call[c]) = At(c) /\ DOMAIN pc = Callers /\ DOMAIN call = Callers
    BY DEF Live, Going, At
  <1>2. /\ SafePlan(call[c].op, call[c].plan) /\ call[c].at \in 1..Len(call[c].plan) /\ At(c) = call[c].plan[call[c].at]
        /\ DOMAIN call[c] = Fields
    BY <1>1 DEF CallOK, Going
  \* The end of a stage that is not a transfer.
  <1>3. ASSUME NEW k, SameStage(k, call[c]), Proceed(c, k, 1), At(c).do # "readAll"
        PROVE  Moves(c)
    <2>1. k.at + 1 <= Len(k.plan) => k.plan[k.at + 1].do # "writeBack"
      BY <1>2, <1>3, LeadsOn DEF SameStage
    <2> QED BY <1>3, <2>1, ProceedMoves
  <1>4. CASE LoseRequest(c)
    BY <1>4, MissMoves DEF LoseRequest
  <1>5. CASE Panic(c)
    BY <1>1, <1>5 DEF Panic, Moves, Waits
  <1>6. CASE ReadValue(c)
    <2> DEFINE k == [call[c] EXCEPT !.out.power = <<Signed(Piece(mem[At(c).item], 0)[1])>>]
    <2>1. At(c).do = "read" /\ (Miss(c) \/ Proceed(c, k, 1))
      BY <1>6 DEF ReadValue, Asks
    <2>2. SameStage(k, call[c])
      BY <1>2 DEF SameStage, Fields
    <2> HIDE DEF k
    <2> QED BY <1>3, <2>1, <2>2, MissMoves
  <1>7. CASE ReadEntry(c)
    <2> DEFINE k == call[c]
    <2>1. At(c).do = "exRead"
      BY <1>7 DEF ReadEntry, Asks
    <2>2. SameStage(k, call[c])
      BY <1>2 DEF SameStage
    <2>3. CASE \E devs, i : Continue(c, [k EXCEPT !.off = i, !.out.devs = devs])
      <3>1. PICK devs, i : Continue(c, [k EXCEPT !.off = i, !.out.devs = devs])
        BY <2>3
      <3> DEFINE l == [k EXCEPT !.off = i, !.out.devs = devs]
      <3>2. SameStage(l, call[c]) /\ Going(l) = At(c)
        BY <1>2 DEF SameStage, Fields, Going
      <3> HIDE DEF l
      <3>3. CallOK(l, scenario, begun, own)
        BY <1>1, <1>2, <2>1, <3>2 DEF CallOK, SameStage, ReadsOn, WritesBack, Transfers
      <3> QED BY <3>1, <3>3, ContinueMoves DEF l
    <2>4. CASE \E n \in {1, 2} : Proceed(c, k, n)
      <3>1. PICK n \in {1, 2} : Proceed(c, k, n)
        BY <2>4
      <3>2. k.at + n <= Len(k.plan) => k.plan[k.at + n].do # "writeBack"
        BY <1>2, <2>1, LeadsOn
      <3> QED BY <2>2, <3>1, <3>2, ProceedMoves
    <2> QED BY <1>7, <2>3, <2>4 DEF ReadEntry
  <1>8. CASE Tune(c)
    BY <1>2, <1>3, <1>8 DEF Tune, Asks, SameStage
  <1>9. CASE GetInfo(c)
    <2> DEFINE k == IF At(c).do = "deviceInfo" THEN [call[c] EXCEPT !.out.ieee = mem.extAddr] ELSE call[c]
    <2>1. At(c).do \in {"deviceInfo", "nwkInfo"} /\ Proceed(c, k, 1)
      BY <1>9 DEF GetInfo, Asks
    <2>2. SameStage(k, call[c])
      BY <1>2 DEF SameStage, Fields
    <2> HIDE DEF k
    <2> QED BY <1>3, <2>1, <2>2
  <1> QED BY <1>4, <1>5, <1>6, <1>7, <1>8, <1>9

\* A change of the network information that keeps its size and sets a channel.
LEMMA MovedOK ==
  ASSUME NEW m, NEW s, NEW b, NEW o, NEW ch \in Channels, MemoryOK(m, s, b, o)
  PROVE  MemoryOK(Moved(m, ch), s, b, o)
  <1> DEFINE nib == [i \in 1..Len(m.nib) |-> IF i = ChannelAt THEN ch ELSE m.nib[i]]
  <1>1. Moved(m, ch) = [m EXCEPT !.nib = nib]
    BY DEF Moved
  <1>2. m.nib \in Seq(Int) /\ DOMAIN m = Items /\ Len(m.nib) = Len(s.mem.nib) /\ Len(m.nib) \in Nat
    BY LenProperties DEF MemoryOK
  <1>3. \A i \in 1..Len(m.nib) : (IF i = ChannelAt THEN ch ELSE m.nib[i]) \in Int
    BY <1>2, ElementOfSeq DEF Channels
  <1>4. nib \in Seq(Int) /\ Len(nib) = Len(m.nib)
    BY <1>2, <1>3
  <1>5. Len(s.mem.nib) >= ChannelAt => nib[ChannelAt] # 0
    BY <1>2, SizesAreSane DEF Channels
  <1> HIDE DEF nib
  <1>6. /\ DOMAIN Moved(m, ch) = Items /\ Moved(m, ch).nib = nib
        /\ Moved(m, ch).startup = m.startup /\ Moved(m, ch).addrMgr = m.addrMgr
    BY <1>1, <1>2 DEF Items
  <1> QED BY <1>2, <1>4, <1>5, <1>6 DEF MemoryOK

\* An entry is emptied when its device is to be deleted.
LEMMA EmptiedOK ==
  ASSUME NEW t, NEW s, NEW b, NEW d, NEW i, TableOK(t, s, b), Asked(d, b), t[i][2] = d, NEW e
  PROVE  TableOK(NvWriteEx(t, i, e), s, b)
  BY DEF TableOK, NvWriteEx

LEMMA OtherRequestsOK ==
  ASSUME NEW c \in Callers, Live(c), Undisturbed,
         InitItem(c) \/ DeleteEntry(c) \/ SetChannel(c) \/ Commission(c) \/ ResetRequest(c) \/ NwkUpdate(c)
  PROVE  Outcome(c)
  <1>1. CallOK(call[c], scenario, begun, own) /\ Going(call[c]) = At(c) /\ DOMAIN pc = Callers /\ DOMAIN call = Callers
    BY DEF Live, Going, At
  <1>2. /\ SafePlan(call[c].op, call[c].plan) /\ call[c].at \in 1..Len(call[c].plan) /\ At(c) = call[c].plan[call[c].at]
        /\ DOMAIN call[c] = Fields /\ call[c].op \in begun /\ Len(call[c].plan) \in Nat
    BY <1>1 DEF CallOK, Going, SafePlan
  <1>3. SafeStage(call[c].op, At(c)) /\ SameStage(call[c], call[c])
    BY <1>2 DEF SafePlan, SameStage
  <1>4. CASE InitItem(c)
    <2>1. At(c).do = "init" /\ Answered(c, call[c], 1) /\ table' = table /\ forming' = forming
      BY <1>4 DEF InitItem, Asks
    <2>2. At(c).item \notin {"startup", "addrMgr", "nib"}
      BY <1>3, <2>1 DEF SafeStage
    <2>3. mem' = [mem EXCEPT ![At(c).item] = IF @ = <<>> THEN At(c).data ELSE @]
      BY <1>4 DEF InitItem
    <2>4. MemoryOK(mem', scenario, begun, own)
      BY <2>2, <2>3 DEF MemoryOK, Undisturbed, Items
    <2>5. Moves(c)
      BY <1>3, <2>1, AnsweredMoves
    <2> QED BY <2>1, <2>4, <2>5 DEF Outcome, Undisturbed
  <1>5. CASE DeleteEntry(c)
    <2> DEFINE k == call[c]
               i == k.off + 1
    <2>1. At(c).do = "exDelete" /\ mem' = mem /\ forming' = forming
      BY <1>5 DEF DeleteEntry, Asks
    <2>2. Asked(k.op.arg, begun)
      BY <1>2, <1>3, <2>1 DEF SafeStage, Asked
    <2>3. CASE \E out : /\ i <= Len(table) /\ table[i][2] = k.op.arg /\ table' = NvWriteEx(table, i, Emptied)
                        /\ Answered(c, [k EXCEPT !.out.found = out], Len(k.plan))
      <3>1. PICK out : /\ i <= Len(table) /\ table[i][2] = k.op.arg /\ table' = NvWriteEx(table, i, Emptied)
                       /\ Answered(c, [k EXCEPT !.out.found = out], Len(k.plan))
        BY <2>3
      <3>2. TableOK(table', scenario, begun)
        BY <2>2, <3>1, EmptiedOK DEF Undisturbed
      <3> DEFINE l == [k EXCEPT !.out.found = out]
      <3>3. SameStage(l, call[c])
        BY <1>2 DEF SameStage, Fields
      <3> HIDE DEF l
      <3>4. l.at + Len(k.plan) > Len(l.plan) /\ l.at + Len(k.plan) \in Nat /\ Len(k.plan) > 0
        BY <1>2, <3>3 DEF SameStage
      <3>5. CASE Proceed(c, l, Len(k.plan))
        <4>1. ~(l.at + Len(k.plan) <= Len(l.plan))
          BY <1>2, <3>3, <3>4 DEF SameStage
        <4>2. Moves(c)
          BY <1>2, <3>3, <3>4, <3>5, <4>1, ProceedMoves
        <4> QED BY <2>1, <3>2, <4>2 DEF Outcome, Undisturbed
      <3>6. CASE Miss(c)
        BY <2>1, <3>2, <3>6, MissMoves DEF Outcome, Undisturbed
      <3> QED BY <3>1, <3>5, <3>6 DEF Answered, l
    <2>4. CASE table' = table /\ \E o : Continue(c, [k EXCEPT !.off = o])
      <3>1. PICK o : Continue(c, [k EXCEPT !.off = o])
        BY <2>4
      <3> DEFINE l == [k EXCEPT !.off = o]
      <3>2. SameStage(l, call[c]) /\ Going(l) = At(c)
        BY <1>2 DEF SameStage, Fields, Going
      <3> HIDE DEF l
      <3>3. CallOK(l, scenario, begun, own)
        BY <1>1, <1>2, <2>1, <3>2 DEF CallOK, SameStage, ReadsOn, WritesBack, Transfers
      <3>4. Moves(c)
        BY <3>1, <3>3, ContinueMoves DEF l
      <3> QED BY <2>1, <2>4, <3>4 DEF Outcome, Undisturbed
    <2>5. CASE table' = table /\ Proceed(c, k, 1)
      <3>1. k.at + 1 <= Len(k.plan) => k.plan[k.at + 1].do # "writeBack"
        BY <1>2, <2>1, LeadsOn
      <3>2. Moves(c)
        BY <1>3, <2>5, <3>1, ProceedMoves
      <3> QED BY <2>1, <2>5, <3>2 DEF Outcome, Undisturbed
    <2> QED BY <1>5, <2>3, <2>4, <2>5 DEF DeleteEntry
  <1>6. CASE SetChannel(c)
    <2>1. At(c).do # "readAll" /\ Answered(c, call[c], 1) /\ mem' = mem /\ table' = table /\ forming' = forming
      BY <1>6 DEF SetChannel, Asks
    <2> QED BY <1>3, <2>1, AnsweredMoves DEF Outcome, Undisturbed
  <1>7. CASE Commission(c)
    BY <1>3, <1>7 DEF Commission, Asks, SafeStage
  <1>8. CASE ResetRequest(c)
    <2>1. At(c).do # "readAll" /\ Answered(c, call[c], 1) /\ Restarts
      BY <1>8 DEF ResetRequest, Asks
    <2>2. mem.startup # <<3>> => mem' = mem /\ table' = table /\ forming' = Nobody
      BY <2>1 DEF Restarts
    <2>3. Moves(c)
      BY <1>3, <2>1, AnsweredMoves
    <2> QED BY <2>2, <2>3 DEF Outcome, Undisturbed, MemoryOK, NoForm
  <1>9. CASE NwkUpdate(c)
    <2>1. /\ At(c).do = "nwkUpdate" /\ Answered(c, call[c], 1) /\ mem' = Moved(mem, At(c).data[1])
          /\ table' = table /\ forming' = forming
      BY <1>9 DEF NwkUpdate, Asks
    <2>2. At(c).data[1] \in Channels
      BY <1>3, <2>1 DEF SafeStage
    <2>3. MemoryOK(mem', scenario, begun, own)
      BY <2>1, <2>2, MovedOK DEF Undisturbed
    <2>4. Moves(c)
      BY <1>3, <2>1, AnsweredMoves
    <2> QED BY <2>1, <2>3, <2>4 DEF Outcome, Undisturbed
  <1> QED BY <1>4, <1>5, <1>6, <1>7, <1>8, <1>9

-----------------------------------------------------------------------------
(***************************************************************************)
(* The invariant                                                           *)
(***************************************************************************)
\* What holds of the calls, too, when nobody forms a network.
Calls == /\ DOMAIN pc = Callers /\ DOMAIN call = Callers
         /\ \A c \in Callers : pc[c] \notin Waits /\ (pc[c] = "run" => CallOK(call[c], scenario, begun, own))
LEMMA IInvParts ==
  ASSUME IInv
  PROVE  NoForm(scenario, begun) => Undisturbed /\ Calls
  BY DEF IInv, Undisturbed, Calls

\* It holds at first.
LEMMA InitIInv == Init => IInv
  <1> SUFFICES ASSUME Init PROVE IInv
    OBVIOUS
  <1>1. /\ scenario \in Scenarios /\ mem = scenario.mem /\ table = scenario.table /\ own = 0 /\ forming = Nobody
        /\ pc = [c \in Callers |-> "idle"] /\ call = [c \in Callers |-> Idle]
        /\ queue = [c \in Callers |-> IF c \in DOMAIN scenario.jobs THEN scenario.jobs[c] ELSE <<>>]
    BY DEF Init
  <1>2. /\ scenario.mem \in [Items -> Seq(Int)]
        /\ \A c \in DOMAIN scenario.jobs : scenario.jobs[c] \in Seq(Jobs)
    BY <1>1, ScenariosAreSane DEF Jobs
  <1>3. DOMAIN queue = Callers /\ \A c \in Callers : queue[c] \in Seq(Jobs)
    <2>1. <<>> \in Seq(Jobs)
      BY EmptySeq
    <2>2. DOMAIN queue = Callers /\ \A c \in Callers : queue[c] = IF c \in DOMAIN scenario.jobs THEN scenario.jobs[c] ELSE <<>>
      BY <1>1
    <2>3. ASSUME NEW c \in Callers
          PROVE  queue[c] \in Seq(Jobs)
      <3>1. CASE c \in DOMAIN scenario.jobs
        BY <1>2, <2>2, <3>1
      <3>2. CASE c \notin DOMAIN scenario.jobs
        BY <2>1, <2>2, <3>2
      <3> QED BY <3>1, <3>2
    <2> QED BY <2>2, <2>3
  <1>4. MemoryOK(mem, scenario, begun, own)
    BY <1>1, <1>2 DEF MemoryOK, Keeps, Items
  <1>5. TableOK(table, scenario, begun)
    BY <1>1 DEF TableOK
  <1>6. \A c \in Callers : pc[c] \notin Waits /\ pc[c] # "run"
    BY <1>1 DEF Waits
  <1> QED BY <1>1, <1>3, <1>4, <1>5, <1>6 DEF IInv, Jobs

\* A request preserves it.
LEMMA RequestKeepsIInv ==
  ASSUME IInv, NEW c \in Callers, Rest, Undisturbed /\ Calls => Outcome(c)
  PROVE  IInv'
  <1>1. scenario' = scenario /\ begun' = begun /\ own' = own /\ queue' = queue
    BY DEF Rest, history
  <1>2. ASSUME NoForm(scenario, begun)
        PROVE  /\ MemoryOK(mem', scenario, begun, own) /\ TableOK(table', scenario, begun) /\ forming' = Nobody
               /\ DOMAIN pc' = Callers /\ DOMAIN call' = Callers
               /\ \A e \in Callers : pc'[e] \notin Waits /\ (pc'[e] = "run" => CallOK(call'[e], scenario, begun, own))
    <2>1. Calls /\ Outcome(c)
      BY <1>2, IInvParts
    <2>2. ASSUME NEW e \in Callers
          PROVE  pc'[e] \notin Waits /\ (pc'[e] = "run" => CallOK(call'[e], scenario, begun, own))
      <3>1. CASE e = c
        BY <2>1, <3>1 DEF Outcome, Moves
      <3>2. CASE e # c
        BY <2>1, <3>2 DEF Outcome, Moves, Calls
      <3> QED BY <3>1, <3>2
    <2> QED BY <2>1, <2>2 DEF Outcome, Moves
  <1> QED BY <1>1, <1>2 DEF IInv

\* The beginning of an operation preserves it.
LEMMA BeginKeepsIInv ==
  ASSUME IInv, NEW c \in Callers, Begin(c)
  PROVE  IInv'
  <1> DEFINE op == Head(queue[c])
             k == [Idle EXCEPT !.op = op, !.plan = IF Valid(op, file) THEN Stages(op, file) ELSE <<>>]
             b == begun \cup {op}
  <1>1. /\ scenario' = scenario /\ own' = own /\ begun' = b /\ mem' = mem /\ table' = table /\ forming' = forming
        /\ queue' = [queue EXCEPT ![c] = Tail(@)] /\ call' = [call EXCEPT ![c] = k]
        /\ pc' = [pc EXCEPT ![c] = IF open /\ Valid(op, file) THEN "run" ELSE "failed"]
        /\ queue[c] # <<>>
    BY DEF Begin, device
  <1>2. queue[c] \in Seq(Jobs) /\ op \in Jobs /\ Tail(queue[c]) \in Seq(Jobs)
    BY <1>1, HeadTailProperties DEF IInv, Jobs
  <1>3. DOMAIN queue' = Callers /\ \A e \in Callers : queue'[e] \in Seq(Jobs)
    BY <1>1, <1>2 DEF IInv, Jobs
  <1>4. ASSUME NoForm(scenario, b)
        PROVE  /\ MemoryOK(mem, scenario, b, own) /\ TableOK(table, scenario, b) /\ forming = Nobody
               /\ DOMAIN pc' = Callers /\ DOMAIN call' = Callers
               /\ \A e \in Callers : pc'[e] \notin Waits /\ (pc'[e] = "run" => CallOK(call'[e], scenario, b, own))
    <2>1. NoForm(scenario, begun) /\ op.kind # "form"
      BY <1>4 DEF NoForm
    <2>2. Undisturbed /\ Calls
      BY <2>1, IInvParts
    <2>3. MemoryOK(mem, scenario, b, own) /\ TableOK(table, scenario, b)
      <3> HIDE DEF op
      <3> QED BY <2>2, MemoryStaysOK DEF Undisturbed
    <2>4. ASSUME Valid(op, file)
          PROVE  CallOK(k, scenario, b, own)
      <3>1. SafePlan(op, Stages(op, file)) /\ Len(Stages(op, file)) > 0 /\ Stages(op, file)[1].do # "writeBack"
        BY <1>2, <2>1, <2>4, PlansAreSafe
      <3>2. /\ DOMAIN k = Fields /\ k.op = op /\ k.plan = Stages(op, file) /\ k.at = 1
            /\ k.off = 0 /\ k.done = 0 /\ k.total = Unknown
        BY <2>4 DEF Idle, Fields
      <3> HIDE DEF k, op
      <3>3. k.op \in b /\ SafePlan(k.op, k.plan) /\ k.at \in 1..Len(k.plan) /\ Going(k).do # "writeBack"
        BY <3>1, <3>2 DEF Going, SafePlan
      <3> QED BY <3>2, <3>3, FreshCallOK
    <2> HIDE DEF k, op
    <2>5. ASSUME NEW e \in Callers
          PROVE  pc'[e] \notin Waits /\ (pc'[e] = "run" => CallOK(call'[e], scenario, b, own))
      <3>1. CASE e = c
        BY <1>1, <2>2, <2>4, <3>1 DEF Calls, Waits
      <3>2. CASE e # c
        <4>1. pc'[e] = pc[e] /\ call'[e] = call[e]
          BY <1>1, <2>2, <3>2 DEF Calls
        <4>2. pc[e] = "run" => CallOK(call[e], scenario, b, own)
          BY <2>2, CallStaysOK DEF Calls
        <4> QED BY <2>2, <4>1, <4>2 DEF Calls
      <3> QED BY <3>1, <3>2
    <2> QED BY <1>1, <2>2, <2>3, <2>5 DEF Undisturbed, Calls
  <1> HIDE DEF op, k, b
  <1> QED BY <1>1, <1>3, <1>4 DEF IInv, Jobs

\* What the coordinator does of its own preserves it.
LEMMA CoordinatorKeepsIInv ==
  ASSUME IInv, CountUpdate \/ LosePower \/ (\E d \in scenario.joins : Join(d)) \/ Starts \/ Close
  PROVE  IInv'
  <1>1. /\ scenario' = scenario /\ begun' = begun /\ queue' = queue /\ own \in Nat
        /\ (own' = own \/ own' = own + 1)
    BY DEF CountUpdate, LosePower, Join, Starts, Close, OwnAffair, Quiet, history, device, IInv
  <1>2. ASSUME NoForm(scenario, begun)
        PROVE  /\ MemoryOK(mem', scenario, begun, own') /\ TableOK(table', scenario, begun) /\ forming' = Nobody
               /\ pc' = pc /\ call' = call
    <2>1. Undisturbed
      BY <1>2, IInvParts
    <2>2. mem.startup # <<3>>
      BY <1>2, <2>1 DEF Undisturbed, NoForm, MemoryOK
    <2>3. /\ DOMAIN mem = Items /\ mem.nib \in Seq(Int) /\ mem.addrMgr \in Seq(Int)
          /\ Len(mem.nib) = Len(scenario.mem.nib) /\ Len(mem.addrMgr) = Len(scenario.mem.addrMgr)
      BY <2>1 DEF Undisturbed, MemoryOK
    <2>4. CASE CountUpdate
      <3> DEFINE nib == [mem.nib EXCEPT ![1] = @ + 1]
      <3>1. /\ mem' = [mem EXCEPT !.nib = nib] /\ table' = table /\ forming' = forming /\ own' = own + 1 /\ Len(mem.nib) > 0
            /\ pc' = pc /\ call' = call
        BY <2>4 DEF CountUpdate, OwnAffair, Quiet
      <3>2. 1 \in 1..Len(mem.nib) /\ mem.nib[1] + 1 \in Int
        BY <2>3, <3>1, LenProperties, ElementOfSeq
      <3>3. nib \in Seq(Int) /\ Len(nib) = Len(mem.nib)
        BY <2>3, <3>2, ExceptSeq
      <3>4. nib[ChannelAt] = mem.nib[ChannelAt]
        BY <2>3, SizesAreSane
      <3> HIDE DEF nib
      <3>5. /\ DOMAIN mem' = Items /\ mem'.nib = nib /\ mem'.startup = mem.startup /\ mem'.addrMgr = mem.addrMgr
        BY <2>3, <3>1 DEF Items
      <3>6. MemoryOK(mem', scenario, begun, own')
        BY <1>1, <2>1, <3>1, <3>3, <3>4, <3>5 DEF Undisturbed, MemoryOK, Calm
      <3> QED BY <2>1, <3>1, <3>6 DEF Undisturbed
    <2>5. CASE LosePower
      <3>1. mem' = mem /\ table' = table /\ forming' = Nobody /\ pc' = pc /\ call' = call
        BY <2>2, <2>5 DEF LosePower, Restarts, Quiet
      <3>2. own' = 0 => own = 0
        BY <1>1
      <3> QED BY <2>1, <3>1, <3>2, MemoryStaysOK DEF Undisturbed
    <2>6. ASSUME NEW d \in scenario.joins, Join(d)
          PROVE  /\ MemoryOK(mem', scenario, begun, own') /\ TableOK(table', scenario, begun) /\ forming' = Nobody
                 /\ pc' = pc /\ call' = call
      <3> DEFINE free == {i \in 1..Count(mem.addrMgr) : Entry(mem.addrMgr, i) = Emptied}
                 k == Least(free)
                 one == [mem.addrMgr EXCEPT ![2 * k - 1] = 1]
                 cells == [one EXCEPT ![2 * k] = d]
      <3>1. /\ mem' = [mem EXCEPT !.addrMgr = cells] /\ table' = table /\ forming' = forming /\ own' = own + 1 /\ free # {}
            /\ pc' = pc /\ call' = call
        BY <2>6 DEF Join, OwnAffair, Quiet
      <3>2. k \in free
        <4>1. free \subseteq Nat
          OBVIOUS
        <4> HIDE DEF free
        <4> QED BY <3>1, <4>1, LeastIsThere
      <3>3. 2 * k - 1 \in 1..Len(mem.addrMgr) /\ 2 * k \in 1..Len(mem.addrMgr) /\ d \in Int
        <4>1. Len(mem.addrMgr) \in Nat /\ k \in 1..(Len(mem.addrMgr) \div 2)
          BY <2>3, <3>2, LenProperties DEF Count
        <4>2. scenario.joins \subseteq Int
          BY <2>1, ScenariosAreSane DEF Undisturbed
        <4> HIDE DEF k
        <4>3. k \in Nat /\ k >= 1 /\ 2 * k <= Len(mem.addrMgr)
          <5> DEFINE n == Len(mem.addrMgr)
          <5>1. n \in Nat /\ k \in 1..(n \div 2)
            BY <4>1
          <5> HIDE DEF n
          <5>2. k \in Nat /\ 2 * k \in 1..n /\ 2 * k - 1 \in 1..n
            BY <5>1, CellsOfEntry
          <5>3. k \in Nat /\ k >= 1 /\ 2 * k <= n
            BY <5>1, <5>2
          <5> QED BY <5>3 DEF n
        <4>4. d \in Int
          BY <2>6, <4>2
        <4> QED BY <4>1, <4>3, <4>4
      <3> HIDE DEF k
      <3>4. one \in Seq(Int) /\ Len(one) = Len(mem.addrMgr)
        BY <2>3, <3>3, ExceptSeq
      <3> HIDE DEF one
      <3>5. cells \in Seq(Int) /\ Len(cells) = Len(mem.addrMgr)
        BY <3>3, <3>4, ExceptSeq
      <3> HIDE DEF cells
      <3>6. /\ DOMAIN mem' = Items /\ mem'.nib = mem.nib /\ mem'.startup = mem.startup /\ mem'.addrMgr = cells
        BY <2>3, <3>1 DEF Items
      <3>7. MemoryOK(mem', scenario, begun, own')
        BY <1>1, <2>1, <3>1, <3>5, <3>6 DEF Undisturbed, MemoryOK, Calm
      <3> QED BY <2>1, <3>1, <3>7 DEF Undisturbed
    <2>7. CASE Starts
      BY <2>1, <2>7 DEF Starts, Undisturbed
    <2>8. CASE Close
      BY <2>1, <2>8 DEF Close, Undisturbed, device
    <2> QED BY <2>4, <2>5, <2>6, <2>7, <2>8
  <1>3. ASSUME NoForm(scenario, begun)
        PROVE  \A c \in Callers : pc[c] \notin Waits /\ (pc[c] = "run" => CallOK(call[c], scenario, begun, own'))
    <2>1. Calls /\ (own' = 0 => own = 0)
      BY <1>1, <1>3, IInvParts
    <2> QED BY <2>1, CallStaysOK DEF Calls
  <1>4. own' \in Nat
    BY <1>1
  <1>5. NoForm(scenario, begun) => DOMAIN pc = Callers /\ DOMAIN call = Callers
    BY DEF IInv
  <1> QED BY <1>1, <1>2, <1>3, <1>4, <1>5 DEF IInv

\* Every step preserves it.
LEMMA NextIInv == IInv /\ [Next]_vars => IInv'
  <1> SUFFICES ASSUME IInv, [Next]_vars PROVE IInv'
    OBVIOUS
  <1>1. ASSUME NEW c \in Callers, Begin(c)
        PROVE  IInv'
    BY <1>1, BeginKeepsIInv
  <1>2. ASSUME NEW c \in Callers,
               \/ LoseRequest(c) \/ Panic(c) \/ ReadValue(c) \/ ReadEntry(c) \/ Tune(c) \/ GetInfo(c)
               \/ ReadLength(c) \/ ReadChunk(c)
        PROVE  IInv'
    <2>1. Reads /\ Rest /\ pc[c] = "run"
      BY <1>2 DEF LoseRequest, Panic, ReadValue, ReadEntry, Tune, GetInfo, ReadLength, ReadChunk, Asks, Reads
    <2>2. ASSUME Undisturbed, Calls
          PROVE  Outcome(c)
      <3>1. Live(c)
        BY <2>1, <2>2 DEF Live, Calls
      <3>2. Moves(c)
        BY <1>2, <2>2, <3>1, PlainReadsMove, ReadLengthMoves, ReadChunkMoves DEF Undisturbed
      <3> QED BY <2>1, <2>2, <3>2, ReadsOK
    <2> QED BY <2>1, <2>2, RequestKeepsIInv
  <1>3. ASSUME NEW c \in Callers, WriteChunk(c)
        PROVE  IInv'
    <2>1. Rest /\ pc[c] = "run" /\ table' = table /\ forming' = forming
      BY <1>3 DEF WriteChunk, Asks
    <2>2. ASSUME Undisturbed, Calls
          PROVE  Outcome(c)
      <3>1. Live(c)
        BY <2>1, <2>2 DEF Live, Calls
      <3> QED BY <1>3, <2>1, <2>2, <3>1, WriteChunkOK DEF Undisturbed, Outcome
    <2> QED BY <2>1, <2>2, RequestKeepsIInv
  <1>4. ASSUME NEW c \in Callers,
               InitItem(c) \/ DeleteEntry(c) \/ SetChannel(c) \/ Commission(c) \/ ResetRequest(c) \/ NwkUpdate(c)
        PROVE  IInv'
    <2>1. Rest /\ pc[c] = "run"
      BY <1>4 DEF InitItem, DeleteEntry, SetChannel, Commission, ResetRequest, NwkUpdate, Asks
    <2>2. ASSUME Undisturbed, Calls
          PROVE  Outcome(c)
      <3>1. Live(c)
        BY <2>1, <2>2 DEF Live, Calls
      <3> QED BY <1>4, <2>2, <3>1, OtherRequestsOK
    <2> QED BY <2>1, <2>2, RequestKeepsIInv
  \* Nobody waits for a change of state.
  <1>5. ASSUME NEW c \in Callers, Register(c) \/ Timeout(c)
        PROVE  IInv'
    <2>1. Rest /\ pc[c] \in Waits
      BY <1>5 DEF Register, Timeout, Reads, Waits
    <2>2. ~Calls
      BY <2>1 DEF Calls
    <2> QED BY <2>1, <2>2, RequestKeepsIInv
  <1>6. ASSUME NEW c \in Callers, Stirs(c)
        PROVE  IInv'
    <2>1. Rest /\ pc[c] \in Waits
      BY <1>6 DEF Stirs, Rest, Waits
    <2>2. ~Calls
      BY <2>1 DEF Calls
    <2> QED BY <2>1, <2>2, RequestKeepsIInv
  <1>7. CASE CountUpdate \/ LosePower \/ (\E d \in scenario.joins : Join(d)) \/ Starts \/ Close
    BY <1>7, CoordinatorKeepsIInv
  <1>8. CASE UNCHANGED vars
    BY <1>8 DEF IInv, vars
  <1> QED BY <1>1, <1>2, <1>3, <1>4, <1>5, <1>6, <1>7, <1>8 DEF Next, Step

-----------------------------------------------------------------------------
(***************************************************************************)
(* What it is good for                                                     *)
(***************************************************************************)
\* The network is lost only after somebody began to form one or to reset to
\* factory settings: no other operation clears the channel, whichever requests
\* of the callers meet, are refused or lose their answers, and whenever the
\* coordinator loses power (adapter/network_mgmt.go, znp/nv.go).
THEOREM NetworkIsNotLost == Spec => []ErasedOnlyWhenAsked
  <1>1. IInv => ErasedOnlyWhenAsked
    <2> SUFFICES ASSUME IInv, Len(scenario.mem.nib) >= ChannelAt, mem.nib[ChannelAt] = 0
                 PROVE  scenario.mem.nib[ChannelAt] = 0 \/ scenario.mem.startup = <<3>> \/ Kinds \cap {"form", "factoryReset"} # {}
      BY DEF ErasedOnlyWhenAsked
    <2>1. CASE NoForm(scenario, begun)
      <3>1. scenario.mem.nib[ChannelAt] = 0 \/ \E op \in begun : op.kind = "factoryReset"
        BY <2>1 DEF IInv, MemoryOK
      <3> QED BY <3>1 DEF Kinds
    <2>2. CASE ~NoForm(scenario, begun)
      BY <2>2 DEF NoForm, Kinds
    <2> QED BY <2>1, <2>2
  <1> QED BY InitIInv, NextIInv, <1>1, PTL DEF Spec

\* However the deletions and other operations of all callers overlap, chunk by
\* chunk, and whatever fails in them, the devices that nobody asked to delete
\* stay in the tables (znp/addr_mgr.go), under the conditions the property
\* names: nobody joins meanwhile, no formation, and offsets of enough bits.
THEOREM DevicesStay == Spec => []OthersKeepTheirEntries
  <1>1. IInv => OthersKeepTheirEntries
    <2> SUFFICES ASSUME IInv, own = 0, NoForm(scenario, begun), Fits(Len(mem.addrMgr)),
                        NEW d \in scenario.devs, ~Asked(d, begun)
                 PROVE  d \in Devices
      BY DEF OthersKeepTheirEntries, Asked, NoForm, Kinds
    <2> DEFINE old == scenario.mem.addrMgr
    <2>1. MemoryOK(mem, scenario, begun, own) /\ TableOK(table, scenario, begun)
      BY DEF IInv
    <2>2. Len(mem.addrMgr) = Len(old) /\ Keeps(mem.addrMgr, old, begun) /\ Len(old) \in Nat
      BY <2>1, LenProperties DEF MemoryOK, Calm
    <2>3. d \in DevicesOf(old, scenario.table) /\ scenario.table \in Seq(Seq(Int))
      BY ScenariosAreSane DEF IInv
    <2>4. CASE \E j \in 1..Count(old) : ~IsEmpty(Entry(old, j)) /\ d = Entry(old, j)[2]
      <3>1. PICK j \in 1..Count(old) : ~IsEmpty(Entry(old, j)) /\ d = Entry(old, j)[2]
        BY <2>4
      <3>2. j \in 1..(Len(old) \div 2) /\ d = old[2 * j]
        BY <3>1 DEF Count, Entry
      <3>3. \A i \in {2 * j - 1, 2 * j} : i <= Len(mem.addrMgr) => mem.addrMgr[i] = old[i]
        BY <2>2, <3>2 DEF Keeps
      <3>4. Entry(mem.addrMgr, j) = Entry(old, j) /\ j \in 1..Count(mem.addrMgr)
        <4>1. j \in 1..(Len(mem.addrMgr) \div 2) /\ 2 * j <= Len(mem.addrMgr) /\ 2 * j - 1 <= Len(mem.addrMgr)
          <5> DEFINE n == Len(mem.addrMgr)
          <5>1. n \in Nat /\ j \in 1..(n \div 2)
            BY <2>2, <3>2
          <5> HIDE DEF n
          <5>2. j \in Nat /\ 2 * j \in 1..n /\ 2 * j - 1 \in 1..n
            BY <5>1, CellsOfEntry
          <5>3. j \in 1..(n \div 2) /\ 2 * j <= n /\ 2 * j - 1 <= n
            BY <5>1, <5>2
          <5> QED BY <5>3 DEF n
        <4>2. mem.addrMgr[2 * j] = old[2 * j] /\ mem.addrMgr[2 * j - 1] = old[2 * j - 1]
          BY <3>3, <4>1
        <4> QED BY <4>1, <4>2 DEF Entry, Count
      <3> QED BY <3>1, <3>4 DEF Devices, DevicesOf, DevicesIn, Parsed
    <2>5. CASE \E j \in 1..Len(scenario.table) : Len(scenario.table[j]) = 2 /\ ~IsEmpty(scenario.table[j]) /\ d = scenario.table[j][2]
      <3>1. PICK j \in 1..Len(scenario.table) : Len(scenario.table[j]) = 2 /\ ~IsEmpty(scenario.table[j]) /\ d = scenario.table[j][2]
        BY <2>5
      <3>2. j \in DOMAIN table /\ j \in 1..Len(table)
        BY <2>1, <2>3, <3>1 DEF TableOK
      <3>3. table[j] = scenario.table[j]
        BY <2>1, <3>1, <3>2 DEF TableOK
      <3> QED BY <3>1, <3>2, <3>3 DEF Devices, DevicesOf, DevicesIn, Listed, Good
    <2> QED BY <2>3, <2>4, <2>5 DEF DevicesOf, DevicesIn, Parsed, Listed, Good
  <1> QED BY InitIInv, NextIInv, <1>1, PTL DEF Spec

-----------------------------------------------------------------------------
(***************************************************************************)
(* What an operation does alone. A second invariant follows the calls that *)
(* nobody disturbs, from stage to stage. First the types: an item has its  *)
(* size or is not there; all but the table of devices takes one request.   *)
(***************************************************************************)
\* One item is as it was, or is there in its size. A backup has an address and a
\* key, or neither.
MemTyped(m) == m \in [Items -> Seq(Int)] /\ \A i \in Items \ {"addrMgr"} : Len(m[i]) \in {0, SizeOf(i)}
FileTyped(f) == f.ieee \in Seq(Int) /\ f.key \in Seq(Int) /\ Len(f.ieee) \in {0, 1} /\ Len(f.key) \in {0, 2}

\* What an operation remembers of its beginning.
BeforeTyped(b) == MemTyped(b.mem) /\ b.table \in Seq(Seq(Int)) /\ FileTyped(b.file)

\* What a stage writes is as long as the item.
StageTyped(st) ==
  /\ st.do \in {"write", "writeAll", "init"} => st.item \in Items \ {"addrMgr"} /\ st.data \in Seq(Int) /\ Len(st.data) = SizeOf(st.item)
  /\ st.do = "writeBack" => st.item \in {"nib", "addrMgr"} /\ st.data[1] \in Int
  /\ st.do = "readAll" => st.item \in {"nib", "key", "addrMgr"}
  /\ st.do = "read" => st.item \in Items
  /\ st.do \in {"primary", "nwkUpdate"} => st.data[1] \in Int

\* The data of a stage has its types, and nothing is written back unread.
PlanTyped(p) ==
  /\ Len(p) \in Nat /\ Len(p) > 0 /\ p[1].do \notin {"writeBack", "await"}
  /\ \A i \in 1..Len(p) : StageTyped(p[i]) /\ Follows(p, i)

\* What a call tells, and when it runs.
Outs == {"ieee", "nib", "key", "devs", "power", "found"}
Active == {"run"} \cup Waits

\* Only the table of devices takes more than one request.
AtOnce(k) ==
  Going(k).do \in Transfers /\ Going(k).item # "addrMgr" =>
    /\ k.off = 0 /\ k.done = 0
    /\ Going(k).do = "readAll" /\ k.total # Unknown => k.buf = <<>> /\ k.total = SizeOf(Going(k).item)
    /\ Going(k).do = "writeBack" => Len(k.buf) = NibSize

\* The fields of a call that runs.
FieldsTyped(k) ==
  /\ DOMAIN k = Fields /\ DOMAIN k.out = Outs /\ FileTyped(k.out) /\ k.buf \in Seq(Int)
  /\ k.off \in Nat /\ k.done \in Nat /\ k.total \in Nat \cup {Unknown}
  /\ PlanTyped(k.plan) /\ k.at \in 1..Len(k.plan)
CallTyped(k, p) == FieldsTyped(k) /\ (p \in Waits <=> Going(k).do = "await") /\ AtOnce(k)

\* The types of the state.
Typed ==
  /\ MemTyped(mem) /\ table \in Seq(Seq(Int)) /\ mask \in Int /\ FileTyped(file)
  /\ DOMAIN pc = Callers /\ DOMAIN call = Callers /\ DOMAIN before = Callers
  /\ \A c \in Callers : BeforeTyped(before[c]) /\ (pc[c] \in Active => CallTyped(call[c], pc[c]))

\* The items, and the sizes they have.
LEMMA ItemsThere ==
  /\ {"startup", "type", "profile", "zdoCb", "nib", "key", "altKey", "extAddr", "power", "addrMgr"} = Items
  /\ {"startup", "type", "profile", "zdoCb", "nib", "key", "altKey", "extAddr", "power"} = Items \ {"addrMgr"}
  /\ SizeOf("nib") = NibSize /\ SizeOf("key") = 2 /\ SizeOf("altKey") = 2
  /\ \A i \in {"startup", "type", "profile", "zdoCb", "extAddr", "power"} : SizeOf(i) = 1
  /\ \A i \in Items \ {"addrMgr"} : SizeOf(i) \in 1..Chunk /\ SizeOf(i) \in Nat
  <1>1. NibSize \in Nat /\ NibSize >= 2 /\ Chunk \in Nat /\ NibSize <= Chunk
    BY SizesAreSane
  <1> QED BY <1>1 DEF Items, SizeOf

\* What is written when a call is to write something of one or two cells.
LEMMA FewCells ==
  /\ \A a \in Int : <<a>> \in Seq(Int) /\ Len(<<a>>) = 1 /\ <<a>>[1] \in Int
  /\ Zeros(2) \in Seq(Int) /\ Len(Zeros(2)) = 2
  /\ Zeros(NibSize) \in Seq(Int) /\ Len(Zeros(NibSize)) = NibSize
  <1>1. NibSize \in Nat
    BY SizesAreSane
  <1> QED BY <1>1 DEF Zeros

\* The plan of a backup.
LEMMA BackupTyped ==
  /\ PlanTyped(CreateBackup) /\ Len(CreateBackup) = 6
  /\ CreateBackup[1] = Command("deviceInfo", <<>>) /\ CreateBackup[2] = Command("nwkInfo", <<>>)
  /\ CreateBackup[3] = NvReadAll("nib") /\ CreateBackup[4] = NvReadAll("key")
  /\ CreateBackup[5] = Command("exRead", <<>>) /\ CreateBackup[6] = NvReadAll("addrMgr")
  <1> DEFINE a == <<Command("deviceInfo", <<>>), Command("nwkInfo", <<>>), NvReadAll("nib"), NvReadAll("key")>>
             b == <<Command("exRead", <<>>), NvReadAll("addrMgr")>>
             S == {a[1], a[2], a[3], a[4], b[1], b[2]}
  <1>1. a \in Seq(S) /\ b \in Seq(S) /\ Len(a) = 4 /\ Len(b) = 2
    OBVIOUS
  <1>2. CreateBackup = a \o b
    BY DEF CreateBackup, ReadAddrMgrTable
  <1>3. /\ a[1] = Command("deviceInfo", <<>>) /\ a[2] = Command("nwkInfo", <<>>) /\ a[3] = NvReadAll("nib")
        /\ a[4] = NvReadAll("key") /\ b[1] = Command("exRead", <<>>) /\ b[2] = NvReadAll("addrMgr")
    OBVIOUS
  <1> HIDE DEF a, b, S
  <1>4. /\ Len(a \o b) = Len(a) + Len(b)
        /\ \A i \in 1..Len(a) + Len(b) : (a \o b)[i] = IF i <= Len(a) THEN a[i] ELSE b[i - Len(a)]
    BY <1>1, ConcatProperties
  <1>5. /\ Len(CreateBackup) = 6
        /\ CreateBackup[1] = Command("deviceInfo", <<>>) /\ CreateBackup[2] = Command("nwkInfo", <<>>)
        /\ CreateBackup[3] = NvReadAll("nib") /\ CreateBackup[4] = NvReadAll("key")
        /\ CreateBackup[5] = Command("exRead", <<>>) /\ CreateBackup[6] = NvReadAll("addrMgr")
    BY <1>1, <1>2, <1>3, <1>4
  <1>6. \A i \in 1..6 : StageTyped(CreateBackup[i]) /\ Follows(CreateBackup, i) /\ CreateBackup[1].do \notin {"writeBack", "await"}
    <2> HIDE DEF a
    <2> TAKE i \in 1..6
    <2>1. i \in {1, 2, 3, 4, 5, 6}
      OBVIOUS
    <2> QED BY <1>5, <2>1 DEF StageTyped, Follows, Command, NvReadAll, Stage
  <1> QED BY <1>5, <1>6 DEF PlanTyped

\* Stages that write an item whole, and those that are typed without looking.
Plain(st) == StageTyped(st) /\ st.do \notin {"writeBack", "await"}

\* What is written to an item of a cell is as long as the item.
LEMMA WritesTyped ==
  ASSUME NEW i \in Items \ {"addrMgr"}, NEW d \in Seq(Int), Len(d) = SizeOf(i)
  PROVE  /\ Plain(Write(i, d)) /\ Plain(NvWriteAll(i, d)) /\ Plain(NvItemInit(i, d))
         /\ Plain(Try(Write(i, d))) /\ Plain(Try(NvWriteAll(i, d))) /\ Plain(Try(NvItemInit(i, d)))
  BY DEF Write, NvWriteAll, NvItemInit, Stage, Try, StageTyped, Plain

\* A command whose data matter to nobody has its types.
LEMMA PlainTyped ==
  ASSUME NEW do \in {"reset", "secondary", "commission", "tune"}, NEW d
  PROVE  Plain(Command(do, d))
  BY DEF Command, Stage, StageTyped, Plain

\* A plan that writes nothing back.
LEMMA NoWriteBackTyped ==
  ASSUME NEW p, Len(p) \in Nat, Len(p) > 0, p[1].do # "await", \A i \in 1..Len(p) : StageTyped(p[i]) /\ p[i].do # "writeBack"
  PROVE  PlanTyped(p)
  BY DEF PlanTyped, Follows

\* The plan of a formation writes items of one cell.
LEMMA FormTyped ==
  ASSUME NEW ch \in Int
  PROVE  PlanTyped(FormNetwork(ch))
  <1> DEFINE p == FormNetwork(ch)
  <1>1. WithDefault(ch) \in Int
    BY DEF WithDefault
  <1>2. Plain(Command("primary", <<WithDefault(ch)>>))
    BY <1>1 DEF Command, Stage, StageTyped, Plain
  <1>3. <<3>> \in Seq(Int) /\ <<0>> \in Seq(Int) /\ <<1>> \in Seq(Int) /\ <<4>> \in Seq(Int)
    OBVIOUS
  <1>4. Len(<<3>>) = 1 /\ Len(<<0>>) = 1 /\ Len(<<1>>) = 1 /\ Len(<<4>>) = 1
    OBVIOUS
  <1>5. Plain(Write("startup", <<3>>))
    BY <1>3, <1>4, WritesTyped, ItemsThere
  <1>6. Plain(Write("type", <<0>>))
    BY <1>3, <1>4, WritesTyped, ItemsThere
  <1>7. Plain(Write("zdoCb", <<1>>))
    BY <1>3, <1>4, WritesTyped, ItemsThere
  <1>8. Plain(Try(NvItemInit("profile", <<4>>))) /\ Plain(Try(Write("profile", <<4>>)))
    BY <1>3, <1>4, WritesTyped, ItemsThere
  <1>9. Plain(Reset) /\ Plain(Command("secondary", <<0>>)) /\ Plain(Command("commission", <<>>))
    BY PlainTyped DEF Reset
  <1>10. StageTyped(Command("await", <<>>)) /\ Command("await", <<>>).do # "writeBack"
    BY DEF Command, Stage, StageTyped
  <1>11. Len(p) = 10
    BY DEF FormNetwork
  <1>12. /\ Plain(p[1]) /\ Plain(p[2]) /\ Plain(p[3]) /\ Plain(p[4]) /\ Plain(p[5]) /\ Plain(p[6]) /\ Plain(p[7]) /\ Plain(p[8])
         /\ Plain(p[9]) /\ StageTyped(p[10]) /\ p[10].do # "writeBack"
    BY <1>2, <1>5, <1>6, <1>7, <1>8, <1>9, <1>10 DEF FormNetwork
  <1>13. \A i \in 1..10 : i \in {1, 2, 3, 4, 5, 6, 7, 8, 9, 10}
    OBVIOUS
  <1>14. p[1].do # "await" /\ \A i \in 1..Len(p) : StageTyped(p[i]) /\ p[i].do # "writeBack"
    <2> HIDE DEF p
    <2> QED BY <1>11, <1>12, <1>13 DEF Plain
  <1>15. Len(p) \in Nat /\ Len(p) > 0
    BY <1>11
  <1> HIDE DEF p
  <1>16. PlanTyped(p)
    BY <1>14, <1>15, NoWriteBackTyped
  <1> QED BY <1>16 DEF p

\* Every plan has its types.
LEMMA PlansAreTyped ==
  ASSUME NEW op \in Jobs, NEW f, FileTyped(f), Valid(op, f)
  PROVE  PlanTyped(Stages(op, f))
  <1>0. op.arg \in Int /\ Byte(op.arg) \in Int
    BY DEF Jobs, Byte
  <1>1. CASE op.kind = "channel"
    BY <1>0, <1>1 DEF PlanTyped, StageTyped, Follows, Command, NvReadAll, Stage, Reset, Stages, ChangeChannel
  <1>2. CASE op.kind = "seamless"
    BY <1>0, <1>2 DEF PlanTyped, StageTyped, Follows, Command, NvReadAll, Stage, Reset, Stages, ChangeChannel
  <1>3. CASE op.kind = "setPower"
    <2> DEFINE p == Stages(op, f)
    <2>1. p = <<Command("tune", <<>>), Try(NvItemInit("power", <<Byte(op.arg)>>)), Try(Write("power", <<Byte(op.arg)>>))>>
      BY <1>3 DEF Stages, SetTxPower
    <2>2. <<Byte(op.arg)>> \in Seq(Int) /\ Len(<<Byte(op.arg)>>) = SizeOf("power")
      BY <1>0, ItemsThere
    <2>3. Plain(Try(NvItemInit("power", <<Byte(op.arg)>>))) /\ Plain(Try(Write("power", <<Byte(op.arg)>>)))
      BY <2>2, WritesTyped, ItemsThere
    <2>4. Plain(Command("tune", <<>>))
      BY PlainTyped
    <2>5. Len(p) = 3 /\ Plain(p[1]) /\ Plain(p[2]) /\ Plain(p[3])
      BY <2>1, <2>3, <2>4
    <2> QED BY <2>5, NoWriteBackTyped DEF Plain
  <1>4. CASE op.kind = "getPower"
    BY <1>0, <1>4, ItemsThere DEF PlanTyped, StageTyped, Follows, Command, NvReadAll, Stage, Reset, Stages, GetTxPower
  <1>5. CASE op.kind = "factoryReset"
    <2> DEFINE p == Stages(op, f)
    <2>1. p = <<Try(NvWriteAll("nib", Zeros(NibSize))), Try(Write("key", Zeros(2))), Try(Write("altKey", Zeros(2))), Reset>>
      BY <1>5 DEF Stages, FactoryReset
    <2>2. Plain(Try(NvWriteAll("nib", Zeros(NibSize))))
      BY WritesTyped, ItemsThere, FewCells
    <2>3. Plain(Try(Write("key", Zeros(2)))) /\ Plain(Try(Write("altKey", Zeros(2))))
      BY WritesTyped, ItemsThere, FewCells
    <2>4. Plain(Reset)
      BY PlainTyped DEF Reset
    <2>5. Len(p) = 4 /\ Plain(p[1]) /\ Plain(p[2]) /\ Plain(p[3]) /\ Plain(p[4])
      BY <2>1, <2>2, <2>3, <2>4
    <2> QED BY <2>5, NoWriteBackTyped DEF Plain
  <1>6. CASE op.kind = "restore"
    <2>1. f.ieee \in Seq(Int) /\ Len(f.ieee) = 1 /\ f.key \in Seq(Int) /\ Len(f.key) = 2
      BY <1>6, EmptySeq DEF Valid, Validate, FileTyped
    <2> DEFINE p == Stages(op, f)
    <2>2. p = <<NvWriteAll("extAddr", f.ieee), NvWriteAll("key", f.key), NvWriteAll("altKey", f.key)>>
      BY <1>6 DEF Stages, RestoreBackup
    <2>3. Plain(NvWriteAll("extAddr", f.ieee)) /\ Plain(NvWriteAll("key", f.key)) /\ Plain(NvWriteAll("altKey", f.key))
      BY <2>1, ItemsThere, WritesTyped
    <2>4. Len(p) = 3 /\ Plain(p[1]) /\ Plain(p[2]) /\ Plain(p[3])
      BY <2>2, <2>3
    <2> QED BY <2>4, NoWriteBackTyped DEF Plain
  <1>7. CASE op.kind = "delete"
    BY <1>0, <1>7 DEF PlanTyped, StageTyped, Follows, Command, NvReadAll, Stage, Reset, Stages, DeleteAddrMgrEntry
  <1>8. CASE op.kind = "backup"
    BY <1>8, BackupTyped DEF Stages
  <1>9. CASE op.kind = "form"
    BY <1>0, <1>9, FormTyped DEF Stages
  <1> QED BY <1>1, <1>2, <1>3, <1>4, <1>5, <1>6, <1>7, <1>8, <1>9 DEF Jobs, Operations

-----------------------------------------------------------------------------
(***************************************************************************)
(* Where a call gets to                                                    *)
(***************************************************************************)
\* How far a call is: at a stage of its plan, or through.
Reached(k, p) == IF p = "done" THEN Len(k.plan) + 1 ELSE k.at

\* The call k is at the beginning of the stage n further on, or through.
Gets(c, k, n) ==
  /\ call'[c].op = k.op /\ call'[c].plan = k.plan /\ call'[c].buf = k.buf /\ call'[c].out = k.out
  /\ Reached(call'[c], pc'[c]) = Lesser(k.at + n, Len(k.plan) + 1)
  /\ pc'[c] # "done" => call'[c].off = 0 /\ call'[c].done = 0 /\ call'[c].total = Unknown

\* A step of c keeps the types of all calls.
Settled(c) ==
  /\ DOMAIN pc' = Callers /\ DOMAIN call' = Callers /\ FileTyped(file')
  /\ \A e \in Callers \ {c} : pc'[e] = pc[e] /\ call'[e] = call[e]
  /\ pc'[c] \in Active => CallTyped(call'[c], pc'[c])

\* A call that runs.
Ready(c) == Typed /\ c \in Callers /\ pc[c] \in Active

\* What is known of a call that runs.
LEMMA ReadyParts ==
  ASSUME NEW c, Ready(c)
  PROVE  /\ c \in Callers /\ DOMAIN pc = Callers /\ DOMAIN call = Callers /\ FileTyped(file) /\ MemTyped(mem)
         /\ CallTyped(call[c], pc[c]) /\ FieldsTyped(call[c]) /\ AtOnce(call[c]) /\ Going(call[c]) = At(c)
         /\ DOMAIN call[c] = Fields /\ DOMAIN call[c].out = Outs /\ call[c].at \in Nat /\ Len(call[c].plan) \in Nat
         /\ StageTyped(At(c)) /\ call[c].at \in 1..Len(call[c].plan)
  BY DEF Ready, Typed, CallTyped, FieldsTyped, Going, At, PlanTyped

\* Where a call gets to, and that it keeps its types, when what it writes back
\* next was read whole.
LEMMA ProceedSettles ==
  ASSUME NEW c, Ready(c), NEW k, FieldsTyped(k), NEW n \in Nat, n > 0, Proceed(c, k, n),
         k.at + n <= Len(k.plan) /\ k.plan[k.at + n].do = "writeBack" /\ k.plan[k.at + n].item = "nib" => Len(k.buf) = NibSize
  PROVE  Settled(c) /\ Gets(c, k, n)
  <1> DEFINE i == k.at + n
             next == [k EXCEPT !.at = i, !.off = 0, !.done = 0, !.total = Unknown]
  <1>1. /\ k.at \in 1..Len(k.plan) /\ DOMAIN k = Fields /\ Len(k.plan) \in Nat /\ k.at \in Nat /\ i \in Nat
        /\ c \in Callers /\ DOMAIN pc = Callers /\ DOMAIN call = Callers
    BY ReadyParts DEF FieldsTyped, PlanTyped
  <1>2. FileTyped(file')
    BY ReadyParts DEF Proceed, FieldsTyped, FileTyped
  <1>3. CASE i > Len(k.plan)
    <2>1. pc' = [pc EXCEPT ![c] = "done"] /\ call' = [call EXCEPT ![c] = k]
      BY <1>3 DEF Proceed
    <2>2. Reached(k, "done") = Lesser(i, Len(k.plan) + 1)
      BY <1>1, <1>3 DEF Reached, Lesser
    <2> QED BY <1>1, <1>2, <2>1, <2>2 DEF Settled, Gets, Active, Waits
  <1>4. CASE ~(i > Len(k.plan))
    <2>1. i \in 1..Len(k.plan) /\ i = Lesser(i, Len(k.plan) + 1)
      BY <1>1, <1>4 DEF Lesser
    <2> DEFINE p == IF k.plan[i].do = "await" THEN "register" ELSE "run"
    <2>2. pc' = [pc EXCEPT ![c] = p] /\ call' = [call EXCEPT ![c] = next]
      BY <1>4 DEF Proceed
    <2>3. /\ DOMAIN next = Fields /\ next.op = k.op /\ next.plan = k.plan /\ next.at = i /\ next.buf = k.buf /\ next.out = k.out
          /\ next.off = 0 /\ next.done = 0 /\ next.total = Unknown
      BY <1>1 DEF Fields
    <2> HIDE DEF next, i
    <2>4. FieldsTyped(next) /\ Going(next) = k.plan[i]
      BY <2>1, <2>3 DEF FieldsTyped, Going
    <2>5. StageTyped(Going(next))
      BY <2>1, <2>4 DEF FieldsTyped, PlanTyped
    <2>6. AtOnce(next)
      BY <2>3, <2>4, <2>5, <2>1 DEF AtOnce, StageTyped, i
    <2>7. p \in Waits <=> Going(next).do = "await"
      BY <2>4 DEF Waits
    <2>8. CallTyped(next, p) /\ Reached(next, p) = i
      BY <2>3, <2>4, <2>6, <2>7 DEF CallTyped, Reached
    <2> QED BY <1>1, <1>2, <2>1, <2>2, <2>3, <2>8 DEF Settled, Gets, i
  <1> QED BY <1>3, <1>4

\* The end of a stage after which nothing is written back.
LEMMA ArriveSettles ==
  ASSUME NEW c, Ready(c), NEW k, FieldsTyped(k), SameStage(k, call[c]), NEW n \in Nat, n > 0, Proceed(c, k, n),
         \/ n = 1 /\ (At(c).do # "readAll" \/ At(c).try)
         \/ n = 2 /\ At(c).do \in {"exRead", "readAll"}
         \/ call[c].at + n > Len(call[c].plan)
  PROVE  Settled(c) /\ Gets(c, k, n)
  <1>1. /\ k.at \in 1..Len(k.plan) /\ Len(k.plan) \in Nat /\ k.at \in Nat /\ k.plan[k.at] = At(c)
        /\ \A i \in 1..Len(k.plan) : Follows(k.plan, i)
        /\ k.at = call[c].at /\ k.plan = call[c].plan
    BY DEF FieldsTyped, PlanTyped, SameStage, At
  <1>2. ASSUME k.at + n <= Len(k.plan)
        PROVE  k.plan[k.at + n].do # "writeBack"
    <2>1. \/ n = 1 /\ (k.plan[k.at].do # "readAll" \/ k.plan[k.at].try)
          \/ n = 2 /\ k.plan[k.at].do \in {"exRead", "readAll"}
      BY <1>1, <1>2
    <2> QED BY <1>1, <1>2, <2>1, StageAfter
  <1> QED BY <1>2, ProceedSettles

\* A request that failed ended the call, or left it without devices and not sound.
Over(c) == pc'[c] \notin Active \cup {"done"}
Missed(c) ==
  \/ Over(c)
  \/ /\ At(c).try \/ At(c).do \in {"exRead", "exDelete"}
     /\ Gets(c, [call[c] EXCEPT !.out.devs = {}], 1) /\ c \notin sound'

\* A request that failed.
LEMMA MissSettles ==
  ASSUME NEW c, Ready(c), Miss(c)
  PROVE  Settled(c) /\ Missed(c)
  <1> DEFINE k == [call[c] EXCEPT !.out.devs = {}]
  <1>1. SameStage(k, call[c]) /\ FieldsTyped(k)
    BY ReadyParts DEF SameStage, FieldsTyped, Fields, Outs, FileTyped
  <1>2. CASE At(c).try \/ At(c).do \in {"exRead", "exDelete"}
    <2>1. Proceed(c, k, 1) /\ c \notin sound'
      BY <1>2 DEF Miss
    <2> HIDE DEF k
    <2>2. Settled(c) /\ Gets(c, k, 1)
      BY <1>1, <1>2, <2>1, ArriveSettles
    <2> QED BY <1>2, <2>1, <2>2 DEF Missed, k
  <1>3. CASE ~(At(c).try \/ At(c).do \in {"exRead", "exDelete"})
    <2>1. pc' = [pc EXCEPT ![c] = "failed"] /\ call' = call /\ file' = file
      BY <1>3 DEF Miss
    <2> QED BY <2>1, ReadyParts DEF Settled, Missed, Over, Active, Waits
  <1> QED BY <1>2, <1>3

\* A request was answered and the call went on, or the request failed.
Answers(c, k, n) == (Gets(c, k, n) /\ sound' = sound) \/ Missed(c)

\* A request that was answered, or whose answer was lost.
LEMMA AnsweredSettles ==
  ASSUME NEW c, Ready(c), NEW k, FieldsTyped(k), SameStage(k, call[c]), NEW n \in Nat, n > 0, Answered(c, k, n),
         (n = 1 /\ At(c).do # "readAll") \/ call[c].at + n > Len(call[c].plan)
  PROVE  Settled(c) /\ Answers(c, k, n)
  <1>1. CASE Proceed(c, k, n) /\ sound' = sound
    BY <1>1, ArriveSettles DEF Answers
  <1>2. CASE Miss(c)
    BY <1>2, MissSettles DEF Answers
  <1> QED BY <1>1, <1>2 DEF Answered

\* A call that stays at its stage.
LEMMA ContinueSettles ==
  ASSUME NEW c, Ready(c), NEW k, CallTyped(k, pc[c]), Continue(c, k)
  PROVE  Settled(c) /\ pc'[c] = pc[c] /\ call'[c] = k
  BY ReadyParts DEF Continue, Settled

-----------------------------------------------------------------------------
(***************************************************************************)
(* What a call writes                                                      *)
(***************************************************************************)
\* What a step of a call leaves, of the call and of the device.
Result(c) == Settled(c) /\ MemTyped(mem') /\ table' \in Seq(Seq(Int)) /\ mask' \in Int

\* The call moves on by a stage, or its request failed.
Goes(c) ==
  /\ call'[c].op = call[c].op /\ call'[c].plan = call[c].plan
  /\ Reached(call'[c], pc'[c]) = Lesser(call[c].at + 1, Len(call[c].plan) + 1)
Lost(c) == Over(c) \/ (At(c).try /\ Goes(c) /\ c \notin sound')
Serves(c) == (Goes(c) /\ sound' = sound) \/ Lost(c)

\* At a stage that looks for nothing, the call moves on, or its request failed.
LEMMA AnswersServes ==
  ASSUME NEW c, NEW k, k.op = call[c].op, k.plan = call[c].plan, k.at = call[c].at, At(c).do \notin {"exRead", "exDelete"}
  PROVE  (Answers(c, k, 1) => Serves(c)) /\ (Missed(c) => Lost(c)) /\ (Gets(c, k, 1) => Goes(c))
  BY DEF Answers, Serves, Missed, Lost, Gets, Goes

\* What a chunk is, wherever in the data.
LEMMA PartOf ==
  ASSUME NEW d \in Seq(Int), NEW i \in Nat
  PROVE  SubSeq(d, i + 1, Lesser(i + Chunk, Len(d))) \in Seq(Int)
  <1> DEFINE n == Lesser(i + Chunk, Len(d))
  <1>1. n \in Nat /\ n <= Len(d)
    BY SizesAreSane, LenProperties DEF Lesser
  <1>2. \A j \in (i + 1)..n : d[j] \in Int
    BY <1>1, ElementOfSeq
  <1> HIDE DEF n
  <1>3. SubSeq(d, i + 1, n) \in Seq(Int)
    BY <1>1, <1>2, SubSeqProperties
  <1> QED BY <1>3 DEF n

\* An item that takes one request is replaced as a whole.
LEMMA SplicedWhole ==
  ASSUME NEW cells \in Seq(Int), NEW data \in Seq(Int), NEW n \in Nat, n > 0, Len(cells) \in {0, n}, Len(data) = n, Holds(cells, 0, data)
  PROVE  Len(cells) = n /\ Spliced(cells, 0, data) = data
  <1>1. Len(cells) = n
    BY DEF Holds
  <1>2. Spliced(cells, 0, data) \in Seq(Int) /\ Len(Spliced(cells, 0, data)) = n
    BY <1>1, SplicedCells
  <1>3. \A i \in 1..n : Spliced(cells, 0, data)[i] = data[i]
    <2> TAKE i \in 1..n
    <2>1. i > 0 /\ i <= 0 + Len(data) /\ i - 0 = i
      OBVIOUS
    <2> QED BY <1>1, <2>1, SplicedCells
  <1> QED BY <1>1, <1>2, <1>3, SeqEqual

\* What a call writes is as long as the item; if that takes one request, it is
\* written at once.
LEMMA DataTyped ==
  ASSUME NEW c, Ready(c), At(c).do \in {"write", "writeAll", "writeBack"}
  PROVE  /\ DataOf(c) \in Seq(Int) /\ Wrote(c) \in Seq(Int) /\ At(c).item \in Items
         /\ At(c).item # "addrMgr" => /\ Len(DataOf(c)) = SizeOf(At(c).item) /\ Wrote(c) = DataOf(c)
                                      /\ call[c].off = 0 /\ call[c].done = 0
  <1> DEFINE k == call[c]
             st == At(c)
  <1>1. /\ StageTyped(st) /\ AtOnce(k) /\ Going(k) = st /\ k.buf \in Seq(Int) /\ k.done \in Nat
    BY ReadyParts DEF FieldsTyped
  <1>2. st.item \in Items
    BY <1>1, ItemsThere DEF StageTyped
  <1>3. ASSUME st.do \in {"write", "writeAll"}
        PROVE  DataOf(c) \in Seq(Int) /\ (st.item # "addrMgr" => Len(DataOf(c)) = SizeOf(st.item))
    <2>1. DataOf(c) = st.data /\ st.item # "addrMgr" /\ st.data \in Seq(Int) /\ Len(st.data) = SizeOf(st.item)
      BY <1>1, <1>3 DEF DataOf, StageTyped
    <2> QED BY <2>1
  <1>4. ASSUME st.do = "writeBack" /\ st.item = "nib"
        PROVE  DataOf(c) \in Seq(Int) /\ (st.item # "addrMgr" => Len(DataOf(c)) = SizeOf(st.item))
    <2>1. DataOf(c) = [k.buf EXCEPT ![ChannelAt] = st.data[1]] /\ st.data[1] \in Int /\ Len(k.buf) = NibSize
      BY <1>1, <1>4 DEF DataOf, StageTyped, Patched, AtOnce, Transfers
    <2>2. ChannelAt \in 1..Len(k.buf)
      BY <2>1, SizesAreSane
    <2>3. DataOf(c) \in Seq(Int) /\ Len(DataOf(c)) = NibSize
      BY <1>1, <2>1, <2>2, ExceptSeq
    <2> QED BY <1>4, <2>3, ItemsThere
  <1>5. ASSUME st.do = "writeBack" /\ st.item = "addrMgr"
        PROVE  DataOf(c) \in Seq(Int) /\ (st.item # "addrMgr" => Len(DataOf(c)) = SizeOf(st.item))
    <2>1. DataOf(c) = Without(k.buf, st.data[1])
      BY <1>5 DEF DataOf, Patched
    <2>2. \A i \in 1..Len(k.buf) : k.buf[i] \in Int
      BY <1>1, ElementOfSeq
    <2>3. Len(k.buf) \in Nat
      BY <1>1, LenProperties
    <2>4. DataOf(c) \in Seq(Int)
      BY <2>1, <2>2, <2>3 DEF Without, Emptied, FF
    <2> QED BY <1>5, <2>4
  <1>6. DataOf(c) \in Seq(Int) /\ (st.item # "addrMgr" => Len(DataOf(c)) = SizeOf(st.item))
    BY <1>1, <1>3, <1>4, <1>5, ItemsThere DEF StageTyped
  <1>7. Wrote(c) \in Seq(Int)
    BY <1>1, <1>6, PartOf DEF Wrote
  <1>8. ASSUME st.item # "addrMgr"
        PROVE  k.off = 0 /\ k.done = 0 /\ Wrote(c) = DataOf(c)
    <2>1. k.off = 0 /\ k.done = 0
      BY <1>1, <1>8 DEF AtOnce, Transfers
    <2>2. SizeOf(st.item) \in 1..Chunk /\ SizeOf(st.item) \in Nat
      BY <1>2, <1>8, ItemsThere
    <2>3. Lesser(0 + Chunk, Len(DataOf(c))) = Len(DataOf(c)) /\ Wrote(c) = SubSeq(DataOf(c), 0 + 1, Len(DataOf(c)))
      BY <1>6, <1>8, <2>1, <2>2, SizesAreSane DEF Wrote, Lesser
    <2>4. SubSeq(DataOf(c), 1, Len(DataOf(c))) = DataOf(c)
      BY <1>6, SubSeqFull
    <2> QED BY <2>1, <2>3, <2>4
  <1> QED BY <1>2, <1>6, <1>7, <1>8

\* A chunk keeps the size of the item.
LEMMA PutTyped ==
  ASSUME NEW c, Ready(c), At(c).do \in {"write", "writeAll", "writeBack"}, Holds(mem[At(c).item], call[c].off, Wrote(c))
  PROVE  /\ MemTyped(Put(c)) /\ Len(Put(c).addrMgr) = Len(mem.addrMgr)
         /\ At(c).item # "addrMgr" => Len(mem[At(c).item]) = SizeOf(At(c).item) /\ Put(c) = [mem EXCEPT ![At(c).item] = DataOf(c)]
  <1> DEFINE it == At(c).item
             new == Spliced(mem[it], call[c].off, Wrote(c))
  <1>1. Wrote(c) \in Seq(Int) /\ it \in Items
    BY DataTyped
  <1>2. MemTyped(mem) /\ mem[it] \in Seq(Int) /\ call[c].off \in Nat /\ DOMAIN mem = Items
    BY <1>1, ReadyParts DEF MemTyped, FieldsTyped
  <1>3. new \in Seq(Int) /\ Len(new) = Len(mem[it])
    BY <1>1, <1>2, SplicedCells
  <1> HIDE DEF new
  <1>4. Put(c) = [mem EXCEPT ![it] = new]
    BY DEF Put, new
  <1>5. MemTyped(Put(c)) /\ Len(Put(c).addrMgr) = Len(mem.addrMgr)
    BY <1>1, <1>2, <1>3, <1>4, ItemsThere DEF MemTyped
  <1>6. ASSUME it # "addrMgr"
        PROVE  Len(mem[it]) = SizeOf(it) /\ new = DataOf(c)
    <2>1. /\ DataOf(c) \in Seq(Int) /\ Len(DataOf(c)) = SizeOf(it) /\ Wrote(c) = DataOf(c) /\ call[c].off = 0
          /\ SizeOf(it) \in Nat /\ SizeOf(it) > 0 /\ Len(mem[it]) \in {0, SizeOf(it)}
      BY <1>1, <1>2, <1>6, DataTyped, ItemsThere DEF MemTyped
    <2>2. Holds(mem[it], 0, DataOf(c))
      BY <2>1
    <2> HIDE DEF it
    <2> QED BY <1>2, <2>1, <2>2, SplicedWhole DEF new
  <1> QED BY <1>4, <1>5, <1>6

\* A chunk that is written, or refused.
LEMMA WriteChunkTyped ==
  ASSUME NEW c, Ready(c), Typed, WriteChunk(c)
  PROVE  Result(c)
  <1> DEFINE k == call[c]
             next == [k EXCEPT !.done = @ + Len(Wrote(c)), !.off = NextOffset(@, Len(Wrote(c))), !.out.found = At(c).item = "addrMgr"]
  <1>1. At(c).do \in {"write", "writeAll", "writeBack"} /\ table' = table /\ mask' = mask /\ pc[c] = "run"
    BY DEF WriteChunk, Asks
  <1>2. \/ /\ Holds(mem[At(c).item], k.off, Wrote(c)) /\ mem' = Put(c)
           /\ \/ Answered(c, next, 1)
              \/ next.done < Len(DataOf(c)) /\ Continue(c, next)
              \/ Miss(c)
        \/ Miss(c) /\ mem' = mem
    BY DEF WriteChunk, Wrote, Put
  <1>3. /\ SameStage(next, k) /\ next.buf = k.buf /\ next.total = k.total /\ DOMAIN next.out = DOMAIN k.out
        /\ next.out.ieee = k.out.ieee /\ next.out.key = k.out.key
        /\ next.done = k.done + Len(Wrote(c)) /\ next.off = NextOffset(k.off, Len(Wrote(c)))
    BY ReadyParts DEF SameStage, Fields, Outs
  <1> HIDE DEF next
  <1>4. MemTyped(mem')
    BY <1>1, <1>2, PutTyped, ReadyParts
  <1>5. k.off \in Nat /\ k.done \in Nat /\ Len(Wrote(c)) \in Nat
    BY <1>1, DataTyped, ReadyParts, LenProperties DEF FieldsTyped
  <1>6. next.off \in Nat /\ next.done \in Nat
    BY <1>3, <1>5, SizesAreSane DEF NextOffset
  <1>7. FieldsTyped(next)
    BY <1>3, <1>6, ReadyParts DEF FieldsTyped, SameStage, FileTyped
  <1>8. CASE Answered(c, next, 1)
    BY <1>1, <1>3, <1>4, <1>7, <1>8, AnsweredSettles DEF Result, Typed
  <1>9. CASE next.done < Len(DataOf(c)) /\ Continue(c, next)
    <2>1. At(c).item = "addrMgr"
      <3>1. At(c).item # "addrMgr" => k.done = 0 /\ Wrote(c) = DataOf(c)
        BY <1>1, DataTyped
      <3> QED BY <1>3, <1>5, <1>9, <3>1
    <2>2. Going(next) = At(c) /\ Going(k) = At(c)
      BY <1>3 DEF SameStage, Going, At
    <2>3. CallTyped(next, pc[c])
      BY <1>1, <1>7, <2>1, <2>2, ReadyParts DEF CallTyped, AtOnce
    <2> QED BY <1>1, <1>4, <1>9, <2>3, ContinueSettles DEF Result, Typed
  <1>10. CASE Miss(c)
    BY <1>1, <1>4, <1>10, MissSettles DEF Result, Typed
  <1> QED BY <1>2, <1>8, <1>9, <1>10

\* An item that takes one request is written, or the request failed.
LEMMA WritesAtOnce ==
  ASSUME NEW c, Ready(c), WriteChunk(c), At(c).item # "addrMgr"
  PROVE  /\ table' = table /\ mask' = mask /\ forming' = forming
         /\ \/ Len(mem[At(c).item]) = SizeOf(At(c).item) /\ mem' = [mem EXCEPT ![At(c).item] = DataOf(c)] /\ Serves(c)
            \/ mem' = mem /\ Lost(c)
  <1> DEFINE k == call[c]
             next == [k EXCEPT !.done = @ + Len(Wrote(c)), !.off = NextOffset(@, Len(Wrote(c))), !.out.found = At(c).item = "addrMgr"]
  <1>1. At(c).do \in {"write", "writeAll", "writeBack"} /\ table' = table /\ mask' = mask /\ forming' = forming
    BY DEF WriteChunk, Asks
  <1>2. \/ /\ Holds(mem[At(c).item], k.off, Wrote(c)) /\ mem' = Put(c)
           /\ \/ Answered(c, next, 1)
              \/ next.done < Len(DataOf(c)) /\ Continue(c, next)
              \/ Miss(c)
        \/ Miss(c) /\ mem' = mem
    BY DEF WriteChunk, Wrote, Put
  <1>3. /\ SameStage(next, k) /\ next.buf = k.buf /\ next.total = k.total /\ DOMAIN next.out = DOMAIN k.out
        /\ next.out.ieee = k.out.ieee /\ next.out.key = k.out.key
        /\ next.done = k.done + Len(Wrote(c)) /\ next.off = NextOffset(k.off, Len(Wrote(c)))
    BY ReadyParts DEF SameStage, Fields, Outs
  <1> HIDE DEF next
  <1>4. k.done = 0 /\ k.off = 0 /\ Wrote(c) = DataOf(c) /\ Len(DataOf(c)) \in Nat
    BY <1>1, DataTyped, LenProperties
  <1>5. next.done = Len(DataOf(c)) /\ next.off \in Nat /\ next.done \in Nat
    BY <1>3, <1>4, SizesAreSane DEF NextOffset
  <1>6. FieldsTyped(next)
    BY <1>3, <1>5, ReadyParts DEF FieldsTyped, SameStage, FileTyped
  <1>7. Answered(c, next, 1) => Serves(c)
    BY <1>1, <1>3, <1>6, AnsweredSettles, AnswersServes DEF SameStage
  <1>8. Miss(c) => Lost(c) /\ Serves(c)
    BY <1>1, MissSettles, AnswersServes DEF Serves
  <1>9. ~(next.done < Len(DataOf(c)))
    BY <1>4, <1>5
  <1> QED BY <1>1, <1>2, <1>7, <1>8, <1>9, PutTyped

-----------------------------------------------------------------------------
(***************************************************************************)
(* What a call reads                                                       *)
(***************************************************************************)
\* The stage after the one a call is at, how many stages it goes on, and what it
\* tells its caller, once an item was read whole.
After(k) == IF k.at < Len(k.plan) THEN k.plan[k.at + 1] ELSE Reset
Skip(k) == IF After(k).do = "writeBack" /\ ~Needed(After(k), k.buf) THEN 2 ELSE 1
Told(k, item) ==
  [k EXCEPT !.out = CASE item = "nib" -> [k.out EXCEPT !.nib = k.buf]
                      [] item = "key" -> [k.out EXCEPT !.key = k.buf]
                      [] OTHER -> [k.out EXCEPT !.devs = Parsed(k.buf)]]
SameFields(l, k) == l.op = k.op /\ l.plan = k.plan /\ l.at = k.at /\ l.out = k.out

\* What is told keeps the types of the call.
LEMMA ToldTyped ==
  ASSUME NEW k, FieldsTyped(k), NEW item, item = "key" => Len(k.buf) \in {0, 2}
  PROVE  /\ FieldsTyped(Told(k, item)) /\ Told(k, item).op = k.op /\ Told(k, item).plan = k.plan /\ Told(k, item).at = k.at
         /\ Told(k, item).buf = k.buf
         /\ item = "nib" => Told(k, item).out = [k.out EXCEPT !.nib = k.buf]
         /\ item = "key" => Told(k, item).out = [k.out EXCEPT !.key = k.buf]
         /\ item = "addrMgr" => Told(k, item).out = [k.out EXCEPT !.devs = Parsed(k.buf)]
  <1> DEFINE out == CASE item = "nib" -> [k.out EXCEPT !.nib = k.buf]
                      [] item = "key" -> [k.out EXCEPT !.key = k.buf]
                      [] OTHER -> [k.out EXCEPT !.devs = Parsed(k.buf)]
  <1>1. DOMAIN k = Fields /\ DOMAIN k.out = Outs /\ FileTyped(k.out) /\ k.buf \in Seq(Int)
    BY DEF FieldsTyped
  <1>2. CASE item = "nib"
    <2>1. out = [k.out EXCEPT !.nib = k.buf]
      BY <1>2
    <2>2. DOMAIN out = Outs /\ FileTyped(out)
      BY <1>1, <2>1 DEF Outs, FileTyped
    <2> HIDE DEF out
    <2> QED BY <1>1, <1>2, <2>1, <2>2 DEF Told, out, FieldsTyped, Fields
  <1>3. CASE item = "key"
    <2>1. out = [k.out EXCEPT !.key = k.buf]
      BY <1>3
    <2>2. DOMAIN out = Outs /\ FileTyped(out)
      BY <1>1, <1>3, <2>1 DEF Outs, FileTyped
    <2> HIDE DEF out
    <2> QED BY <1>1, <1>3, <2>1, <2>2 DEF Told, out, FieldsTyped, Fields
  <1>4. CASE item \notin {"nib", "key"}
    <2>1. out = [k.out EXCEPT !.devs = Parsed(k.buf)]
      BY <1>4
    <2>2. DOMAIN out = Outs /\ FileTyped(out)
      BY <1>1, <2>1 DEF Outs, FileTyped
    <2> HIDE DEF out
    <2> QED BY <1>1, <1>4, <2>1, <2>2 DEF Told, out, FieldsTyped, Fields
  <1> QED BY <1>2, <1>3, <1>4

\* An item was read whole.
LEMMA WholeSettles ==
  ASSUME NEW c, Ready(c), At(c).do = "readAll", NEW k, FieldsTyped(k), SameStage(k, call[c]), Whole(c, k),
         At(c).item = "key" => Len(k.buf) \in {0, 2}, At(c).item = "nib" => Len(k.buf) \in {0, NibSize}
  PROVE  Settled(c) /\ Gets(c, Told(k, At(c).item), Skip(k))
  <1> DEFINE l == Told(k, At(c).item)
             n == Skip(k)
  <1>1. FieldsTyped(l) /\ l.op = k.op /\ l.plan = k.plan /\ l.at = k.at /\ l.buf = k.buf
    BY ToldTyped
  <1>2. Proceed(c, l, n)
    BY DEF Whole, Told, Skip, After
  <1>3. n \in {1, 2} /\ k.at \in 1..Len(k.plan) /\ k.at \in Nat /\ Len(k.plan) \in Nat /\ k.plan[k.at] = At(c)
        /\ \A i \in 1..Len(k.plan) : Follows(k.plan, i) /\ StageTyped(k.plan[i])
    BY DEF Skip, FieldsTyped, PlanTyped, SameStage, At
  <1>4. ASSUME k.at + n <= Len(k.plan), k.plan[k.at + n].do = "writeBack", k.plan[k.at + n].item = "nib"
        PROVE  Len(k.buf) = NibSize
    <2>1. n = 1
      <3>1. n = 2 => k.plan[k.at + 2].do # "writeBack"
        BY <1>3, <1>4, StageAfter
      <3> QED BY <1>3, <1>4, <3>1
    <2>2. After(k) = k.plan[k.at + 1] /\ k.at + 1 \in 1..Len(k.plan) /\ (k.at + 1) - 1 = k.at
      BY <1>3, <1>4, <2>1 DEF After
    <2>3. Needed(After(k), k.buf)
      BY <1>4, <2>1, <2>2 DEF Skip
    <2>4. At(c).item = "nib"
      BY <1>3, <1>4, <2>1, <2>2 DEF Follows
    <2>5. Len(k.buf) >= ChannelAt
      BY <1>4, <2>1, <2>2, <2>3 DEF Needed
    <2> QED BY <2>4, <2>5, SizesAreSane
  <1> HIDE DEF l, n
  <1>5. Settled(c) /\ Gets(c, l, n)
    BY <1>1, <1>2, <1>3, <1>4, ProceedSettles
  <1> QED BY <1>5 DEF l, n

\* An item that takes one request is read in one piece.
LEMMA PieceWhole ==
  ASSUME NEW cells \in Seq(Int), Len(cells) <= Chunk
  PROVE  Piece(cells, 0) = cells
  <1>1. Lesser(0 + Chunk, Len(cells)) = Len(cells)
    BY SizesAreSane, LenProperties DEF Lesser
  <1> QED BY <1>1, SubSeqFull DEF Piece

\* What was read so far are cells.
LEMMA BufTyped ==
  ASSUME NEW buf \in Seq(Int), NEW chunk \in Seq(Int), NEW n \in Nat
  PROVE  SubSeq(buf \o chunk, 1, Lesser(Len(buf \o chunk), n)) \in Seq(Int)
  <1> DEFINE w == buf \o chunk
             last == Lesser(Len(w), n)
  <1>1. w \in Seq(Int)
    BY ConcatProperties
  <1>2. Len(w) \in Nat /\ last \in Nat /\ last <= Len(w)
    BY <1>1, LenProperties DEF Lesser
  <1> HIDE DEF w, last
  <1>3. \A i \in 1..last : w[i] \in Int
    BY <1>1, <1>2, ElementOfSeq
  <1>4. SubSeq(w, 1, last) \in Seq(Int)
    BY <1>2, <1>3, SubSeqProperties
  <1> QED BY <1>4 DEF w, last

\* What a request for a part of an item leaves: the call stays where it is, or
\* has read the item, whatever it takes.
Stays(c) == pc'[c] = pc[c] /\ SameFields(call'[c], call[c])
HasRead(c) ==
  \E k : /\ SameFields(k, call[c]) /\ k.buf = mem[At(c).item] /\ Settled(c)
         /\ Told(k, At(c).item).out = (IF At(c).item = "nib" THEN [k.out EXCEPT !.nib = k.buf] ELSE [k.out EXCEPT !.key = k.buf])
         /\ Told(k, At(c).item).op = k.op /\ Told(k, At(c).item).plan = k.plan /\ Told(k, At(c).item).at = k.at
         /\ Told(k, At(c).item).buf = k.buf
         /\ Gets(c, Told(k, At(c).item), Skip(k))

\* An item that takes one request was read.
LEMMA WholeItem ==
  ASSUME NEW c, Ready(c), At(c).do = "readAll", At(c).item # "addrMgr", NEW k, FieldsTyped(k), SameStage(k, call[c]), Whole(c, k),
         k.buf = mem[At(c).item], k.out = call[c].out
  PROVE  HasRead(c)
  <1>1. At(c).item \in {"nib", "key"}
    BY ReadyParts DEF StageTyped
  <1>2. Len(k.buf) \in {0, SizeOf(At(c).item)}
    BY <1>1, ReadyParts, ItemsThere DEF MemTyped
  <1>3. Settled(c) /\ Gets(c, Told(k, At(c).item), Skip(k))
    BY <1>1, <1>2, WholeSettles, ItemsThere
  <1>4. /\ Told(k, At(c).item).out = (IF At(c).item = "nib" THEN [k.out EXCEPT !.nib = k.buf] ELSE [k.out EXCEPT !.key = k.buf])
        /\ Told(k, At(c).item).op = k.op /\ Told(k, At(c).item).plan = k.plan /\ Told(k, At(c).item).at = k.at
        /\ Told(k, At(c).item).buf = k.buf
    <2>1. At(c).item = "key" => Len(k.buf) \in {0, 2}
      BY <1>2, ItemsThere
    <2> QED BY <1>1, <2>1, ToldTyped
  <1>5. SameFields(k, call[c])
    BY DEF SameStage, SameFields
  <1> QED BY <1>3, <1>4, <1>5 DEF HasRead

\* An item that takes one request: its length, and its cells.
LEMMA ReadsAtOnce ==
  ASSUME NEW c, Ready(c), ReadLength(c) \/ ReadChunk(c), At(c).item # "addrMgr"
  PROVE  Settled(c) /\ (Stays(c) \/ HasRead(c))
  <1> DEFINE k == call[c]
             cells == mem[At(c).item]
             size == SizeOf(At(c).item)
  <1>1. At(c).do = "readAll" /\ pc[c] = "run"
    BY DEF ReadLength, ReadChunk, Asks
  <1>2. At(c).item \in {"nib", "key"} /\ k.off = 0 /\ k.done = 0 /\ (k.total # Unknown => k.buf = <<>> /\ k.total = size)
    BY <1>1, ReadyParts DEF StageTyped, AtOnce, Transfers
  <1>3. cells \in Seq(Int) /\ Len(cells) \in {0, size} /\ size \in Nat /\ size > 0 /\ size <= Chunk /\ Len(cells) \in Nat
    BY <1>2, ReadyParts, ItemsThere DEF MemTyped
  <1>4. CASE ReadLength(c)
    <2> DEFINE l == [k EXCEPT !.buf = <<>>, !.total = Len(cells)]
    <2>1. IF Len(cells) = 0 THEN Whole(c, l) ELSE Continue(c, l)
      BY <1>4 DEF ReadLength
    <2>2. /\ l.buf = <<>> /\ l.total = Len(cells) /\ l.out = k.out /\ SameStage(l, k) /\ l.off = 0 /\ l.done = 0 /\ DOMAIN l = Fields
      BY <1>2, ReadyParts DEF SameStage, Fields
    <2> HIDE DEF l
    <2>3. FieldsTyped(l)
      BY <1>3, <2>2, ReadyParts DEF FieldsTyped, SameStage
    <2>4. CASE Len(cells) = 0
      <3>1. l.buf = cells
        BY <1>3, <2>2, <2>4, EmptySeq
      <3>2. HasRead(c)
        BY <1>1, <2>1, <2>2, <2>3, <2>4, <3>1, WholeItem
      <3> QED BY <3>2 DEF HasRead
    <2>5. CASE Len(cells) # 0
      <3>1. Going(l) = At(c) /\ Going(k) = At(c)
        BY <2>2 DEF SameStage, Going, At
      <3>2. CallTyped(l, pc[c])
        BY <1>1, <1>3, <2>2, <2>3, <2>5, <3>1, ReadyParts DEF CallTyped, AtOnce
      <3>3. Settled(c) /\ pc'[c] = pc[c] /\ call'[c] = l
        BY <2>1, <2>5, <3>2, ContinueSettles
      <3> QED BY <2>2, <3>3 DEF Stays, SameFields, SameStage
    <2> QED BY <2>4, <2>5
  <1>5. CASE ReadChunk(c)
    <2> DEFINE chunk == Piece(cells, k.off)
               buf == k.buf \o chunk
               l == [k EXCEPT !.buf = SubSeq(buf, 1, Lesser(Len(buf), k.total)), !.done = @ + Len(chunk), !.off = NextOffset(@, Len(chunk))]
    <2>1. k.total # Unknown /\ (IF l.done >= k.total THEN Whole(c, l) ELSE Continue(c, l))
      BY <1>5 DEF ReadChunk
    <2>2. k.buf = <<>> /\ k.total = size
      BY <1>2, <2>1
    <2>3. chunk = cells
      <3>1. Len(cells) <= Chunk
        BY <1>3, SizesAreSane
      <3>2. Piece(cells, 0) = cells
        BY <1>3, <3>1, PieceWhole
      <3> QED BY <1>2, <3>2
    <2>4. buf = cells
      <3>1. <<>> \o cells = cells
        BY <1>3, ConcatEmptySeq
      <3> QED BY <2>2, <2>3, <3>1
    <2>5. SubSeq(buf, 1, Lesser(Len(buf), k.total)) = cells
      <3>1. Lesser(Len(cells), size) = Len(cells)
        BY <1>3 DEF Lesser
      <3>2. SubSeq(cells, 1, Len(cells)) = cells
        BY <1>3, SubSeqFull
      <3> HIDE DEF buf
      <3> QED BY <2>2, <2>4, <3>1, <3>2
    <2>6. /\ l.buf = cells /\ l.done = Len(cells) /\ l.off = (0 + Len(cells)) % OffsetMod /\ l.total = k.total /\ l.out = k.out
          /\ SameStage(l, k) /\ DOMAIN l = Fields
      <3>1. /\ l.buf = SubSeq(buf, 1, Lesser(Len(buf), k.total)) /\ l.done = k.done + Len(chunk) /\ l.off = NextOffset(k.off, Len(chunk))
            /\ l.total = k.total /\ l.out = k.out /\ SameStage(l, k) /\ DOMAIN l = Fields
        BY ReadyParts DEF SameStage, Fields
      <3> HIDE DEF l, buf, chunk
      <3> QED BY <1>2, <1>3, <2>3, <2>5, <3>1 DEF NextOffset
    <2> HIDE DEF l, buf, chunk
    <2>7. FieldsTyped(l)
      <3>1. l.off \in Nat
        <4>1. 0 + Len(cells) \in Nat
          BY <1>3
        <4> QED BY <2>6, <4>1, ModIsLess
      <3> QED BY <1>3, <2>6, <3>1, ReadyParts DEF FieldsTyped, SameStage
    <2>8. CASE Len(cells) = size
      <3>1. Whole(c, l)
        BY <1>3, <2>1, <2>2, <2>6, <2>8
      <3>2. HasRead(c)
        BY <1>1, <2>6, <2>7, <3>1, WholeItem
      <3> QED BY <3>2 DEF HasRead
    <2>9. CASE Len(cells) = 0
      <3>1. Continue(c, l)
        BY <1>3, <2>1, <2>2, <2>6, <2>9
      <3>2. Going(l) = At(c) /\ Going(k) = At(c)
        BY <2>6 DEF SameStage, Going, At
      <3>3. l.buf = <<>> /\ l.off = 0 /\ l.done = 0
        <4>1. cells = <<>>
          BY <1>3, <2>9, EmptySeq
        <4>2. (0 + 0) % OffsetMod = 0
          BY SizesAreSane
        <4> QED BY <2>6, <2>9, <4>1, <4>2
      <3>4. CallTyped(l, pc[c])
        BY <1>1, <2>2, <2>6, <2>7, <3>2, <3>3, ReadyParts DEF CallTyped, AtOnce
      <3>5. Settled(c) /\ pc'[c] = pc[c] /\ call'[c] = l
        BY <3>1, <3>4, ContinueSettles
      <3> QED BY <2>6, <3>5 DEF Stays, SameFields, SameStage
    <2> QED BY <1>3, <2>8, <2>9
  <1> QED BY <1>4, <1>5

\* The table of devices is read chunk after chunk.
LEMMA ReadsDevices ==
  ASSUME NEW c, Ready(c), ReadLength(c) \/ ReadChunk(c), At(c).item = "addrMgr"
  PROVE  Settled(c)
  <1> DEFINE k == call[c]
             cells == mem[At(c).item]
  <1>1. At(c).do = "readAll" /\ pc[c] = "run"
    BY DEF ReadLength, ReadChunk, Asks
  <1>2. cells \in Seq(Int) /\ Len(cells) \in Nat /\ k.off \in Nat /\ k.done \in Nat /\ k.buf \in Seq(Int)
    BY ReadyParts, ItemsThere, LenProperties DEF MemTyped, FieldsTyped
  <1>3. ASSUME NEW l, FieldsTyped(l), SameStage(l, k), Whole(c, l) \/ Continue(c, l)
        PROVE  Settled(c)
    <2>1. CASE Whole(c, l)
      BY <1>1, <1>3, <2>1, WholeSettles
    <2>2. CASE Continue(c, l)
      <3>1. Going(l) = At(c) /\ Going(k) = At(c)
        BY <1>3 DEF SameStage, Going, At
      <3>2. CallTyped(l, pc[c])
        BY <1>3, <3>1, ReadyParts DEF CallTyped, AtOnce
      <3> QED BY <2>2, <3>2, ContinueSettles
    <2> QED BY <1>3, <2>1, <2>2
  <1>4. CASE ReadLength(c)
    <2> DEFINE l == [k EXCEPT !.buf = <<>>, !.total = Len(cells)]
    <2>1. Whole(c, l) \/ Continue(c, l)
      BY <1>4 DEF ReadLength
    <2>2. FieldsTyped(l) /\ SameStage(l, k)
      BY <1>2, ReadyParts DEF FieldsTyped, SameStage, Fields
    <2> HIDE DEF l
    <2> QED BY <1>3, <2>1, <2>2
  <1>5. CASE ReadChunk(c)
    <2> DEFINE chunk == Piece(cells, k.off)
               buf == k.buf \o chunk
               more == SubSeq(buf, 1, Lesser(Len(buf), k.total))
               l == [k EXCEPT !.buf = more, !.done = @ + Len(chunk), !.off = NextOffset(@, Len(chunk))]
    <2>1. Whole(c, l) \/ Continue(c, l)
      BY <1>5 DEF ReadChunk
    <2>2. k.total \in Nat
      BY <1>5, ReadyParts DEF ReadChunk, FieldsTyped
    <2>3. chunk \in Seq(Int) /\ Len(chunk) \in Nat
      BY <1>2, PartOf, LenProperties DEF Piece
    <2> HIDE DEF chunk
    <2>4. more \in Seq(Int)
      BY <1>2, <2>2, <2>3, BufTyped
    <2>5. k.done + Len(chunk) \in Nat /\ NextOffset(k.off, Len(chunk)) \in Nat
      BY <1>2, <2>3, SizesAreSane DEF NextOffset
    <2> HIDE DEF more, buf
    <2>6. FieldsTyped(l) /\ SameStage(l, k)
      BY <2>4, <2>5, ReadyParts DEF FieldsTyped, SameStage, Fields
    <2> HIDE DEF l
    <2> QED BY <1>3, <2>1, <2>6
  <1> QED BY <1>4, <1>5

-----------------------------------------------------------------------------
(***************************************************************************)
(* The other requests, and the restart                                     *)
(***************************************************************************)
\* What the order to clear it makes of the memory.
ClearedCells(n) == [i \in 1..n |-> IF i % 2 = 1 THEN Emptied[1] ELSE Emptied[2]]

\* A restart with that order leaves no devices and no network.
LEMMA ClearedMemory ==
  ASSUME NEW m, MemTyped(m), Len(m.startup) = 1
  PROVE  /\ MemTyped(Cleared(m)) /\ DOMAIN Cleared(m) = Items
         /\ Cleared(m).startup = <<0>> /\ Cleared(m).addrMgr = ClearedCells(Len(m.addrMgr))
         /\ NoNetwork(Cleared(m)) /\ Parsed(Cleared(m).addrMgr) = {}
         /\ \A i \in {"type", "profile", "zdoCb", "altKey", "extAddr", "power"} : Cleared(m)[i] = m[i]
  <1> DEFINE cells == ClearedCells(Len(m.addrMgr))
             w == Cleared(m)
  <1>1. DOMAIN m = Items /\ \A i \in Items : m[i] \in Seq(Int) /\ Len(m[i]) \in Nat
    BY LenProperties DEF MemTyped
  <1>2. /\ Zeros(Len(m.nib)) \in Seq(Int) /\ Len(Zeros(Len(m.nib))) = Len(m.nib)
        /\ Zeros(Len(m.key)) \in Seq(Int) /\ Len(Zeros(Len(m.key))) = Len(m.key)
    BY <1>1, ItemsThere DEF Zeros
  <1>3. cells \in Seq(Int) /\ Len(cells) = Len(m.addrMgr)
    <2>1. Len(m.addrMgr) \in Nat
      BY <1>1, ItemsThere
    <2> HIDE DEF w
    <2> QED BY <2>1 DEF ClearedCells, Emptied, FF
  <1>4. w = [m EXCEPT !.startup = <<0>>, !.nib = Zeros(Len(@)), !.key = Zeros(Len(@)), !.addrMgr = ClearedCells(Len(@))]
    BY DEF Cleared, ClearedCells
  <1> HIDE DEF cells
  <1>5. /\ DOMAIN w = Items /\ w.startup = <<0>> /\ w.nib = Zeros(Len(m.nib)) /\ w.key = Zeros(Len(m.key)) /\ w.addrMgr = cells
        /\ \A i \in {"type", "profile", "zdoCb", "altKey", "extAddr", "power"} : w[i] = m[i]
    BY <1>1, <1>4 DEF Items, cells
  <1> HIDE DEF w
  <1>6. <<0>> \in Seq(Int) /\ Len(<<0>>) = 1
    OBVIOUS
  <1>7. MemTyped(w)
    <2>1. \A i \in Items : w[i] \in Seq(Int) /\ Len(w[i]) = Len(m[i])
      BY <1>1, <1>2, <1>3, <1>5, <1>6, ItemsThere
    <2>2. w \in [Items -> Seq(Int)]
      <3>1. w = [i \in Items |-> w[i]]
        BY <1>4, <1>5, <1>1 DEF w
      <3> QED BY <2>1, <3>1
    <2> QED BY <2>1, <2>2 DEF MemTyped
  <1>8. NoNetwork(w)
    <2>1. Len(m.nib) \in {0, NibSize} /\ m.nib \in Seq(Int)
      BY <1>1, ItemsThere DEF MemTyped
    <2>2. CASE Len(m.nib) = 0
      BY <1>2, <1>5, <2>2, EmptySeq DEF NoNetwork
    <2>3. CASE Len(m.nib) = NibSize
      BY <1>5, <2>3, SizesAreSane DEF NoNetwork, Zeros
    <2> QED BY <2>1, <2>2, <2>3
  <1>9. Parsed(cells) = {}
    <2> SUFFICES ASSUME NEW k \in 1..Count(cells) PROVE IsEmpty(Entry(cells, k))
      BY DEF Parsed
    <2> DEFINE n == Len(cells)
    <2>1. n \in Nat /\ k \in 1..(n \div 2) /\ n = Len(m.addrMgr)
      BY <1>1, <1>3, ItemsThere DEF Count
    <2>2. 2 * k \in 1..n /\ 2 * k - 1 \in 1..n /\ k \in Nat
      <3> HIDE DEF n
      <3> QED BY <2>1, CellsOfEntry
    <2>3. (2 * k - 1) % 2 = 1 /\ (2 * k) % 2 # 1
      BY <2>2
    <2>4. cells[2 * k - 1] = Emptied[1] /\ cells[2 * k] = Emptied[2]
      BY <2>1, <2>2, <2>3 DEF cells, ClearedCells
    <2> QED BY <2>4 DEF IsEmpty, Entry, Emptied
  <1> QED BY <1>5, <1>7, <1>8, <1>9 DEF w, cells

\* A restart keeps the types.
LEMMA RestartsTyped ==
  ASSUME MemTyped(mem), table \in Seq(Seq(Int)), Restarts
  PROVE  MemTyped(mem') /\ table' \in Seq(Seq(Int)) /\ forming' = Nobody /\ mask' = mask
  <1>1. Emptied \in Seq(Int) /\ Len(table) \in Nat
    BY LenProperties DEF Emptied, FF
  <1>2. [i \in 1..Len(table) |-> Emptied] \in Seq(Seq(Int))
    BY <1>1
  <1>3. mem.startup = <<3>> => Len(mem.startup) = 1
    OBVIOUS
  <1> QED BY <1>2, <1>3, ClearedMemory DEF Restarts

\* Another channel keeps the types.
LEMMA MovedTyped ==
  ASSUME NEW m, MemTyped(m), NEW ch \in Int
  PROVE  MemTyped(Moved(m, ch))
  <1> DEFINE nib == [i \in 1..Len(m.nib) |-> IF i = ChannelAt THEN ch ELSE m.nib[i]]
  <1>1. m \in [Items -> Seq(Int)] /\ m.nib \in Seq(Int) /\ Len(m.nib) \in Nat
    BY LenProperties, ItemsThere DEF MemTyped
  <1>2. \A i \in 1..Len(m.nib) : m.nib[i] \in Int
    BY <1>1, ElementOfSeq
  <1>3. nib \in Seq(Int) /\ Len(nib) = Len(m.nib)
    BY <1>1, <1>2
  <1> HIDE DEF nib
  <1>4. Moved(m, ch) = [m EXCEPT !.nib = nib]
    BY DEF Moved, nib
  <1> QED BY <1>1, <1>3, <1>4, ItemsThere DEF MemTyped

\* A stage that changes the device and is answered, or not.
LEMMA ServesPlain ==
  ASSUME NEW c, Ready(c), At(c).do \notin {"readAll", "exRead", "exDelete"}, Answered(c, call[c], 1)
  PROVE  Settled(c) /\ Serves(c)
  <1>1. SameStage(call[c], call[c]) /\ FieldsTyped(call[c])
    BY ReadyParts DEF SameStage
  <1> QED BY <1>1, AnsweredSettles, AnswersServes

\* A request that is lost, after Close too.
LEMMA LostSettles ==
  ASSUME NEW c, Ready(c), LoseRequest(c) \/ Panic(c)
  PROVE  Settled(c) /\ device' = device /\ (Over(c) \/ Missed(c))
  <1>1. CASE LoseRequest(c)
    BY <1>1, MissSettles DEF LoseRequest, Reads
  <1>2. CASE Panic(c)
    <2>1. pc' = [pc EXCEPT ![c] = "panicked"] /\ call' = call /\ file' = file /\ device' = device
      BY <1>2 DEF Panic, Reads
    <2> QED BY <2>1, ReadyParts DEF Settled, Over, Active, Waits
  <1> QED BY <1>1, <1>2

\* The stages that change the device, but for what is written.
LEMMA ServesTyped ==
  ASSUME NEW c, Ready(c), InitItem(c) \/ SetChannel(c) \/ Commission(c) \/ ResetRequest(c) \/ NwkUpdate(c)
  PROVE  Result(c) /\ Serves(c)
  <1>1. At(c).do \in {"init", "primary", "secondary", "commission", "reset", "nwkUpdate"} /\ Answered(c, call[c], 1)
    BY DEF InitItem, SetChannel, Commission, ResetRequest, NwkUpdate, Asks
  <1>2. Settled(c) /\ Serves(c)
    BY <1>1, ServesPlain
  <1>3. StageTyped(At(c)) /\ MemTyped(mem) /\ table \in Seq(Seq(Int)) /\ mask \in Int
    BY ReadyParts DEF Ready, Typed
  <1>4. ASSUME InitItem(c)
        PROVE  MemTyped(mem') /\ table' = table /\ mask' = mask
    <2>1. At(c).item \in Items \ {"addrMgr"} /\ At(c).data \in Seq(Int) /\ Len(At(c).data) = SizeOf(At(c).item)
      BY <1>3, <1>4 DEF InitItem, Asks, StageTyped
    <2> QED BY <1>3, <1>4, <2>1 DEF InitItem, MemTyped
  <1>5. ASSUME SetChannel(c)
        PROVE  mem' = mem /\ table' = table /\ mask' \in Int
    BY <1>3, <1>5 DEF SetChannel, StageTyped
  <1>6. ASSUME Commission(c)
        PROVE  mem' = mem /\ table' = table /\ mask' = mask
    BY <1>6 DEF Commission
  <1>7. ASSUME ResetRequest(c)
        PROVE  MemTyped(mem') /\ table' \in Seq(Seq(Int)) /\ mask' = mask
    BY <1>3, <1>7, RestartsTyped DEF ResetRequest
  <1>8. ASSUME NwkUpdate(c)
        PROVE  MemTyped(mem') /\ table' = table /\ mask' = mask
    BY <1>3, <1>8, MovedTyped DEF NwkUpdate, Asks, StageTyped
  <1> QED BY <1>2, <1>3, <1>4, <1>5, <1>6, <1>7, <1>8 DEF Result

\* A value, and what the coordinator says of itself.
LEMMA ReadValueGets ==
  ASSUME NEW c, Ready(c), ReadValue(c)
  PROVE  /\ Settled(c) /\ device' = device
         /\ Missed(c) \/ (sound' = sound /\ Gets(c, [call[c] EXCEPT !.out.power = <<Signed(mem[At(c).item][1])>>], 1))
  <1> DEFINE cells == mem[At(c).item]
             part == Piece(cells, 0)
             k == [call[c] EXCEPT !.out.power = <<Signed(part[1])>>]
  <1>1. At(c).do = "read" /\ device' = device /\ (Miss(c) \/ (part # <<>> /\ Proceed(c, k, 1) /\ sound' = sound))
    BY DEF ReadValue, Asks, Reads
  <1>2. cells \in Seq(Int)
    BY <1>1, ReadyParts DEF StageTyped, MemTyped
  <1>3. SameStage(k, call[c]) /\ FieldsTyped(k)
    BY ReadyParts DEF SameStage, FieldsTyped, Fields, Outs, FileTyped
  <1>4. CASE Miss(c)
    BY <1>1, <1>4, MissSettles
  <1>5. CASE part # <<>> /\ Proceed(c, k, 1) /\ sound' = sound
    <2>1. part[1] = cells[1]
      <3>1. Len(cells) > 0
        <4>1. ASSUME Len(cells) = 0
              PROVE  part = <<>>
          <5>1. Len(cells) <= Chunk
            BY <4>1, SizesAreSane
          <5>2. Piece(cells, 0) = cells
            BY <1>2, <5>1, PieceWhole
          <5> QED BY <1>2, <4>1, <5>2, EmptySeq
        <4> QED BY <1>2, <1>5, <4>1, LenProperties
      <3>2. part = SubSeq(cells, 0 + 1, Lesser(0 + Chunk, Len(cells)))
        BY DEF Piece
      <3>3. part[1] = cells[0 + 1]
        <4>1. Len(part) > 0 /\ \A j \in 1..Len(part) : part[j] = cells[0 + j]
          BY <1>2, <3>1, <3>2, ChunkOf
        <4>2. Len(part) \in Nat
          BY <1>2, <3>2, PartOf, LenProperties
        <4> HIDE DEF part
        <4> QED BY <4>1, <4>2
      <3> HIDE DEF part
      <3> QED BY <3>3
    <2> HIDE DEF k
    <2>2. Settled(c) /\ Gets(c, k, 1)
      BY <1>1, <1>3, <1>5, ArriveSettles
    <2> QED BY <1>1, <1>5, <2>1, <2>2 DEF k
  <1> QED BY <1>1, <1>4, <1>5

\* What the coordinator says of itself.
LEMMA InfoGets ==
  ASSUME NEW c, Ready(c), Tune(c) \/ GetInfo(c)
  PROVE  /\ Settled(c) /\ device' = device /\ sound' = sound
         /\ Gets(c, IF At(c).do = "deviceInfo" THEN [call[c] EXCEPT !.out.ieee = mem.extAddr] ELSE call[c], 1)
  <1> DEFINE k == IF At(c).do = "deviceInfo" THEN [call[c] EXCEPT !.out.ieee = mem.extAddr] ELSE call[c]
  <1>1. At(c).do \in {"tune", "deviceInfo", "nwkInfo"} /\ device' = device /\ Proceed(c, k, 1) /\ sound' = sound
    BY DEF Tune, GetInfo, Asks, Reads
  <1>2. mem.extAddr \in Seq(Int) /\ Len(mem.extAddr) \in {0, 1}
    BY ReadyParts, ItemsThere DEF MemTyped
  <1>3. SameStage(k, call[c]) /\ FieldsTyped(k)
    <2>1. CASE At(c).do = "deviceInfo"
      BY <1>2, <2>1, ReadyParts DEF SameStage, FieldsTyped, Fields, Outs, FileTyped
    <2>2. CASE At(c).do # "deviceInfo"
      BY <2>2, ReadyParts DEF SameStage
    <2> QED BY <2>1, <2>2
  <1> HIDE DEF k
  <1>4. Settled(c) /\ Gets(c, k, 1)
    BY <1>1, <1>3, ArriveSettles
  <1> QED BY <1>1, <1>4 DEF k

\* An entry of the extended table: the call looks further, or it is through.
LEMMA ReadEntryGets ==
  ASSUME NEW c, Ready(c), ReadEntry(c)
  PROVE  LET k == call[c]
             i == k.off + 1
             there == i <= Len(table) /\ i <= MaxSubs
         IN  /\ Settled(c) /\ device' = device /\ sound' = sound
             /\ there => /\ pc'[c] = pc[c]
                         /\ call'[c] = [k EXCEPT !.off = i, !.out.devs = IF Good(table[i]) THEN @ \cup {table[i]} ELSE @]
             /\ ~there => Gets(c, k, IF k.out.devs = {} THEN 1 ELSE 2)
  <1> DEFINE k == call[c]
             i == k.off + 1
             there == i <= Len(table) /\ i <= MaxSubs
             l == [k EXCEPT !.off = i, !.out.devs = IF Good(table[i]) THEN @ \cup {table[i]} ELSE @]
             n == IF k.out.devs = {} THEN 1 ELSE 2
  <1>1. /\ At(c).do = "exRead" /\ device' = device /\ sound' = sound
        /\ there => Continue(c, l)
        /\ ~there => Proceed(c, k, n)
    BY DEF ReadEntry, Asks, Reads
  <1>2. k.off \in Nat /\ i \in Nat /\ FieldsTyped(k) /\ SameStage(k, k)
    BY ReadyParts DEF FieldsTyped, SameStage
  <1>3. CASE there
    <2>1. /\ SameStage(l, k) /\ l.off = i /\ l.done = k.done /\ l.total = k.total /\ l.buf = k.buf /\ DOMAIN l.out = DOMAIN k.out
          /\ l.out.ieee = k.out.ieee /\ l.out.key = k.out.key
      BY ReadyParts DEF SameStage, Fields, Outs
    <2> HIDE DEF l
    <2>2. FieldsTyped(l)
      BY <1>2, <2>1 DEF FieldsTyped, SameStage, FileTyped
    <2>3. Going(l) = At(c) /\ Going(k) = At(c)
      BY <2>1 DEF SameStage, Going, At
    <2>4. CallTyped(l, pc[c])
      BY <1>1, <2>2, <2>3, ReadyParts DEF CallTyped, AtOnce, Transfers
    <2>5. Settled(c) /\ pc'[c] = pc[c] /\ call'[c] = l
      BY <1>1, <1>3, <2>4, ContinueSettles
    <2> QED BY <1>1, <1>3, <2>5 DEF l
  <1>4. CASE ~there
    <2>1. n \in {1, 2}
      OBVIOUS
    <2>2. Settled(c) /\ Gets(c, k, n)
      BY <1>1, <1>2, <1>4, <2>1, ArriveSettles
    <2> QED BY <1>1, <1>4, <2>2
  <1> QED BY <1>3, <1>4

\* An entry of the extended table is emptied, the call looks further, or it is
\* through.
LEMMA DeleteEntryGets ==
  ASSUME NEW c, Ready(c), DeleteEntry(c)
  PROVE  LET k == call[c]
             i == k.off + 1
             there == i <= Len(table) /\ i <= MaxSubs
         IN  /\ Result(c) /\ mem' = mem /\ mask' = mask /\ forming' = forming
             /\ \/ /\ there /\ i \in Rows(table, k.op.arg) /\ table' = [table EXCEPT ![i] = Emptied]
                   /\ Answers(c, [k EXCEPT !.out.found = TRUE], Len(k.plan))
                \/ /\ there /\ i \notin Rows(table, k.op.arg) /\ table' = table /\ sound' = sound
                   /\ pc'[c] = pc[c] /\ call'[c] = [k EXCEPT !.off = i]
                \/ ~there /\ table' = table /\ sound' = sound /\ Gets(c, k, 1)
  <1> DEFINE k == call[c]
             i == k.off + 1
             there == i <= Len(table) /\ i <= MaxSubs
             match == there /\ Len(table[i]) = 2 /\ table[i][2] = k.op.arg
             l == [k EXCEPT !.off = i]
             f == [k EXCEPT !.out.found = TRUE]
  <1>1. /\ At(c).do = "exDelete" /\ mem' = mem /\ mask' = mask /\ forming' = forming
        /\ \/ match /\ table' = [table EXCEPT ![i] = Emptied] /\ Answered(c, f, Len(k.plan))
           \/ there /\ ~match /\ Continue(c, l) /\ table' = table /\ sound' = sound
           \/ ~there /\ Proceed(c, k, 1) /\ table' = table /\ sound' = sound
    BY DEF DeleteEntry, Asks, NvWriteEx
  <1>2. /\ k.off \in Nat /\ i \in Nat /\ i > 0 /\ FieldsTyped(k) /\ SameStage(k, k) /\ MemTyped(mem)
        /\ table \in Seq(Seq(Int)) /\ mask \in Int /\ Len(table) \in Nat
    BY ReadyParts, LenProperties DEF FieldsTyped, SameStage, Ready, Typed
  <1>3. there => (match <=> i \in Rows(table, k.op.arg))
    BY <1>2 DEF Rows
  <1>4. CASE match /\ table' = [table EXCEPT ![i] = Emptied] /\ Answered(c, f, Len(k.plan))
    <2>1. f.out = [k.out EXCEPT !.found = TRUE] /\ SameStage(f, k) /\ FieldsTyped(f)
      BY ReadyParts DEF SameStage, FieldsTyped, Fields, Outs, FileTyped
    <2>2. Len(k.plan) \in Nat /\ Len(k.plan) > 0 /\ k.at + Len(k.plan) > Len(k.plan)
      BY ReadyParts
    <2>3. table' \in Seq(Seq(Int))
      <3>1. Emptied \in Seq(Int) /\ i \in 1..Len(table)
        BY <1>2, <1>4 DEF Emptied, FF
      <3> QED BY <1>2, <1>4, <3>1, ExceptSeq
    <2> HIDE DEF f
    <2>4. Settled(c) /\ Answers(c, f, Len(k.plan))
      BY <1>4, <2>1, <2>2, AnsweredSettles
    <2> QED BY <1>1, <1>2, <1>3, <1>4, <2>3, <2>4 DEF Result, f
  <1>5. CASE there /\ ~match /\ Continue(c, l) /\ table' = table /\ sound' = sound
    <2>1. SameStage(l, k) /\ FieldsTyped(l) /\ l.off = i
      BY <1>2, ReadyParts DEF SameStage, FieldsTyped, Fields
    <2> HIDE DEF l
    <2>2. Going(l) = At(c) /\ Going(k) = At(c)
      BY <2>1 DEF SameStage, Going, At
    <2>3. CallTyped(l, pc[c])
      BY <1>1, <2>1, <2>2, ReadyParts DEF CallTyped, AtOnce, Transfers
    <2>4. Settled(c) /\ pc'[c] = pc[c] /\ call'[c] = l
      BY <1>5, <2>3, ContinueSettles
    <2> QED BY <1>1, <1>2, <1>3, <1>5, <2>4 DEF Result, l
  <1>6. CASE ~there /\ Proceed(c, k, 1) /\ table' = table /\ sound' = sound
    <2>1. Settled(c) /\ Gets(c, k, 1)
      BY <1>1, <1>2, <1>6, ArriveSettles
    <2> QED BY <1>1, <1>2, <1>6, <2>1 DEF Result
  <1> QED BY <1>1, <1>4, <1>5, <1>6

-----------------------------------------------------------------------------
(***************************************************************************)
(* Every step keeps the types                                              *)
(***************************************************************************)
\* One who waits for a change of state waits on, or gives up.
LEMMA WaitsSettle ==
  ASSUME NEW c, Ready(c), Register(c) \/ Timeout(c) \/ Stirs(c)
  PROVE  /\ Settled(c) /\ device' = device /\ sound' = sound /\ Going(call[c]).do = "await"
         /\ Over(c) \/ (pc'[c] \in Waits /\ SameFields(call'[c], call[c]))
  <1> DEFINE k == call[c]
             l == [k EXCEPT !.off = @ + 1]
  <1>1. /\ pc[c] \in Waits /\ file' = file /\ device' = device /\ sound' = sound
        /\ \/ \E p \in Waits : pc' = [pc EXCEPT ![c] = p] /\ (call' = call \/ call' = [call EXCEPT ![c] = l])
           \/ pc' = [pc EXCEPT ![c] = "failed"] /\ call' = call
    BY DEF Register, Timeout, Stirs, Reads, Waits, device
  <1>2. CallTyped(k, pc[c]) /\ Going(k).do = "await" /\ k.off \in Nat /\ DOMAIN k = Fields
    BY <1>1, ReadyParts DEF CallTyped, FieldsTyped
  <1>3. \A p \in Waits : CallTyped(k, p)
    BY <1>1, <1>2 DEF CallTyped
  <1>4. SameFields(l, k) /\ \A p \in Waits : CallTyped(l, p)
    <2>1. /\ l.op = k.op /\ l.plan = k.plan /\ l.at = k.at /\ l.out = k.out /\ l.buf = k.buf /\ l.off = k.off + 1 /\ l.done = k.done
          /\ l.total = k.total /\ DOMAIN l = Fields
      BY <1>2 DEF Fields
    <2> HIDE DEF l
    <2>2. Going(l) = Going(k)
      BY <2>1 DEF Going
    <2>3. FieldsTyped(l)
      BY <1>2, <2>1, ReadyParts DEF FieldsTyped
    <2> QED BY <1>2, <2>1, <2>2, <2>3 DEF CallTyped, AtOnce, Transfers, SameFields
  <1> HIDE DEF l
  <1>5. CASE pc' = [pc EXCEPT ![c] = "failed"] /\ call' = call
    BY <1>1, <1>2, <1>5, ReadyParts DEF Settled, Over, Active, Waits
  <1>6. CASE \E p \in Waits : pc' = [pc EXCEPT ![c] = p] /\ (call' = call \/ call' = [call EXCEPT ![c] = l])
    <2>1. PICK p \in Waits : pc' = [pc EXCEPT ![c] = p] /\ (call' = call \/ call' = [call EXCEPT ![c] = l])
      BY <1>6
    <2>2. pc'[c] = p /\ (call'[c] = k \/ call'[c] = l)
      BY <2>1, ReadyParts
    <2>3. CallTyped(call'[c], pc'[c]) /\ SameFields(call'[c], k)
      BY <1>3, <1>4, <2>1, <2>2 DEF SameFields
    <2>4. Settled(c)
      BY <1>1, <2>1, <2>3, ReadyParts DEF Settled
    <2> QED BY <1>1, <1>2, <2>1, <2>2, <2>3, <2>4
  <1> QED BY <1>1, <1>5, <1>6

\* A step of one keeps the types of all.
LEMMA ResultTyped ==
  ASSUME Typed, NEW c \in Callers, Result(c), before' = before
  PROVE  Typed'
  <1>1. \A e \in Callers : pc'[e] \in Active => CallTyped(call'[e], pc'[e])
    <2> TAKE e \in Callers
    <2>1. CASE e = c
      BY <2>1 DEF Result, Settled
    <2>2. CASE e # c
      BY <2>2 DEF Result, Settled, Typed
    <2> QED BY <2>1, <2>2
  <1> QED BY <1>1 DEF Typed, Result, Settled

\* Every step of a caller but the beginning of an operation.
LEMMA StepTyped ==
  ASSUME Typed, NEW c \in Callers, Step(c) \/ Stirs(c), ~Begin(c)
  PROVE  Ready(c) /\ Result(c) /\ before' = before
  <1>1. pc[c] \in Active /\ before' = before
    BY DEF Step, LoseRequest, Panic, WriteChunk, InitItem, ReadValue, ReadLength, ReadChunk, ReadEntry, DeleteEntry, Tune, GetInfo,
           SetChannel, Commission, ResetRequest, NwkUpdate, Register, Timeout, Stirs, Asks, Active, Waits, Reads, Rest, history
  <1>2. Ready(c)
    BY <1>1 DEF Ready
  <1>3. MemTyped(mem) /\ table \in Seq(Seq(Int)) /\ mask \in Int
    BY DEF Typed
  <1>4. Settled(c) /\ device' = device => Result(c)
    BY <1>3 DEF Result, device
  <1>5. CASE LoseRequest(c) \/ Panic(c)
    BY <1>1, <1>2, <1>4, <1>5, LostSettles
  <1>6. CASE WriteChunk(c)
    BY <1>1, <1>2, <1>6, WriteChunkTyped
  <1>7. CASE InitItem(c) \/ SetChannel(c) \/ Commission(c) \/ ResetRequest(c) \/ NwkUpdate(c)
    BY <1>1, <1>2, <1>7, ServesTyped
  <1>8. CASE ReadValue(c)
    BY <1>1, <1>2, <1>4, <1>8, ReadValueGets
  <1>9. CASE ReadLength(c) \/ ReadChunk(c)
    <2>1. device' = device
      BY <1>9 DEF ReadLength, ReadChunk, Reads
    <2> QED BY <1>1, <1>2, <1>4, <1>9, <2>1, ReadsAtOnce, ReadsDevices
  <1>10. CASE ReadEntry(c)
    BY <1>1, <1>2, <1>4, <1>10, ReadEntryGets
  <1>11. CASE DeleteEntry(c)
    BY <1>1, <1>2, <1>11, DeleteEntryGets
  <1>12. CASE Tune(c) \/ GetInfo(c)
    BY <1>1, <1>2, <1>4, <1>12, InfoGets
  <1>13. CASE Register(c) \/ Timeout(c) \/ Stirs(c)
    BY <1>1, <1>2, <1>4, <1>13, WaitsSettle
  <1> QED BY <1>5, <1>6, <1>7, <1>8, <1>9, <1>10, <1>11, <1>12, <1>13 DEF Step

\* An operation that begins has its plan, and remembers what there was.
LEMMA BeginTyped ==
  ASSUME Typed, NEW c \in Callers, queue[c] \in Seq(Jobs), Begin(c)
  PROVE  Typed'
  <1> DEFINE op == Head(queue[c])
             k == [Idle EXCEPT !.op = op, !.plan = IF Valid(op, file) THEN Stages(op, file) ELSE <<>>]
             b == [mem |-> mem, table |-> table, file |-> file]
  <1>1. /\ mem' = mem /\ table' = table /\ mask' = mask /\ file' = file
        /\ call' = [call EXCEPT ![c] = k]
        /\ pc' = [pc EXCEPT ![c] = IF open /\ Valid(op, file) THEN "run" ELSE "failed"]
        /\ before' = [before EXCEPT ![c] = b] /\ queue[c] # <<>>
    BY DEF Begin, device
  <1>2. op \in Jobs /\ FileTyped(file) /\ BeforeTyped(b)
    BY <1>1, HeadTailProperties DEF Typed, BeforeTyped
  <1>3. ASSUME Valid(op, file)
        PROVE  CallTyped(k, "run")
    <2>1. PlanTyped(Stages(op, file))
      BY <1>2, <1>3, PlansAreTyped
    <2>2. /\ DOMAIN k = Fields /\ k.plan = Stages(op, file) /\ k.at = 1 /\ k.off = 0 /\ k.done = 0 /\ k.total = Unknown /\ k.buf = <<>>
          /\ k.out = NoOut
      BY <1>3 DEF Idle, Fields
    <2>3. DOMAIN NoOut = Outs /\ FileTyped(NoOut)
      BY DEF NoOut, Outs, FileTyped
    <2> HIDE DEF k, op
    <2>4. FieldsTyped(k) /\ Going(k) = k.plan[1] /\ Going(k).do \notin {"writeBack", "await"}
      BY <2>1, <2>2, <2>3 DEF FieldsTyped, Going, PlanTyped
    <2> QED BY <2>2, <2>4 DEF CallTyped, AtOnce, Waits
  <1> HIDE DEF op, k, b
  <1>4. \A e \in Callers : pc'[e] \in Active => CallTyped(call'[e], pc'[e])
    <2> TAKE e \in Callers
    <2>1. CASE e = c
      BY <1>1, <1>3, <2>1 DEF Typed, Active, Waits
    <2>2. CASE e # c
      BY <1>1, <2>2 DEF Typed
    <2> QED BY <2>1, <2>2
  <1> QED BY <1>1, <1>2, <1>4 DEF Typed

\* A new network.
LEMMA NewNetworkTyped ==
  ASSUME NEW m, MemTyped(m), mask \in Int
  PROVE  /\ MemTyped(NewNetwork(m)) /\ NewNetwork(m).nib[ChannelAt] = mask
         /\ \A i \in Items \ {"nib", "key"} : NewNetwork(m)[i] = m[i]
  <1> DEFINE nib == [i \in 1..NibSize |-> IF i = ChannelAt THEN mask ELSE IF i = 1 THEN 1 ELSE 0]
             key == <<0, IF m.key = <<>> THEN 1 ELSE m.key[2] + 1>>
  <1>1. m \in [Items -> Seq(Int)] /\ m.key \in Seq(Int) /\ Len(m.key) \in {0, 2}
    BY ItemsThere DEF MemTyped
  <1>2. nib \in Seq(Int) /\ Len(nib) = NibSize /\ nib[ChannelAt] = mask
    BY SizesAreSane
  <1>3. key \in Seq(Int) /\ Len(key) = 2
    <2>1. CASE m.key = <<>>
      BY <2>1
    <2>2. CASE m.key # <<>>
      <3>1. Len(m.key) = 2
        BY <1>1, <2>2, EmptySeq
      <3>2. m.key[2] \in Int
        BY <1>1, <3>1, ElementOfSeq
      <3> QED BY <2>2, <3>2
    <2> QED BY <2>1, <2>2
  <1> HIDE DEF nib, key
  <1>4. NewNetwork(m) = [m EXCEPT !.nib = nib, !.key = key]
    BY DEF NewNetwork, nib, key
  <1> QED BY <1>1, <1>2, <1>3, <1>4, ItemsThere DEF MemTyped

\* What the coordinator does of its own keeps the types.
LEMMA CoordinatorTyped ==
  ASSUME IInv, Typed, CountUpdate \/ LosePower \/ (\E d \in scenario.joins : Join(d)) \/ Starts \/ Close
  PROVE  Typed'
  <1>1. MemTyped(mem) /\ table \in Seq(Seq(Int)) /\ mask \in Int /\ DOMAIN mem = Items
    BY DEF Typed, MemTyped
  <1>2. /\ mem.nib \in Seq(Int) /\ mem.addrMgr \in Seq(Int) /\ Len(mem.nib) \in {0, NibSize} /\ Len(mem.addrMgr) \in Nat
        /\ Len(mem.nib) \in Nat
    BY <1>1, ItemsThere, LenProperties DEF MemTyped
  \* The calls are as before.
  <1>3. ASSUME MemTyped(mem'), table' \in Seq(Seq(Int)), mask' \in Int, UNCHANGED <<pc, call, file, before>>
        PROVE  Typed'
    BY <1>3 DEF Typed
  <1>4. CASE CountUpdate
    <2> DEFINE nib == [mem.nib EXCEPT ![1] = @ + 1]
    <2>1. mem' = [mem EXCEPT !.nib = nib] /\ table' = table /\ mask' = mask /\ UNCHANGED <<pc, call, file, before>> /\ Len(mem.nib) > 0
      BY <1>4 DEF CountUpdate, Quiet, history
    <2>2. 1 \in 1..Len(mem.nib) /\ mem.nib[1] + 1 \in Int
      BY <1>2, <2>1, ElementOfSeq
    <2>3. nib \in Seq(Int) /\ Len(nib) = Len(mem.nib)
      BY <1>2, <2>2, ExceptSeq
    <2> HIDE DEF nib
    <2>4. MemTyped(mem')
      BY <1>1, <2>1, <2>3, ItemsThere DEF MemTyped
    <2> QED BY <1>1, <1>3, <2>1, <2>4
  <1>5. CASE LosePower
    BY <1>1, <1>3, <1>5, RestartsTyped DEF LosePower, Quiet, history
  <1>6. ASSUME NEW d \in scenario.joins, Join(d)
        PROVE  Typed'
    <2> DEFINE free == {i \in 1..Count(mem.addrMgr) : Entry(mem.addrMgr, i) = Emptied}
               k == Least(free)
               one == [mem.addrMgr EXCEPT ![2 * k - 1] = 1]
               cells == [one EXCEPT ![2 * k] = d]
    <2>1. mem' = [mem EXCEPT !.addrMgr = cells] /\ table' = table /\ mask' = mask /\ UNCHANGED <<pc, call, file, before>> /\ free # {}
      BY <1>6 DEF Join, Quiet, history
    <2>2. k \in free
      <3>1. free \subseteq Nat
        OBVIOUS
      <3> HIDE DEF free
      <3> QED BY <2>1, <3>1, LeastIsThere
    <2>3. k \in 1..(Len(mem.addrMgr) \div 2)
      BY <2>2 DEF Count
    <2> HIDE DEF k
    <2>4. 2 * k - 1 \in 1..Len(mem.addrMgr) /\ 2 * k \in 1..Len(mem.addrMgr)
      <3> DEFINE n == Len(mem.addrMgr)
      <3>1. n \in Nat /\ k \in 1..(n \div 2)
        BY <1>2, <2>3
      <3> HIDE DEF n
      <3>2. 2 * k \in 1..n /\ 2 * k - 1 \in 1..n
        BY <3>1, CellsOfEntry
      <3> QED BY <3>2 DEF n
    <2>5. d \in Int
      BY <1>6, ScenariosAreSane DEF IInv
    <2>6. one \in Seq(Int) /\ Len(one) = Len(mem.addrMgr)
      BY <1>2, <2>4, ExceptSeq
    <2> HIDE DEF one
    <2>7. cells \in Seq(Int)
      BY <2>4, <2>5, <2>6, ExceptSeq
    <2> HIDE DEF cells
    <2>8. MemTyped(mem')
      BY <1>1, <2>1, <2>7, ItemsThere DEF MemTyped
    <2> QED BY <1>1, <1>3, <2>1, <2>8
  <1>7. CASE Starts
    <2>1. MemTyped(mem') /\ table' = table /\ mask' = mask /\ before' = before
      BY <1>1, <1>7, NewNetworkTyped DEF Starts, history
    <2>2. CASE UNCHANGED <<pc, call, file>>
      BY <1>1, <1>3, <2>1, <2>2
    <2>3. ASSUME NEW c \in Callers, pc[c] = "waiting", Proceed(c, call[c], 1)
          PROVE  Typed'
      <3>1. Ready(c) /\ pc[c] \in Waits
        BY <2>3 DEF Ready, Active, Waits
      <3>2. At(c).do = "await" /\ FieldsTyped(call[c]) /\ SameStage(call[c], call[c])
        BY <3>1, ReadyParts DEF CallTyped, SameStage
      <3>3. Settled(c)
        BY <2>3, <3>1, <3>2, ArriveSettles
      <3> QED BY <1>1, <2>1, <3>3, ResultTyped DEF Result
    <2> QED BY <1>7, <2>2, <2>3 DEF Starts
  <1>8. CASE Close
    BY <1>1, <1>3, <1>8 DEF Close, device, history
  <1> QED BY <1>4, <1>5, <1>6, <1>7, <1>8

\* The types hold to begin with.
LEMMA InitTyped == Init => Typed
  <1> SUFFICES ASSUME Init PROVE Typed
    OBVIOUS
  <1>1. MemTyped(mem) /\ table \in Seq(Seq(Int))
    BY ScenariosAreSane DEF Init, MemTyped
  <1>2. FileTyped(file)
    BY DEF Init, NoFile, FileTyped
  <1> QED BY <1>1, <1>2 DEF Init, Typed, BeforeTyped, Active, Waits

\* Every step keeps the types.
LEMMA NextTyped == IInv /\ Typed /\ [Next]_vars => Typed'
  <1> SUFFICES ASSUME IInv, Typed, [Next]_vars PROVE Typed'
    OBVIOUS
  <1>1. ASSUME NEW c \in Callers, Begin(c)
        PROVE  Typed'
    BY <1>1, BeginTyped DEF IInv, Jobs
  <1>2. ASSUME NEW c \in Callers, Step(c) \/ Stirs(c), ~Begin(c)
        PROVE  Typed'
    BY <1>2, StepTyped, ResultTyped
  <1>3. CASE CountUpdate \/ LosePower \/ (\E d \in scenario.joins : Join(d)) \/ Starts \/ Close
    BY <1>3, CoordinatorTyped
  <1>4. CASE UNCHANGED vars
    BY <1>4 DEF Typed, vars
  <1> QED BY <1>1, <1>2, <1>3, <1>4 DEF Next

-----------------------------------------------------------------------------
(***************************************************************************)
(* From stage to stage. What each operation has done when it got to its    *)
(* stage r: k is the call, m and t the memory and the table, b what they   *)
(* were when it began, and s says whether no request of it failed.         *)
(***************************************************************************)
\* What the stage a call is at does, or its request fails.
LEMMA LostIsLost ==
  ASSUME NEW c, Ready(c), LoseRequest(c) \/ Panic(c)
  PROVE  device' = device /\ (At(c).do \notin {"exRead", "exDelete"} => Lost(c)) /\ (Over(c) \/ Missed(c))
  <1>1. device' = device /\ (Over(c) \/ Missed(c))
    BY LostSettles
  <1>2. At(c).do \notin {"exRead", "exDelete"} /\ Missed(c) => Lost(c)
    BY AnswersServes
  <1> QED BY <1>1, <1>2 DEF Lost

\* A caller whose request is served, lost or refused.
Asking(c) == Ready(c) /\ pc[c] = "run" /\ Step(c)

\* One stage, one kind of request.
LEMMA StageDoes ==
  ASSUME NEW c, Asking(c)
  PROVE  LoseRequest(c) \/ Panic(c) \/
           ( /\ At(c).do \in {"write", "writeAll", "writeBack"} => WriteChunk(c)
             /\ At(c).do = "init" => InitItem(c)
             /\ At(c).do = "read" => ReadValue(c)
             /\ At(c).do = "readAll" => ReadLength(c) \/ ReadChunk(c)
             /\ At(c).do = "exRead" => ReadEntry(c)
             /\ At(c).do = "exDelete" => DeleteEntry(c)
             /\ At(c).do = "tune" => Tune(c)
             /\ At(c).do \in {"deviceInfo", "nwkInfo"} => GetInfo(c)
             /\ At(c).do \in {"primary", "secondary"} => SetChannel(c)
             /\ At(c).do = "commission" => Commission(c)
             /\ At(c).do = "reset" => ResetRequest(c)
             /\ At(c).do = "nwkUpdate" => NwkUpdate(c) )
  <1>1. ~Begin(c) /\ ~Register(c) /\ ~Timeout(c)
    BY DEF Asking, Begin, Register, Timeout
  <1>2. /\ WriteChunk(c) => At(c).do \in {"write", "writeAll", "writeBack"}
        /\ InitItem(c) => At(c).do = "init"
        /\ ReadValue(c) => At(c).do = "read"
        /\ ReadLength(c) \/ ReadChunk(c) => At(c).do = "readAll"
        /\ ReadEntry(c) => At(c).do = "exRead"
        /\ DeleteEntry(c) => At(c).do = "exDelete"
        /\ Tune(c) => At(c).do = "tune"
        /\ GetInfo(c) => At(c).do \in {"deviceInfo", "nwkInfo"}
        /\ SetChannel(c) => At(c).do \in {"primary", "secondary"}
        /\ Commission(c) => At(c).do = "commission"
        /\ ResetRequest(c) => At(c).do = "reset"
        /\ NwkUpdate(c) => At(c).do = "nwkUpdate"
    BY DEF WriteChunk, InitItem, ReadValue, ReadLength, ReadChunk, ReadEntry, DeleteEntry, Tune, GetInfo, SetChannel, Commission,
           ResetRequest, NwkUpdate, Asks
  <1> QED BY <1>1, <1>2 DEF Asking, Step

\* A stage that fails leaves the device as it is.
Fails(c) == device' = device /\ Lost(c)

\* A write.
LEMMA AtWrite ==
  ASSUME NEW c, Asking(c), At(c).do \in {"write", "writeAll", "writeBack"}, At(c).item # "addrMgr"
  PROVE  Fails(c) \/ ( /\ Len(mem[At(c).item]) = SizeOf(At(c).item) /\ mem' = [mem EXCEPT ![At(c).item] = DataOf(c)]
                       /\ table' = table /\ mask' = mask /\ forming' = forming /\ Serves(c) )
  BY StageDoes, LostIsLost, WritesAtOnce DEF Asking, Fails, device

\* The creation of an item.
LEMMA AtInit ==
  ASSUME NEW c, Asking(c), At(c).do = "init"
  PROVE  Fails(c) \/ ( /\ mem' = [mem EXCEPT ![At(c).item] = IF @ = <<>> THEN At(c).data ELSE @]
                       /\ table' = table /\ mask' = mask /\ forming' = forming /\ Serves(c) )
  BY StageDoes, LostIsLost, ServesTyped DEF Asking, Fails, InitItem

\* A restart that is asked for.
LEMMA AtReset ==
  ASSUME NEW c, Asking(c), At(c).do = "reset"
  PROVE  Fails(c) \/ (Restarts /\ Serves(c))
  BY StageDoes, LostIsLost, ServesTyped DEF Asking, Fails, ResetRequest

\* A channel that the whole network is told.
LEMMA AtNwkUpdate ==
  ASSUME NEW c, Asking(c), At(c).do = "nwkUpdate"
  PROVE  Fails(c) \/ (mem' = Moved(mem, At(c).data[1]) /\ table' = table /\ Serves(c))
  BY StageDoes, LostIsLost, ServesTyped DEF Asking, Fails, NwkUpdate

\* A channel of the next formation.
LEMMA AtChannel ==
  ASSUME NEW c, Asking(c), At(c).do \in {"primary", "secondary"}
  PROVE  Fails(c) \/ ( /\ mem' = mem /\ table' = table /\ forming' = forming /\ Serves(c)
                       /\ mask' = IF At(c).do = "primary" THEN At(c).data[1] ELSE mask )
  BY StageDoes, LostIsLost, ServesTyped DEF Asking, Fails, SetChannel

\* The order to form a network.
LEMMA AtCommission ==
  ASSUME NEW c, Asking(c), At(c).do = "commission"
  PROVE  Fails(c) \/ (mem' = mem /\ table' = table /\ mask' = mask /\ forming' = c /\ Serves(c))
  BY StageDoes, LostIsLost, ServesTyped DEF Asking, Fails, Commission

\* A request that leaves everything as it is.
LEMMA AtTune ==
  ASSUME NEW c, Asking(c), At(c).do = "tune"
  PROVE  device' = device /\ Serves(c)
  <1>1. CASE LoseRequest(c) \/ Panic(c)
    BY <1>1, LostIsLost DEF Asking, Serves
  <1>2. CASE Tune(c)
    BY <1>2, InfoGets, AnswersServes DEF Asking, Serves
  <1> QED BY <1>1, <1>2, StageDoes

\* The memory is as it was, but for some items.
SameBut(m, old, items) == \A i \in Items \ items : m[i] = old[i]

\* SetTxPower has changed the power.
SetPowerWay(k, r, m, t, b, s) ==
  /\ t = b.table /\ SameBut(m, b.mem, {"power"})
  /\ s /\ r = 4 => m.power = <<Byte(k.op.arg)>>

\* FactoryReset has erased what it got to.
FactoryResetWay(k, r, m, t, b, s) ==
  b.mem.startup # <<3>> =>
    /\ t = b.table /\ SameBut(m, b.mem, {"nib", "key", "altKey"})
    /\ r = 1 => m.nib = b.mem.nib
    /\ s /\ r >= 2 => m.nib = Zeros(Len(b.mem.nib))
    /\ s /\ r >= 3 => m.key = Zeros(2)
    /\ s /\ r >= 4 => m.altKey = Zeros(2)

\* Another channel, if there is a network.
Rechanneled(m, ch) == IF m.nib = <<>> THEN m ELSE Moved(m, ch)

\* ChangeChannel without a restart is one request.
SeamlessWay(k, r, m, t, b, s) ==
  /\ t = b.table
  /\ r = 1 => m = b.mem
  /\ r = 2 => m = Rechanneled(b.mem, k.op.arg)

\* RestoreBackup has written what it got to.
RestoreWay(k, r, m, t, b, s) ==
  /\ t = b.table /\ SameBut(m, b.mem, {"extAddr", "key", "altKey"})
  /\ r >= 2 => m.extAddr = b.file.ieee
  /\ r >= 3 => m.key = b.file.key
  /\ r >= 4 => m.altKey = b.file.key

\* The operation stays the same.
SamePlan(c) == call'[c].op = call[c].op /\ call'[c].plan = call[c].plan

\* The items of memory.
LEMMA MemDomain ==
  ASSUME NEW c, Ready(c)
  PROVE  DOMAIN mem = Items /\ \A i \in Items \ {"addrMgr"} : Len(mem[i]) \in {0, SizeOf(i)} /\ mem[i] \in Seq(Int)
  BY ReadyParts DEF MemTyped

\* SetTxPower: each step leads on along the way.
LEMMA SetPowerSteps ==
  ASSUME NEW c, Asking(c), call[c].plan = SetTxPower(call[c].op.arg),
         SetPowerWay(call[c], call[c].at, mem, table, before[c], c \in sound)
  PROVE  Over(c) \/ (SamePlan(c) /\ SetPowerWay(call'[c], Reached(call'[c], pc'[c]), mem', table', before[c], c \in sound'))
  <1> DEFINE b == Byte(call[c].op.arg)
             p == call[c].plan
  <1>1. /\ Len(p) = 3 /\ p[1] = Command("tune", <<>>) /\ p[2] = Try(NvItemInit("power", <<b>>)) /\ p[3] = Try(Write("power", <<b>>))
        /\ At(c) = p[call[c].at] /\ call[c].at \in {1, 2, 3} /\ DOMAIN mem = Items
    <2>1. p = <<Command("tune", <<>>), Try(NvItemInit("power", <<b>>)), Try(Write("power", <<b>>))>>
      BY DEF SetTxPower
    <2>2. call[c].at \in 1..Len(p) /\ At(c) = p[call[c].at]
      BY ReadyParts DEF Asking, At
    <2>3. Len(p) = 3
      BY <2>1
    <2>4. call[c].at \in {1, 2, 3}
      BY <2>2, <2>3
    <2> QED BY <2>1, <2>2, <2>3, <2>4, MemDomain DEF Asking
  <1> HIDE DEF b, p
  <1>2. CASE call[c].at = 1
    <2>1. At(c).do = "tune" /\ ~At(c).try
      BY <1>1, <1>2 DEF Command, Stage
    <2>2. device' = device /\ Serves(c)
      BY <2>1, AtTune
    <2> QED BY <1>1, <1>2, <2>1, <2>2 DEF Serves, Lost, Goes, Lesser, SetPowerWay, device, SamePlan, p
  <1>3. CASE call[c].at = 2
    <2>1. At(c).do = "init" /\ At(c).item = "power" /\ At(c).data = <<b>>
      BY <1>1, <1>3 DEF NvItemInit, Stage, Try
    <2>2. device' = device \/ (table' = table /\ mem' = [mem EXCEPT !.power = IF @ = <<>> THEN <<b>> ELSE @])
      BY <2>1, AtInit DEF Fails
    <2>3. SameBut(mem', mem, {"power"}) /\ table' = table
      BY <1>1, <2>2 DEF SameBut, device
    <2>4. Serves(c)
      BY <2>1, AtInit DEF Fails, Serves
    <2> QED BY <1>1, <1>3, <2>3, <2>4 DEF Serves, Lost, Goes, Lesser, SetPowerWay, SameBut, SamePlan, p
  <1>4. CASE call[c].at = 3
    <2>1. At(c).do = "write" /\ At(c).item = "power" /\ DataOf(c) = <<b>>
      BY <1>1, <1>4 DEF Write, Stage, Try, DataOf
    <2>2. Fails(c) \/ (mem' = [mem EXCEPT !.power = <<b>>] /\ table' = table /\ Serves(c))
      BY <2>1, AtWrite
    <2>3. SameBut(mem', mem, {"power"}) /\ table' = table /\ Serves(c) /\ (c \in sound' /\ ~Over(c) => mem'.power = <<b>>)
      BY <1>1, <2>2 DEF SameBut, device, Fails, Serves, Lost, Items
    <2> QED BY <1>1, <1>4, <2>3 DEF Serves, Lost, Goes, Lesser, SetPowerWay, SameBut, SamePlan, p, b
  <1> QED BY <1>1, <1>2, <1>3, <1>4

\* GetTxPower has read the power.
GetPowerWay(k, r, m, t, b) ==
  /\ t = b.table /\ m = b.mem
  /\ r = 2 => k.out.power = <<Signed(m.power[1])>>

\* ChangeChannel without a restart.
LEMMA SeamlessSteps ==
  ASSUME NEW c, Asking(c), call[c].plan = ChangeChannel(call[c].op.arg, TRUE),
         SeamlessWay(call[c], call[c].at, mem, table, before[c], c \in sound)
  PROVE  Over(c) \/ (SamePlan(c) /\ SeamlessWay(call'[c], Reached(call'[c], pc'[c]), mem', table', before[c], c \in sound'))
  <1> DEFINE ch == call[c].op.arg
             p == call[c].plan
  <1>1. /\ Len(p) = 1 /\ p[1] = Command("nwkUpdate", <<ch>>) /\ At(c) = p[call[c].at] /\ call[c].at = 1
    <2>1. p = <<Command("nwkUpdate", <<ch>>)>>
      BY DEF ChangeChannel
    <2>2. call[c].at \in 1..Len(p) /\ At(c) = p[call[c].at]
      BY ReadyParts DEF Asking, At
    <2> HIDE DEF p, ch
    <2>3. Len(p) = 1 /\ p[1] = Command("nwkUpdate", <<ch>>)
      BY <2>1
    <2> QED BY <2>2, <2>3
  <1> HIDE DEF ch, p
  <1>2. At(c).do = "nwkUpdate" /\ At(c).data[1] = ch /\ ~At(c).try
    BY <1>1 DEF Command, Stage
  <1>3. Fails(c) \/ (mem' = Moved(mem, ch) /\ table' = table /\ Serves(c))
    BY <1>2, AtNwkUpdate
  <1>4. mem.nib = <<>> => Moved(mem, ch) = mem
    <2>1. mem.nib = <<>> => [i \in 1..Len(mem.nib) |-> IF i = ChannelAt THEN ch ELSE mem.nib[i]] = mem.nib
      OBVIOUS
    <2>2. mem \in [Items -> Seq(Int)]
      BY ReadyParts DEF Asking, MemTyped
    <2> QED BY <2>1, <2>2, ItemsThere DEF Moved
  <1>5. Over(c) \/ (Goes(c) /\ mem' = Rechanneled(mem, ch) /\ table' = table)
    BY <1>2, <1>3, <1>4 DEF Fails, Lost, Serves, Rechanneled
  <1>6. Goes(c) => Reached(call'[c], pc'[c]) = 2 /\ call'[c].op.arg = ch /\ SamePlan(c)
    BY <1>1 DEF Goes, Lesser, SamePlan, p, ch
  <1>7. mem = before[c].mem /\ table = before[c].table
    BY <1>1 DEF SeamlessWay
  <1> QED BY <1>5, <1>6, <1>7 DEF SeamlessWay

\* GetTxPower.
LEMMA GetPowerSteps ==
  ASSUME NEW c, Asking(c), call[c].plan = GetTxPower, GetPowerWay(call[c], call[c].at, mem, table, before[c])
  PROVE  Over(c) \/ (SamePlan(c) /\ GetPowerWay(call'[c], Reached(call'[c], pc'[c]), mem', table', before[c]))
  <1> DEFINE p == call[c].plan
             k == [call[c] EXCEPT !.out.power = <<Signed(mem.power[1])>>]
  <1>1. Len(p) = 1 /\ p[1] = Stage("read", "power", <<>>, FALSE) /\ At(c) = p[call[c].at] /\ call[c].at = 1
    <2>1. p = <<Stage("read", "power", <<>>, FALSE)>>
      BY DEF GetTxPower
    <2>2. call[c].at \in 1..Len(p) /\ At(c) = p[call[c].at]
      BY ReadyParts DEF Asking, At
    <2> QED BY <2>1, <2>2
  <1> HIDE DEF p
  <1>2. At(c).do = "read" /\ At(c).item = "power" /\ ~At(c).try
    BY <1>1 DEF Stage
  <1>3. device' = device /\ (Over(c) \/ Gets(c, k, 1))
    <2>1. Missed(c) => Over(c)
      BY <1>2 DEF Missed
    <2>2. CASE LoseRequest(c) \/ Panic(c)
      BY <2>1, <2>2, LostIsLost DEF Asking
    <2>3. CASE ReadValue(c)
      BY <1>2, <2>1, <2>3, ReadValueGets DEF Asking
    <2> QED BY <1>2, <2>2, <2>3, StageDoes
  <1>4. k.op = call[c].op /\ k.plan = call[c].plan /\ k.at = call[c].at /\ k.out.power = <<Signed(mem.power[1])>>
    BY ReadyParts DEF Asking, Fields, Outs
  <1> HIDE DEF k
  <1> QED BY <1>1, <1>3, <1>4 DEF Gets, Lesser, GetPowerWay, SamePlan, device, p

\* RestoreBackup.
LEMMA RestoreSteps ==
  ASSUME NEW c, Asking(c), call[c].plan = RestoreBackup(before[c].file),
         RestoreWay(call[c], call[c].at, mem, table, before[c], c \in sound)
  PROVE  Over(c) \/ (SamePlan(c) /\ RestoreWay(call'[c], Reached(call'[c], pc'[c]), mem', table', before[c], c \in sound'))
  <1> DEFINE p == call[c].plan
             f == before[c].file
  <1>1. /\ Len(p) = 3 /\ p[1] = NvWriteAll("extAddr", f.ieee) /\ p[2] = NvWriteAll("key", f.key) /\ p[3] = NvWriteAll("altKey", f.key)
        /\ At(c) = p[call[c].at] /\ call[c].at \in {1, 2, 3} /\ DOMAIN mem = Items
    <2>1. p = <<NvWriteAll("extAddr", f.ieee), NvWriteAll("key", f.key), NvWriteAll("altKey", f.key)>>
      BY DEF RestoreBackup
    <2>2. call[c].at \in 1..Len(p) /\ At(c) = p[call[c].at]
      BY ReadyParts DEF Asking, At
    <2>3. Len(p) = 3
      BY <2>1
    <2>4. call[c].at \in {1, 2, 3}
      BY <2>2, <2>3
    <2> QED BY <2>1, <2>2, <2>3, <2>4, MemDomain DEF Asking
  <1> HIDE DEF f, p
  <1>2. /\ At(c).do = "writeAll" /\ ~At(c).try /\ DataOf(c) = At(c).data
        /\ At(c).item = (CASE call[c].at = 1 -> "extAddr" [] call[c].at = 2 -> "key" [] call[c].at = 3 -> "altKey")
        /\ At(c).data = (IF call[c].at = 1 THEN f.ieee ELSE f.key)
    BY <1>1 DEF NvWriteAll, Stage, DataOf
  <1>3. At(c).item \in {"extAddr", "key", "altKey"}
    BY <1>1, <1>2
  <1>4. Over(c) \/ (mem' = [mem EXCEPT ![At(c).item] = At(c).data] /\ table' = table /\ Goes(c))
    BY <1>2, <1>3, AtWrite DEF Fails, Serves, Lost
  <1>5. ASSUME ~Over(c)
        PROVE  /\ SameBut(mem', mem, {"extAddr", "key", "altKey"}) /\ table' = table /\ SamePlan(c)
               /\ Reached(call'[c], pc'[c]) = call[c].at + 1
               /\ call[c].at = 1 => mem'.extAddr = f.ieee
               /\ call[c].at = 2 => mem'.extAddr = mem.extAddr /\ mem'.key = f.key
               /\ call[c].at = 3 => mem'.extAddr = mem.extAddr /\ mem'.key = mem.key /\ mem'.altKey = f.key
    <2>1. mem' = [mem EXCEPT ![At(c).item] = At(c).data] /\ table' = table /\ Goes(c)
      BY <1>4, <1>5
    <2>2. SameBut(mem', mem, {"extAddr", "key", "altKey"}) /\ mem'[At(c).item] = At(c).data
          /\ \A i \in Items : i # At(c).item => mem'[i] = mem[i]
      BY <1>1, <1>3, <2>1, ItemsThere DEF SameBut
    <2>3. Reached(call'[c], pc'[c]) = call[c].at + 1
      BY <1>1, <2>1 DEF Goes, Lesser, p
    <2>4. CASE call[c].at = 1
      BY <1>2, <2>1, <2>2, <2>3, <2>4, ItemsThere DEF Goes, SamePlan
    <2>5. CASE call[c].at = 2
      BY <1>2, <2>1, <2>2, <2>3, <2>5, ItemsThere DEF Goes, SamePlan
    <2>6. CASE call[c].at = 3
      BY <1>2, <2>1, <2>2, <2>3, <2>6, ItemsThere DEF Goes, SamePlan
    <2> QED BY <1>1, <2>4, <2>5, <2>6
  <1>6. CASE call[c].at = 1
    BY <1>5, <1>6 DEF RestoreWay, SameBut, f
  <1>7. CASE call[c].at = 2
    BY <1>5, <1>7 DEF RestoreWay, SameBut, f
  <1>8. CASE call[c].at = 3
    BY <1>5, <1>8 DEF RestoreWay, SameBut, f
  <1> QED BY <1>1, <1>6, <1>7, <1>8

\* FactoryReset.
LEMMA FactoryResetSteps ==
  ASSUME NEW c, Asking(c), call[c].plan = FactoryReset,
         FactoryResetWay(call[c], call[c].at, mem, table, before[c], c \in sound)
  PROVE  Over(c) \/ (SamePlan(c) /\ FactoryResetWay(call'[c], Reached(call'[c], pc'[c]), mem', table', before[c], c \in sound'))
  <1> DEFINE p == call[c].plan
             old == before[c].mem
             erased == {"nib", "key", "altKey"}
  <1>1. /\ Len(p) = 4 /\ p[1] = Try(NvWriteAll("nib", Zeros(NibSize))) /\ p[2] = Try(Write("key", Zeros(2)))
        /\ p[3] = Try(Write("altKey", Zeros(2))) /\ p[4] = Reset
        /\ At(c) = p[call[c].at] /\ call[c].at \in {1, 2, 3, 4} /\ DOMAIN mem = Items
    <2>1. p = <<Try(NvWriteAll("nib", Zeros(NibSize))), Try(Write("key", Zeros(2))), Try(Write("altKey", Zeros(2))), Reset>>
      BY DEF FactoryReset
    <2>2. call[c].at \in 1..Len(p) /\ At(c) = p[call[c].at]
      BY ReadyParts DEF Asking, At
    <2>3. Len(p) = 4
      BY <2>1
    <2>4. call[c].at \in {1, 2, 3, 4}
      BY <2>2, <2>3
    <2> QED BY <2>1, <2>2, <2>3, <2>4, MemDomain DEF Asking
  <1> HIDE DEF p
  <1>2. SUFFICES ASSUME old.startup # << 3 >>, ~Over(c)
                 PROVE  SamePlan(c) /\ FactoryResetWay(call'[c], Reached(call'[c], pc'[c]), mem', table', before[c], c \in sound')
    <2>1. SamePlan(c) \/ Over(c)
      <3>1. CASE call[c].at \in {1, 2, 3}
        <4>1. At(c).do \in {"write", "writeAll"} /\ At(c).item # "addrMgr"
          BY <1>1, <3>1 DEF NvWriteAll, Write, Stage, Try
        <4> QED BY <4>1, AtWrite DEF Fails, Serves, Lost, Goes, SamePlan
      <3>2. CASE call[c].at = 4
        <4>1. At(c).do = "reset"
          BY <1>1, <3>2 DEF Reset, Command, Stage
        <4> QED BY <4>1, AtReset DEF Fails, Serves, Lost, Goes, SamePlan
      <3> QED BY <1>1, <3>1, <3>2
    <2> QED BY <1>2, <2>1 DEF FactoryResetWay
  <1>3. ASSUME call[c].at \in {1, 2, 3}
        PROVE  /\ Goes(c) /\ table' = table
               /\ \A i \in Items : i # At(c).item => mem'[i] = mem[i]
               /\ At(c).item = (CASE call[c].at = 1 -> "nib" [] call[c].at = 2 -> "key" [] call[c].at = 3 -> "altKey")
               /\ c \in sound' => /\ c \in sound /\ mem'[At(c).item] = (IF call[c].at = 1 THEN Zeros(NibSize) ELSE Zeros(2))
                                  /\ call[c].at = 1 => Len(mem.nib) = NibSize
    <2>1. /\ At(c).do \in {"write", "writeAll"} /\ At(c).try /\ DataOf(c) = (IF call[c].at = 1 THEN Zeros(NibSize) ELSE Zeros(2))
          /\ At(c).item = (CASE call[c].at = 1 -> "nib" [] call[c].at = 2 -> "key" [] call[c].at = 3 -> "altKey")
      BY <1>1, <1>3 DEF NvWriteAll, Write, Stage, Try, DataOf
    <2>2. At(c).item \in Items /\ At(c).item # "addrMgr" /\ (call[c].at = 1 => At(c).item = "nib")
      BY <1>3, <2>1, ItemsThere
    <2>3. Fails(c) \/ ( /\ Len(mem[At(c).item]) = SizeOf(At(c).item) /\ mem' = [mem EXCEPT ![At(c).item] = DataOf(c)]
                        /\ table' = table /\ Serves(c) )
      BY <2>1, <2>2, AtWrite
    <2>4. CASE Fails(c)
      BY <1>2, <2>1, <2>4 DEF Fails, Lost, device
    <2>5. CASE /\ Len(mem[At(c).item]) = SizeOf(At(c).item) /\ mem' = [mem EXCEPT ![At(c).item] = DataOf(c)]
               /\ table' = table /\ Serves(c)
      BY <1>1, <1>2, <2>1, <2>2, <2>5, ItemsThere DEF Serves, Lost
    <2> QED BY <2>3, <2>4, <2>5
  <1>4. CASE call[c].at = 1
    BY <1>1, <1>2, <1>3, <1>4, ItemsThere DEF FactoryResetWay, SameBut, Goes, Lesser, SamePlan, p
  <1>5. CASE call[c].at = 2
    BY <1>1, <1>2, <1>3, <1>5, ItemsThere DEF FactoryResetWay, SameBut, Goes, Lesser, SamePlan, p
  <1>6. CASE call[c].at = 3
    BY <1>1, <1>2, <1>3, <1>6, ItemsThere DEF FactoryResetWay, SameBut, Goes, Lesser, SamePlan, p
  <1>7. CASE call[c].at = 4
    <2>1. At(c).do = "reset" /\ ~At(c).try
      BY <1>1, <1>7 DEF Reset, Command, Stage
    <2>2. mem.startup # <<3>>
      BY <1>2, ItemsThere DEF FactoryResetWay, SameBut
    <2>3. Goes(c) /\ sound' = sound /\ mem' = mem /\ table' = table
      BY <1>2, <2>1, <2>2, AtReset DEF Fails, Serves, Lost, Restarts
    <2> QED BY <1>1, <1>2, <1>7, <2>3 DEF FactoryResetWay, Goes, Lesser, SamePlan, p
  <1> QED BY <1>1, <1>4, <1>5, <1>6, <1>7

\* ChangeChannel, with a copy that is patched and written back.
ChannelWay(k, r, m, t, b) ==
  b.mem.startup # <<3>> =>
    /\ t = b.table
    /\ r <= 2 => m = b.mem
    /\ r = 2 => k.buf = b.mem.nib /\ b.mem.nib # <<>>
    /\ r >= 3 => m = Rechanneled(b.mem, k.op.arg)

\* What was read of an item that takes one request, and where the call goes on.
LEMMA AtRead ==
  ASSUME NEW c, Asking(c), At(c).do = "readAll", ~At(c).try, At(c).item # "addrMgr"
  PROVE  device' = device /\ (Over(c) \/ (sound' = sound /\ (Stays(c) \/ HasRead(c))))
  <1>1. CASE LoseRequest(c) \/ Panic(c)
    BY <1>1, LostIsLost DEF Asking, Lost
  <1>2. CASE ReadLength(c) \/ ReadChunk(c)
    BY <1>2, ReadsAtOnce DEF Asking, ReadLength, ReadChunk, Reads
  <1> QED BY <1>1, <1>2, StageDoes

\* The channel in a copy of the network information.
LEMMA PatchedIsMoved ==
  ASSUME NEW m, MemTyped(m), Len(m.nib) = NibSize, NEW ch
  PROVE  [m EXCEPT !.nib = [m.nib EXCEPT ![ChannelAt] = ch]] = Moved(m, ch)
  <1>1. m.nib \in Seq(Int) /\ DOMAIN m.nib = 1..Len(m.nib)
    BY ItemsThere DEF MemTyped
  <1>2. [m.nib EXCEPT ![ChannelAt] = ch] = [i \in 1..Len(m.nib) |-> IF i = ChannelAt THEN ch ELSE m.nib[i]]
    BY <1>1, SizesAreSane
  <1> QED BY <1>2 DEF Moved

\* ChangeChannel with a restart.
LEMMA ChannelSteps ==
  ASSUME NEW c, Asking(c), call[c].plan = ChangeChannel(call[c].op.arg, FALSE),
         ChannelWay(call[c], call[c].at, mem, table, before[c])
  PROVE  Over(c) \/ (SamePlan(c) /\ ChannelWay(call'[c], Reached(call'[c], pc'[c]), mem', table', before[c]))
  <1> DEFINE ch == call[c].op.arg
             p == call[c].plan
             old == before[c].mem
  <1>1. /\ Len(p) = 3 /\ p[1] = NvReadAll("nib") /\ p[2] = Stage("writeBack", "nib", <<ch>>, FALSE) /\ p[3] = Reset
        /\ At(c) = p[call[c].at] /\ call[c].at \in {1, 2, 3}
    <2>1. p = <<NvReadAll("nib"), Stage("writeBack", "nib", <<ch>>, FALSE), Reset>>
      BY DEF ChangeChannel
    <2>2. call[c].at \in 1..Len(p) /\ At(c) = p[call[c].at]
      BY ReadyParts DEF Asking, At
    <2> HIDE DEF p, ch
    <2>3. Len(p) = 3 /\ p[1] = NvReadAll("nib") /\ p[2] = Stage("writeBack", "nib", <<ch>>, FALSE) /\ p[3] = Reset
      BY <2>1
    <2>4. call[c].at \in {1, 2, 3}
      BY <2>2, <2>3
    <2> QED BY <2>2, <2>3, <2>4
  <1>2. MemTyped(mem) /\ mem.nib \in Seq(Int) /\ Len(mem.nib) \in {0, NibSize} /\ pc[c] = "run"
    BY ReadyParts, ItemsThere DEF Asking, MemTyped
  <1> HIDE DEF ch, p
  <1>3. CASE call[c].at = 1
    <2>1. At(c).do = "readAll" /\ At(c).item = "nib" /\ ~At(c).try
      BY <1>1, <1>3 DEF NvReadAll, Stage
    <2>2. device' = device /\ (Over(c) \/ Stays(c) \/ HasRead(c))
      BY <2>1, AtRead
    <2>3. CASE Stays(c)
      <3>1. Reached(call'[c], pc'[c]) = 1 /\ SamePlan(c)
        BY <1>2, <1>3, <2>3 DEF Stays, SameFields, Reached, SamePlan
      <3> QED BY <1>3, <2>2, <3>1 DEF ChannelWay, device
    <2>4. CASE HasRead(c)
      <3>1. PICK k : /\ SameFields(k, call[c]) /\ k.buf = mem.nib
                     /\ Told(k, "nib").op = k.op /\ Told(k, "nib").plan = k.plan /\ Told(k, "nib").at = k.at /\ Told(k, "nib").buf = k.buf
                     /\ Gets(c, Told(k, "nib"), Skip(k))
        BY <2>1, <2>4 DEF HasRead
      <3>6. SameFields(k, call[c])
        BY <3>1
      <3>0. k.at = 1 /\ k.plan = p /\ Len(p) + 1 = 4 /\ k.op = call[c].op
        <4>1. k.at = 1
          BY <1>3, <3>6 DEF SameFields
        <4>2. k.plan = p
          BY <3>6 DEF SameFields, p
        <4>3. Len(p) + 1 = 4
          BY <1>1
        <4>4. k.op = call[c].op
          BY <3>6 DEF SameFields
        <4> QED BY <4>1, <4>2, <4>3, <4>4
      <3>2. SamePlan(c) /\ call'[c].buf = mem.nib /\ Reached(call'[c], pc'[c]) = Lesser(1 + Skip(k), 4)
        BY <3>0, <3>1 DEF Gets, SamePlan, p
      <3>3. Skip(k) = IF Len(mem.nib) >= ChannelAt THEN 1 ELSE 2
        <4>1. After(k) = p[2]
          <5>0. Len(k.plan) = 3
            BY <1>1, <3>0
          <5>1. After(k) = k.plan[2]
            BY <3>0, <5>0 DEF After
          <5> QED BY <3>0, <5>1
        <4> QED BY <1>1, <3>1, <4>1 DEF Skip, Needed, Stage
      <3>4. CASE Len(mem.nib) = NibSize
        <4>1. Skip(k) = 1 /\ mem.nib # <<>>
          BY <3>3, <3>4, SizesAreSane
        <4>2. Reached(call'[c], pc'[c]) = 2
          BY <3>2, <4>1 DEF Lesser
        <4> QED BY <1>3, <2>2, <3>2, <4>1, <4>2 DEF ChannelWay, device
      <3>5. CASE Len(mem.nib) = 0
        <4>1. Skip(k) = 2 /\ mem.nib = <<>>
          BY <1>2, <3>3, <3>5, SizesAreSane, EmptySeq
        <4>2. Reached(call'[c], pc'[c]) = 3
          BY <3>2, <4>1 DEF Lesser
        <4> QED BY <1>3, <2>2, <3>2, <4>1, <4>2 DEF ChannelWay, Rechanneled, device
      <3> QED BY <1>2, <3>4, <3>5
    <2> QED BY <2>2, <2>3, <2>4
  <1>4. CASE call[c].at = 2
    <2>1. At(c).do = "writeBack" /\ At(c).item = "nib" /\ At(c).data[1] = ch /\ ~At(c).try
      BY <1>1, <1>4 DEF Stage
    <2>2. DataOf(c) = [call[c].buf EXCEPT ![ChannelAt] = ch]
      BY <2>1 DEF DataOf, Patched
    <2>3. Over(c) \/ (Len(mem.nib) = NibSize /\ mem' = [mem EXCEPT !.nib = DataOf(c)] /\ table' = table /\ Goes(c))
      BY <2>1, AtWrite, ItemsThere DEF Fails, Serves, Lost
    <2>4. ASSUME Len(mem.nib) = NibSize, mem' = [mem EXCEPT !.nib = DataOf(c)], table' = table, Goes(c), old.startup # << 3 >>
          PROVE  mem' = Rechanneled(old, ch) /\ table' = before[c].table
      <3>1. mem = old /\ table = before[c].table /\ call[c].buf = mem.nib /\ mem.nib # <<>>
        BY <1>4, <2>4 DEF ChannelWay
      <3>2. mem' = Moved(mem, ch)
        BY <1>2, <2>2, <2>4, <3>1, PatchedIsMoved
      <3> QED BY <2>4, <3>1, <3>2 DEF Rechanneled
    <2>5. Goes(c) => Reached(call'[c], pc'[c]) = 3 /\ SamePlan(c) /\ call'[c].op.arg = ch
      BY <1>1, <1>4 DEF Goes, Lesser, SamePlan, p, ch
    <2> QED BY <2>3, <2>4, <2>5 DEF ChannelWay
  <1>5. CASE call[c].at = 3
    <2>1. At(c).do = "reset" /\ ~At(c).try
      BY <1>1, <1>5 DEF Reset, Command, Stage
    <2>2. Over(c) \/ (Restarts /\ Goes(c))
      BY <2>1, AtReset DEF Fails, Serves, Lost
    <2>3. ASSUME old.startup # << 3 >>, Restarts
          PROVE  mem' = mem /\ table' = table
      <3>1. mem = Rechanneled(old, ch)
        BY <1>5, <2>3 DEF ChannelWay, ch
      <3>2. mem.startup = old.startup
        BY <3>1 DEF Rechanneled, Moved
      <3> QED BY <2>3, <3>2 DEF Restarts
    <2>4. Goes(c) => Reached(call'[c], pc'[c]) = 4 /\ SamePlan(c) /\ call'[c].op.arg = ch
      BY <1>1, <1>5 DEF Goes, Lesser, SamePlan, p, ch
    <2> QED BY <1>5, <2>2, <2>3, <2>4 DEF ChannelWay, ch
  <1> QED BY <1>1, <1>3, <1>4, <1>5

\* FormNetwork: the order to clear the state, the settings of a coordinator, the
\* restart, the channel, and the network that the coordinator forms.
FormWay(k, r, m, t, b, s, ch, by, c) ==
  LET asked == WithDefault(k.op.arg)
  IN  /\ m.extAddr = b.mem.extAddr
      /\ r \in 2..6 => m.startup = <<3>>
      /\ r >= 3 => m.type = <<0>>
      /\ s /\ r >= 5 => m.profile = <<4>>
      /\ r >= 6 => m.zdoCb = <<1>>
      /\ r >= 7 => m.startup = <<0>> /\ Parsed(m.addrMgr) = {} /\ Listed(t) = {}
      /\ r >= 8 => ch = asked
      /\ r \in 7..9 => by = Nobody /\ NoNetwork(m)
      /\ r = 10 => (by = c /\ NoNetwork(m)) \/ (by = Nobody /\ m.nib[ChannelAt] = asked)
      /\ r = 11 => by = Nobody /\ m.nib[ChannelAt] = asked

\* A table of emptied entries lists nothing.
LEMMA NothingListed ==
  ASSUME NEW n \in Nat
  PROVE  Listed([i \in 1..n |-> Emptied]) = {}
  <1> DEFINE t == [i \in 1..n |-> Emptied]
  <1>1. Len(t) = n
    OBVIOUS
  <1>2. \A i \in 1..n : ~Good(t[i])
    BY DEF Good, IsEmpty, Emptied
  <1> HIDE DEF t
  <1>3. Listed(t) = {}
    BY <1>1, <1>2 DEF Listed
  <1> QED BY <1>3 DEF t

\* The plan of a formation.
LEMMA FormPlan ==
  ASSUME NEW p, NEW ch, p = FormNetwork(ch)
  PROVE  /\ Len(p) = 10 /\ p[1] = Write("startup", <<3>>) /\ p[2] = Write("type", <<0>>)
         /\ p[3] = Try(NvItemInit("profile", <<4>>)) /\ p[4] = Try(Write("profile", <<4>>)) /\ p[5] = Write("zdoCb", <<1>>)
         /\ p[6] = Reset /\ p[7] = Command("primary", <<WithDefault(ch)>>) /\ p[8] = Command("secondary", <<0>>)
         /\ p[9] = Command("commission", <<>>) /\ p[10] = Command("await", <<>>)
  BY DEF FormNetwork

\* FormNetwork, up to the order to form it.
LEMMA FormSteps ==
  ASSUME NEW c, Asking(c), call[c].plan = FormNetwork(call[c].op.arg),
         FormWay(call[c], call[c].at, mem, table, before[c], c \in sound, mask, forming, c)
  PROVE  Over(c) \/ (SamePlan(c) /\ FormWay(call'[c], Reached(call'[c], pc'[c]), mem', table', before[c], c \in sound', mask', forming', c))
  <1> DEFINE ch == call[c].op.arg
             p == call[c].plan
             asked == WithDefault(ch)
             r == Reached(call'[c], pc'[c])
  <1>1. /\ Len(p) = 10 /\ p[1] = Write("startup", <<3>>) /\ p[2] = Write("type", <<0>>)
        /\ p[3] = Try(NvItemInit("profile", <<4>>)) /\ p[4] = Try(Write("profile", <<4>>)) /\ p[5] = Write("zdoCb", <<1>>)
        /\ p[6] = Reset /\ p[7] = Command("primary", <<asked>>) /\ p[8] = Command("secondary", <<0>>)
        /\ p[9] = Command("commission", <<>>) /\ p[10] = Command("await", <<>>)
        /\ At(c) = p[call[c].at] /\ call[c].at \in 1..9
    <2>1. /\ Len(p) = 10 /\ p[1] = Write("startup", <<3>>) /\ p[2] = Write("type", <<0>>)
          /\ p[3] = Try(NvItemInit("profile", <<4>>)) /\ p[4] = Try(Write("profile", <<4>>)) /\ p[5] = Write("zdoCb", <<1>>)
          /\ p[6] = Reset /\ p[7] = Command("primary", <<asked>>) /\ p[8] = Command("secondary", <<0>>)
          /\ p[9] = Command("commission", <<>>) /\ p[10] = Command("await", <<>>)
      BY FormPlan
    <2>2. call[c].at \in 1..Len(p) /\ At(c) = p[call[c].at] /\ Going(call[c]) = At(c)
      BY ReadyParts DEF Asking, At
    <2>3. At(c).do # "await"
      BY <2>2, ReadyParts DEF Asking, CallTyped, Waits
    <2> HIDE DEF p, asked
    <2>4. p[10].do = "await"
      BY <2>1 DEF Command, Stage
    <2> QED BY <2>1, <2>2, <2>3, <2>4
  <1>2. MemTyped(mem) /\ DOMAIN mem = Items /\ table \in Seq(Seq(Int)) /\ Len(table) \in Nat
    BY ReadyParts, MemDomain, LenProperties DEF Asking, Ready, Typed
  <1>3. Goes(c) => r = call[c].at + 1 /\ SamePlan(c) /\ WithDefault(call'[c].op.arg) = asked
    BY <1>1 DEF Goes, Lesser, SamePlan
  <1> HIDE DEF ch, p, asked, r
  <1>4. SUFFICES ASSUME ~Over(c)
                 PROVE  SamePlan(c) /\ FormWay(call'[c], r, mem', table', before[c], c \in sound', mask', forming', c)
    BY DEF r
  <1>5. ASSUME call[c].at \in {1, 2, 5}
        PROVE  /\ Goes(c) /\ sound' = sound /\ table' = table /\ mask' = mask /\ forming' = forming
               /\ mem' = [mem EXCEPT ![At(c).item] = At(c).data]
               /\ At(c).item = (CASE call[c].at = 1 -> "startup" [] call[c].at = 2 -> "type" [] call[c].at = 5 -> "zdoCb")
               /\ At(c).data = (CASE call[c].at = 1 -> <<3>> [] call[c].at = 2 -> <<0>> [] call[c].at = 5 -> <<1>>)
    <2>1. /\ At(c).do = "write" /\ ~At(c).try /\ DataOf(c) = At(c).data
          /\ At(c).item = (CASE call[c].at = 1 -> "startup" [] call[c].at = 2 -> "type" [] call[c].at = 5 -> "zdoCb")
          /\ At(c).data = (CASE call[c].at = 1 -> <<3>> [] call[c].at = 2 -> <<0>> [] call[c].at = 5 -> <<1>>)
      BY <1>1, <1>5 DEF Write, Stage, DataOf
    <2>2. At(c).item # "addrMgr"
      BY <1>5, <2>1
    <2> QED BY <1>4, <2>1, <2>2, AtWrite DEF Fails, Serves, Lost
  <1>6. CASE call[c].at = 1
    BY <1>2, <1>3, <1>5, <1>6, ItemsThere DEF FormWay
  <1>7. CASE call[c].at = 2
    BY <1>2, <1>3, <1>5, <1>7, ItemsThere DEF FormWay
  <1>8. CASE call[c].at = 3
    <2>1. At(c).do = "init" /\ At(c).item = "profile"
      BY <1>1, <1>8 DEF NvItemInit, Stage, Try
    <2>2. Goes(c) /\ table' = table /\ \A i \in Items : i # "profile" => mem'[i] = mem[i]
      BY <1>2, <1>4, <2>1, AtInit DEF Fails, Serves, Lost, device
    <2> QED BY <1>3, <1>8, <2>2, ItemsThere DEF FormWay
  <1>9. CASE call[c].at = 4
    <2>1. At(c).do = "write" /\ At(c).item = "profile" /\ DataOf(c) = <<4>>
      BY <1>1, <1>9 DEF Write, Stage, Try, DataOf
    <2>2. Fails(c) \/ (mem' = [mem EXCEPT !.profile = <<4>>] /\ table' = table /\ Serves(c))
      BY <2>1, AtWrite
    <2>3. /\ Goes(c) /\ table' = table /\ (\A i \in Items : i # "profile" => mem'[i] = mem[i])
          /\ c \in sound' => mem'.profile = <<4>>
      BY <1>2, <1>4, <2>2, ItemsThere DEF Fails, Serves, Lost, device
    <2> QED BY <1>3, <1>9, <2>3, ItemsThere DEF FormWay
  <1>10. CASE call[c].at = 5
    <2>1. mem' = [mem EXCEPT !.zdoCb = <<1>>] /\ Goes(c) /\ sound' = sound
      BY <1>5, <1>10
    <2>2. mem'.zdoCb = <<1>> /\ \A i \in {"startup", "type", "profile", "extAddr"} : mem'[i] = mem[i]
      BY <1>2, <2>1, ItemsThere
    <2>3. r = 6 /\ SamePlan(c)
      BY <1>3, <1>10, <2>1
    <2> QED BY <1>10, <2>1, <2>2, <2>3 DEF FormWay
  <1>11. CASE call[c].at = 6
    <2>1. At(c).do = "reset" /\ ~At(c).try
      BY <1>1, <1>11 DEF Reset, Command, Stage
    <2>2. Restarts /\ Goes(c) /\ sound' = sound
      BY <1>4, <2>1, AtReset DEF Fails, Serves, Lost
    <2>3. mem.startup = <<3>> /\ Len(mem.startup) = 1
      BY <1>11 DEF FormWay
    <2>4. mem' = Cleared(mem) /\ table' = [i \in 1..Len(table) |-> Emptied] /\ forming' = Nobody
      BY <2>2, <2>3 DEF Restarts
    <2>5. /\ mem'.startup = <<0>> /\ Parsed(mem'.addrMgr) = {} /\ NoNetwork(mem')
          /\ \A i \in {"type", "profile", "zdoCb", "altKey", "extAddr", "power"} : mem'[i] = mem[i]
      BY <1>2, <2>3, <2>4, ClearedMemory
    <2>6. Listed(table') = {}
      BY <1>2, <2>4, NothingListed
    <2>7. r = 7 /\ SamePlan(c)
      BY <1>3, <1>11, <2>2
    <2> QED BY <1>11, <2>2, <2>4, <2>5, <2>6, <2>7 DEF FormWay
  <1>12. CASE call[c].at \in {7, 8}
    <2>1. /\ At(c).do = (IF call[c].at = 7 THEN "primary" ELSE "secondary") /\ ~At(c).try
          /\ call[c].at = 7 => At(c).data[1] = asked
      BY <1>1, <1>12 DEF Command, Stage
    <2>2. /\ mem' = mem /\ table' = table /\ forming' = forming /\ Goes(c) /\ sound' = sound
          /\ mask' = IF At(c).do = "primary" THEN At(c).data[1] ELSE mask
      BY <1>4, <2>1, AtChannel DEF Fails, Serves, Lost
    <2>3. mask' = asked
      BY <1>12, <2>1, <2>2 DEF FormWay, asked, ch
    <2> QED BY <1>3, <1>12, <2>2, <2>3 DEF FormWay
  <1>13. CASE call[c].at = 9
    <2>1. At(c).do = "commission" /\ ~At(c).try
      BY <1>1, <1>13 DEF Command, Stage
    <2>2. mem' = mem /\ table' = table /\ mask' = mask /\ forming' = c /\ Goes(c) /\ sound' = sound
      BY <1>4, <2>1, AtCommission DEF Fails, Serves, Lost
    <2> QED BY <1>3, <1>13, <2>2 DEF FormWay, asked, ch
  <1>14. call[c].at \in {1, 2, 3, 4, 5, 6, 7, 8, 9}
    BY <1>1
  <1> QED BY <1>6, <1>7, <1>8, <1>9, <1>10, <1>11, <1>12, <1>13, <1>14

-----------------------------------------------------------------------------
(***************************************************************************)
(* The table of devices                                                    *)
(***************************************************************************)
\* The table of devices is read in order, as far as the offsets go.
ReadSoFar(k, cells) ==
  Fits(Len(cells)) =>
    /\ k.total = Unknown => k.off = 0 /\ k.done = 0
    /\ k.total # Unknown => /\ k.total = Len(cells) /\ k.done < k.total /\ Aligned(k)
                            /\ Len(k.buf) = k.done /\ \A i \in 1..k.done : k.buf[i] = cells[i]

\* It has been read to its end.
HasReadDevices(c) ==
  \E k : /\ SameFields(k, call[c]) /\ (Fits(Len(mem.addrMgr)) => k.buf = mem.addrMgr)
         /\ LET l == Told(k, "addrMgr")
            IN  l.op = k.op /\ l.plan = k.plan /\ l.at = k.at /\ l.buf = k.buf /\ l.out = [k.out EXCEPT !.devs = Parsed(k.buf)]
         /\ Gets(c, Told(k, "addrMgr"), Skip(k))

\* A full chunk leads to the next one, if the offsets reach that far.
LEMMA NextChunk ==
  ASSUME NEW n \in Nat, Fits(n), NEW k, k.done \in Nat, Aligned(k), NEW l,
         l.done = k.done + Chunk, l.off = NextOffset(k.off, Chunk), l.done < n
  PROVE  Aligned(l) /\ l.done \in Nat
  <1>1. PICK j \in 0..k.done : k.done = Chunk * j
    BY DEF Aligned
  <1>2. Chunk \in Nat /\ Chunk > 0 /\ j \in Nat /\ j + 1 \in Nat
    BY SizesAreSane
  <1>3. l.done = Chunk * (j + 1)
    BY <1>1, <1>2
  <1>4. l.done % OffsetMod = l.done
    BY <1>2, <1>3, ChunksFit
  <1>5. l.off = l.done
    BY <1>4 DEF NextOffset, Aligned
  <1>6. j + 1 <= Chunk * (j + 1)
    BY <1>2
  <1> QED BY <1>2, <1>3, <1>5, <1>6 DEF Aligned

\* The table of devices has been read to its end.
LEMMA WholeDevices ==
  ASSUME NEW c, Ready(c), At(c).do = "readAll", At(c).item = "addrMgr", NEW k, FieldsTyped(k), SameStage(k, call[c]), Whole(c, k),
         k.out = call[c].out, Fits(Len(mem.addrMgr)) => k.buf = mem.addrMgr
  PROVE  HasReadDevices(c)
  <1>1. Gets(c, Told(k, "addrMgr"), Skip(k))
    BY WholeSettles
  <1>2. LET l == Told(k, "addrMgr")
        IN  l.op = k.op /\ l.plan = k.plan /\ l.at = k.at /\ l.buf = k.buf /\ l.out = [k.out EXCEPT !.devs = Parsed(k.buf)]
    BY ToldTyped
  <1>3. SameFields(k, call[c])
    BY DEF SameStage, SameFields
  <1> QED BY <1>1, <1>2, <1>3 DEF HasReadDevices

\* The length of the table of devices is asked for.
LEMMA DevicesLength ==
  ASSUME NEW c, Ready(c), ReadLength(c), At(c).item = "addrMgr", ReadSoFar(call[c], mem.addrMgr)
  PROVE  (Stays(c) /\ ReadSoFar(call'[c], mem.addrMgr)) \/ HasReadDevices(c)
  <1> DEFINE k == call[c]
             cells == mem.addrMgr
             l == [k EXCEPT !.buf = <<>>, !.total = Len(cells)]
  <1>1. At(c).do = "readAll" /\ k.total = Unknown /\ (IF Len(cells) = 0 THEN Whole(c, l) ELSE Continue(c, l))
    BY DEF ReadLength, Asks
  <1>2. cells \in Seq(Int) /\ Len(cells) \in Nat
    BY ReadyParts, ItemsThere, LenProperties DEF MemTyped
  <1>3. /\ l.buf = <<>> /\ l.total = Len(cells) /\ l.out = k.out /\ SameStage(l, k) /\ l.off = k.off /\ l.done = k.done
    BY ReadyParts DEF SameStage, Fields
  <1> HIDE DEF l
  <1>4. FieldsTyped(l)
    BY <1>2, <1>3, ReadyParts DEF FieldsTyped, SameStage
  <1>5. CASE Len(cells) = 0
    <2>1. l.buf = cells
      BY <1>2, <1>3, <1>5, EmptySeq
    <2> QED BY <1>1, <1>3, <1>4, <1>5, <2>1, WholeDevices
  <1>6. CASE Len(cells) # 0
    <2>1. pc'[c] = pc[c] /\ call'[c] = l
      BY <1>1, <1>6, ReadyParts DEF Continue
    <2>2. SameFields(l, k)
      BY <1>3 DEF SameFields, SameStage
    <2>3. ReadSoFar(l, cells)
      <3>1. Fits(Len(cells)) => l.off = 0 /\ l.done = 0
        BY <1>1, <1>3 DEF ReadSoFar
      <3>2. l.off = 0 /\ l.done = 0 => Aligned(l)
        BY SizesAreSane DEF Aligned
      <3>3. Len(l.buf) = 0
        BY <1>3
      <3> QED BY <1>2, <1>3, <1>6, <3>1, <3>2, <3>3 DEF ReadSoFar
    <2> QED BY <2>1, <2>2, <2>3 DEF Stays
  <1> QED BY <1>5, <1>6

\* One more chunk of it is read.
LEMMA DevicesChunk ==
  ASSUME NEW c, Ready(c), ReadChunk(c), At(c).item = "addrMgr", ReadSoFar(call[c], mem.addrMgr)
  PROVE  (Stays(c) /\ ReadSoFar(call'[c], mem.addrMgr)) \/ HasReadDevices(c)
  <1> DEFINE k == call[c]
             cells == mem.addrMgr
             chunk == Piece(cells, k.off)
             buf == k.buf \o chunk
             more == SubSeq(buf, 1, Lesser(Len(buf), k.total))
             l == [k EXCEPT !.buf = more, !.done = @ + Len(chunk), !.off = NextOffset(@, Len(chunk))]
  <1>1. At(c).do = "readAll" /\ k.total # Unknown /\ (IF l.done >= k.total THEN Whole(c, l) ELSE Continue(c, l))
    BY DEF ReadChunk, Asks
  <1>2. /\ cells \in Seq(Int) /\ Len(cells) \in Nat /\ k.off \in Nat /\ k.done \in Nat /\ k.buf \in Seq(Int) /\ k.total \in Nat
        /\ FieldsTyped(k)
    BY <1>1, ReadyParts, ItemsThere, LenProperties DEF MemTyped, FieldsTyped
  <1>3. chunk \in Seq(Int) /\ Len(chunk) \in Nat
    BY <1>2, PartOf, LenProperties DEF Piece
  <1>4. more \in Seq(Int)
    <2> HIDE DEF chunk
    <2> QED BY <1>2, <1>3, BufTyped
  <1>5. Fits(Len(cells)) => OneMore(more, k.buf, cells, k.off, k.done)
    <2> SUFFICES ASSUME Fits(Len(cells)) PROVE OneMore(more, k.buf, cells, k.off, k.done)
      OBVIOUS
    <2>1. k.total = Len(cells) /\ k.done < Len(cells) /\ k.off = k.done /\ Len(k.buf) = k.done
      BY <1>1 DEF ReadSoFar, Aligned
    <2>2. more = More(k.buf, cells, k.off)
      BY <2>1 DEF More
    <2> HIDE DEF more
    <2>3. k.off <= k.done
      BY <1>2, <2>1
    <2> QED BY <1>2, <2>1, <2>2, <2>3, OneMoreChunk
  <1> HIDE DEF chunk, buf, more
  <1>6. k.done + Len(chunk) \in Nat /\ NextOffset(k.off, Len(chunk)) \in Nat
    <2>1. k.off + Len(chunk) \in Nat
      BY <1>2, <1>3
    <2>2. (k.off + Len(chunk)) % OffsetMod \in Nat
      BY <2>1, ModIsLess
    <2> QED BY <1>2, <1>3, <2>2 DEF NextOffset
  <1>7. /\ l.buf = more /\ l.done = k.done + Len(chunk) /\ l.off = NextOffset(k.off, Len(chunk)) /\ l.total = k.total
        /\ l.out = k.out /\ SameStage(l, k)
    BY ReadyParts DEF SameStage, Fields
  <1> HIDE DEF l
  <1>8. FieldsTyped(l)
    BY <1>2, <1>4, <1>6, <1>7, ReadyParts DEF FieldsTyped, SameStage
  \* What has been read is the beginning of the table.
  <1>9. Fits(Len(cells)) =>
          /\ k.total = Len(cells) /\ Len(more) = Lesser(l.done, Len(cells))
          /\ \A i \in 1..Len(more) : more[i] = cells[i]
          /\ l.done < Len(cells) => Len(chunk) = Chunk
    <2> SUFFICES ASSUME Fits(Len(cells))
                 PROVE  /\ k.total = Len(cells) /\ Len(more) = Lesser(l.done, Len(cells))
                        /\ \A i \in 1..Len(more) : more[i] = cells[i]
                        /\ l.done < Len(cells) => Len(chunk) = Chunk
      OBVIOUS
    <2>1. k.total = Len(cells) /\ k.off = k.done /\ \A i \in 1..k.done : k.buf[i] = cells[i]
      BY <1>1 DEF ReadSoFar, Aligned
    <2>2. /\ Len(more) = Lesser(l.done, Len(cells))
          /\ \A i \in 1..Len(more) : more[i] = IF i <= k.done THEN k.buf[i] ELSE cells[i]
          /\ l.done < Len(cells) => Len(chunk) = Chunk
      BY <1>5, <1>7, <2>1 DEF OneMore, chunk
    <2>3. \A i \in 1..Len(more) : more[i] = cells[i]
      BY <1>2, <2>1, <2>2
    <2> QED BY <2>1, <2>2, <2>3
  <1>10. CASE l.done >= k.total
    <2>1. Fits(Len(cells)) => l.buf = cells
      <3> SUFFICES ASSUME Fits(Len(cells)) PROVE more = cells
        BY <1>7
      <3>1. Len(more) = Len(cells)
        BY <1>2, <1>6, <1>7, <1>9, <1>10 DEF Lesser
      <3> QED BY <1>2, <1>4, <1>9, <3>1, SeqEqual
    <2> QED BY <1>1, <1>7, <1>8, <1>10, <2>1, WholeDevices
  <1>11. CASE ~(l.done >= k.total)
    <2>1. pc'[c] = pc[c] /\ call'[c] = l
      BY <1>1, <1>11, ReadyParts DEF Continue
    <2>2. SameFields(l, k)
      BY <1>7 DEF SameFields, SameStage
    <2>3. ReadSoFar(l, cells)
      <3> SUFFICES ASSUME Fits(Len(cells)) PROVE ReadSoFar(l, cells)
        BY DEF ReadSoFar
      <3>1. k.total = Len(cells) /\ l.done < Len(cells) /\ Len(chunk) = Chunk /\ l.done \in Nat
        BY <1>2, <1>6, <1>7, <1>9, <1>11
      <3>2. Aligned(k)
        BY <1>1 DEF ReadSoFar
      <3>3. Aligned(l)
        BY <1>2, <1>7, <3>1, <3>2, NextChunk
      <3>4. Len(more) = l.done
        BY <1>2, <1>9, <3>1 DEF Lesser
      <3> QED BY <1>1, <1>7, <1>9, <3>1, <3>3, <3>4 DEF ReadSoFar
    <2> QED BY <2>1, <2>2, <2>3 DEF Stays
  <1> QED BY <1>10, <1>11

\* The table of devices is read on, or the call is over.
LEMMA AtDevices ==
  ASSUME NEW c, Asking(c), At(c).do = "readAll", ~At(c).try, At(c).item = "addrMgr", ReadSoFar(call[c], mem.addrMgr)
  PROVE  /\ device' = device
         /\ Over(c) \/ (sound' = sound /\ ((Stays(c) /\ ReadSoFar(call'[c], mem.addrMgr)) \/ HasReadDevices(c)))
  <1>1. CASE LoseRequest(c) \/ Panic(c)
    BY <1>1, LostIsLost DEF Asking, Lost
  <1>2. CASE ReadLength(c)
    BY <1>2, DevicesLength DEF Asking, ReadLength, Reads
  <1>3. CASE ReadChunk(c)
    BY <1>3, DevicesChunk DEF Asking, ReadChunk, Reads
  <1> QED BY <1>1, <1>2, <1>3, StageDoes

\* All entries of the extended table are looked at.
Short(t) == Len(t) <= MaxSubs

\* The first n entries of the extended table.
ListedTo(t, n) == {t[k] : k \in {i \in 1..n : Good(t[i])}}

\* CreateBackup has read what it got to.
BackupWay(k, r, m, t, b, s) ==
  /\ t = b.table /\ m = b.mem
  /\ r >= 2 => k.out.ieee = m.extAddr
  /\ r >= 4 => k.out.nib = m.nib
  /\ r >= 5 => k.out.key = m.key
  /\ r <= 4 => k.out.devs = {}
  /\ r = 5 => k.off <= Len(t) /\ k.out.devs = ListedTo(t, k.off)
  /\ r = 6 => (s /\ Short(t) => Listed(t) = {}) /\ ReadSoFar(k, m.addrMgr)
  /\ r = 7 /\ s /\ Short(t) /\ Fits(Len(m.addrMgr)) => k.out.devs = IF Listed(t) # {} THEN Listed(t) ELSE Parsed(m.addrMgr)

\* Where a call goes on, in a plan of so many stages.
Onto(c, at, k) ==
  /\ SamePlan(c) /\ call'[c].out = k.out /\ call'[c].buf = k.buf /\ Reached(call'[c], pc'[c]) = at
  /\ at <= Len(call[c].plan) => call'[c].off = 0 /\ call'[c].done = 0 /\ call'[c].total = Unknown

\* The stage the call is at then.
LEMMA Onwards ==
  ASSUME NEW c, NEW k, NEW n, Gets(c, k, n), k.at \in Nat, n \in Nat, k.plan = call[c].plan, k.op = call[c].op,
         Len(call[c].plan) \in Nat
  PROVE  Onto(c, IF k.at + n <= Len(call[c].plan) THEN k.at + n ELSE Len(call[c].plan) + 1, k)
  <1> DEFINE len == Len(call[c].plan)
             at == IF k.at + n <= len THEN k.at + n ELSE len + 1
  <1>1. SamePlan(c) /\ call'[c].out = k.out /\ call'[c].buf = k.buf
    BY DEF Gets, SamePlan
  <1>2. Reached(call'[c], pc'[c]) = at
    <2>1. Reached(call'[c], pc'[c]) = Lesser(k.at + n, len + 1)
      BY DEF Gets
    <2> QED BY <2>1 DEF Lesser
  <1>3. ASSUME at <= len
        PROVE  call'[c].off = 0 /\ call'[c].done = 0 /\ call'[c].total = Unknown
    <2>1. pc'[c] = "done" => Reached(call'[c], pc'[c]) = len + 1
      BY DEF Gets, Reached
    <2>2. pc'[c] # "done"
      BY <1>2, <1>3, <2>1
    <2> QED BY <2>2 DEF Gets
  <1> QED BY <1>1, <1>2, <1>3 DEF Onto

\* A transfer that begins has read nothing yet.
LEMMA NothingRead ==
  ASSUME NEW k, k.off = 0, k.done = 0, k.total = Unknown, NEW cells
  PROVE  ReadSoFar(k, cells)
  BY DEF ReadSoFar

\* CreateBackup.
LEMMA BackupSteps ==
  ASSUME NEW c, Asking(c), call[c].plan = CreateBackup, BackupWay(call[c], call[c].at, mem, table, before[c], c \in sound)
  PROVE  Over(c) \/ (SamePlan(c) /\ BackupWay(call'[c], Reached(call'[c], pc'[c]), mem', table', before[c], c \in sound'))
  <1> DEFINE p == call[c].plan
             k == call[c]
             r == Reached(call'[c], pc'[c])
  <1>1. /\ Len(p) = 6 /\ p[1] = Command("deviceInfo", <<>>) /\ p[2] = Command("nwkInfo", <<>>) /\ p[3] = NvReadAll("nib")
        /\ p[4] = NvReadAll("key") /\ p[5] = Command("exRead", <<>>) /\ p[6] = NvReadAll("addrMgr")
        /\ At(c) = p[k.at] /\ k.at \in {1, 2, 3, 4, 5, 6}
    <2>1. /\ Len(p) = 6 /\ p[1] = Command("deviceInfo", <<>>) /\ p[2] = Command("nwkInfo", <<>>) /\ p[3] = NvReadAll("nib")
          /\ p[4] = NvReadAll("key") /\ p[5] = Command("exRead", <<>>) /\ p[6] = NvReadAll("addrMgr")
      BY BackupTyped
    <2>2. k.at \in 1..Len(p) /\ At(c) = p[k.at]
      BY ReadyParts DEF Asking, At
    <2>3. k.at \in {1, 2, 3, 4, 5, 6}
      BY <2>1, <2>2
    <2> QED BY <2>1, <2>2, <2>3
  <1>2. DOMAIN k = Fields /\ DOMAIN k.out = Outs /\ k.off \in Nat /\ pc[c] = "run" /\ Len(table) \in Nat
    BY ReadyParts, LenProperties DEF Asking, FieldsTyped, Ready, Typed
  <1>3. Len(call[c].plan) = 6 /\ Len(call[c].plan) \in Nat /\ 1 \in Nat /\ 2 \in Nat
    BY <1>1
  <1> HIDE DEF p, r
  <1>4. SUFFICES ASSUME ~Over(c)
                 PROVE  SamePlan(c) /\ BackupWay(call'[c], r, mem', table', before[c], c \in sound')
    BY DEF r
  <1>5. ASSUME k.at \in {1, 2}
        PROVE  /\ device' = device /\ SamePlan(c) /\ r = k.at + 1
               /\ call'[c].out = IF k.at = 1 THEN [k.out EXCEPT !.ieee = mem.extAddr] ELSE k.out
    <2>1. At(c).do = (IF k.at = 1 THEN "deviceInfo" ELSE "nwkInfo") /\ ~At(c).try
      BY <1>1, <1>5 DEF Command, Stage
    <2> DEFINE l == IF At(c).do = "deviceInfo" THEN [k EXCEPT !.out.ieee = mem.extAddr] ELSE k
    <2>2. ~(LoseRequest(c) \/ Panic(c))
      BY <1>4, <2>1, LostIsLost DEF Asking, Lost
    <2>3. device' = device /\ Gets(c, l, 1)
      BY <2>1, <2>2, StageDoes, InfoGets DEF Asking
    <2>4. l.op = k.op /\ l.plan = k.plan /\ l.at = k.at /\ l.out = IF k.at = 1 THEN [k.out EXCEPT !.ieee = mem.extAddr] ELSE k.out
      BY <1>2, <2>1 DEF Fields
    <2> HIDE DEF l
    <2>5. SamePlan(c) /\ call'[c].out = l.out /\ r = k.at + 1
      <3>0. l.at \in Nat
        BY <1>5, <2>4
      <3>1. Onto(c, IF l.at + 1 <= Len(k.plan) THEN l.at + 1 ELSE Len(k.plan) + 1, l)
        BY <1>3, <2>3, <2>4, <3>0, Onwards
      <3> QED BY <1>3, <1>5, <2>4, <3>1 DEF Onto, r
    <2> QED BY <2>3, <2>4, <2>5
  <1>6. ASSUME k.at \in {3, 4}
        PROVE  /\ device' = device /\ SamePlan(c)
               /\ \/ r = k.at /\ call'[c].out = k.out
                  \/ /\ r = k.at + 1 /\ call'[c].off = 0
                     /\ call'[c].out = IF k.at = 3 THEN [k.out EXCEPT !.nib = mem.nib] ELSE [k.out EXCEPT !.key = mem.key]
    <2>1. At(c).do = "readAll" /\ At(c).item = (IF k.at = 3 THEN "nib" ELSE "key") /\ ~At(c).try
      BY <1>1, <1>6 DEF NvReadAll, Stage
    <2>2. device' = device /\ (Stays(c) \/ HasRead(c))
      BY <1>4, <2>1, AtRead
    <2>3. CASE Stays(c)
      BY <1>2, <2>2, <2>3 DEF Stays, SameFields, Reached, SamePlan, r
    <2>4. CASE HasRead(c)
      <3> DEFINE it == At(c).item
      <3>1. PICK l : /\ SameFields(l, k) /\ l.buf = mem[it]
                     /\ Told(l, it).out = (IF it = "nib" THEN [l.out EXCEPT !.nib = l.buf] ELSE [l.out EXCEPT !.key = l.buf])
                     /\ Told(l, it).op = l.op /\ Told(l, it).plan = l.plan /\ Told(l, it).at = l.at
                     /\ Gets(c, Told(l, it), Skip(l))
        BY <2>4 DEF HasRead
      <3>2. l.plan = call[c].plan /\ l.at = k.at /\ l.op = k.op /\ l.out = k.out
        BY <3>1 DEF SameFields
      <3>3. After(l).do \in {"readAll", "exRead"}
        <4>1. After(l) = call[c].plan[k.at + 1]
          <5>1. k.at \in Nat /\ k.at < 6 /\ Len(l.plan) = 6
            BY <1>3, <1>6, <3>2
          <5>2. After(l) = l.plan[l.at + 1]
            BY <3>2, <5>1 DEF After
          <5> QED BY <3>2, <5>2
        <4> QED BY <1>1, <1>6, <4>1 DEF NvReadAll, Command, Stage, p
      <3>4. Skip(l) = 1
        BY <3>3 DEF Skip
      <3>5. /\ SamePlan(c) /\ call'[c].out = Told(l, it).out /\ r = k.at + 1
            /\ call'[c].off = 0
        <4>1. Told(l, it).plan = k.plan /\ Told(l, it).op = k.op /\ Told(l, it).at = k.at
          BY <1>3, <3>1, <3>2
        <4> DEFINE n == Told(l, it)
        <4>2. Gets(c, n, 1) /\ n.at \in Nat
          BY <1>6, <3>1, <3>4, <4>1
        <4> HIDE DEF n
        <4>3. Onto(c, IF n.at + 1 <= Len(k.plan) THEN n.at + 1 ELSE Len(k.plan) + 1, n)
          <5>1. n.plan = k.plan /\ n.op = k.op
            BY <4>1 DEF n
          <5> QED BY <1>3, <4>2, <5>1, Onwards
        <4> QED BY <1>3, <1>6, <4>1, <4>3 DEF Onto, r, n
      <3>7. Told(l, it).out = IF k.at = 3 THEN [k.out EXCEPT !.nib = mem.nib] ELSE [k.out EXCEPT !.key = mem.key]
        BY <1>6, <2>1, <3>1, <3>2
      <3> QED BY <2>2, <3>5, <3>7
    <2> QED BY <2>2, <2>3, <2>4
  <1>7. CASE k.at = 1
    BY <1>2, <1>5, <1>7 DEF BackupWay, Outs, device
  <1>8. CASE k.at = 2
    BY <1>2, <1>5, <1>8 DEF BackupWay, Outs, device
  <1>9. CASE k.at = 3
    BY <1>2, <1>6, <1>9 DEF BackupWay, Outs, device
  <1>10. CASE k.at = 4
    <2>1. ListedTo(table, 0) = {}
      BY DEF ListedTo
    <2>2. CASE r = 4 /\ call'[c].out = k.out
      BY <1>6, <1>10, <2>2 DEF BackupWay, device
    <2>3. CASE r = 5 /\ call'[c].off = 0 /\ call'[c].out = [k.out EXCEPT !.key = mem.key]
      <3>1. /\ call'[c].out.ieee = k.out.ieee /\ call'[c].out.nib = k.out.nib /\ call'[c].out.devs = k.out.devs
            /\ call'[c].out.key = mem.key
        BY <1>2, <2>3 DEF Outs
      <3>2. device' = device /\ SamePlan(c)
        BY <1>6, <1>10
      <3>3. mem = before[c].mem /\ table = before[c].table /\ k.out.ieee = mem.extAddr /\ k.out.nib = mem.nib /\ k.out.devs = {}
        BY <1>10 DEF BackupWay
      <3>4. 0 <= Len(table)
        BY <1>2
      <3>5. mem' = mem /\ table' = table /\ call'[c].out.devs = ListedTo(table, call'[c].off)
        BY <2>1, <2>3, <3>1, <3>2, <3>3 DEF device
      <3> QED BY <2>3, <3>1, <3>2, <3>3, <3>4, <3>5 DEF BackupWay
    <2> QED BY <1>6, <1>10, <2>2, <2>3
  <1>11. CASE k.at = 5
    <2>1. At(c).do = "exRead" /\ ~At(c).try
      BY <1>1, <1>11 DEF Command, Stage
    <2>2. CASE LoseRequest(c) \/ Panic(c)
      <3> DEFINE l == [k EXCEPT !.out.devs = {}]
      <3>1. device' = device /\ Gets(c, l, 1) /\ c \notin sound'
        BY <1>4, <2>2, LostIsLost DEF Asking, Missed
      <3>2. l.op = k.op /\ l.plan = k.plan /\ l.at = 5 /\ l.out = [k.out EXCEPT !.devs = {}]
        BY <1>2, <1>11 DEF Fields
      <3> HIDE DEF l
      <3>3. SamePlan(c) /\ call'[c].out = l.out /\ r = 6 /\ call'[c].off = 0 /\ call'[c].done = 0 /\ call'[c].total = Unknown
        <4>1. Onto(c, IF l.at + 1 <= Len(k.plan) THEN l.at + 1 ELSE Len(k.plan) + 1, l)
          <5>1. l.at \in Nat
            BY <3>2
          <5> QED BY <1>3, <3>1, <3>2, <5>1, Onwards
        <4> QED BY <1>3, <3>2, <4>1 DEF Onto, r
      <3>5. ReadSoFar(call'[c], mem.addrMgr)
        BY <3>3, NothingRead
      <3> QED BY <1>2, <1>11, <3>1, <3>2, <3>3, <3>5 DEF BackupWay, Outs, device
    <2>3. CASE ReadEntry(c)
      <3> DEFINE i == k.off + 1
                 there == i <= Len(table) /\ i <= MaxSubs
      <3>1. /\ device' = device /\ sound' = sound
            /\ there => /\ pc'[c] = pc[c]
                        /\ call'[c] = [k EXCEPT !.off = i, !.out.devs = IF Good(table[i]) THEN @ \cup {table[i]} ELSE @]
            /\ ~there => Gets(c, k, IF k.out.devs = {} THEN 1 ELSE 2)
        BY <2>3, ReadEntryGets DEF Asking
      <3>2. k.out.devs = ListedTo(table, k.off) /\ k.off <= Len(table)
        BY <1>11 DEF BackupWay
      <3>3. CASE there
        <4>1. /\ SamePlan(c) /\ r = 5 /\ call'[c].off = i
              /\ call'[c].out = [k.out EXCEPT !.devs = IF Good(table[i]) THEN @ \cup {table[i]} ELSE @]
          BY <1>2, <1>11, <3>1, <3>3 DEF SamePlan, Reached, r, Fields
        <4>2. ListedTo(table, i) = IF Good(table[i]) THEN ListedTo(table, k.off) \cup {table[i]} ELSE ListedTo(table, k.off)
          <5>1. 1..i = (1..k.off) \cup {i}
            BY <1>2
          <5> QED BY <5>1 DEF ListedTo
        <4>3. call'[c].out.devs = ListedTo(table, i)
          BY <1>2, <3>2, <4>1, <4>2 DEF Outs
        <4> QED BY <1>2, <1>11, <3>1, <3>3, <4>1, <4>3 DEF BackupWay, Outs, device
      <3>4. CASE ~there
        <4>1. Short(table) => ListedTo(table, k.off) = Listed(table)
          <5>1. Short(table) => k.off = Len(table)
            BY <1>2, <3>2, <3>4, SizesAreSane DEF Short
          <5> QED BY <5>1 DEF ListedTo, Listed
        <4>2. CASE k.out.devs = {}
          <5>1. SamePlan(c) /\ call'[c].out = k.out /\ r = 6 /\ call'[c].off = 0 /\ call'[c].done = 0 /\ call'[c].total = Unknown
            <6>1. Onto(c, IF k.at + 1 <= Len(k.plan) THEN k.at + 1 ELSE Len(k.plan) + 1, k)
              <7>1. k.at \in Nat /\ Gets(c, k, 1)
                BY <1>11, <3>1, <3>4, <4>2
              <7> QED BY <1>3, <7>1, Onwards
            <6> QED BY <1>3, <1>11, <6>1 DEF Onto, r
          <5>2. ReadSoFar(call'[c], mem.addrMgr)
            BY <5>1, NothingRead
          <5> QED BY <1>11, <3>1, <3>2, <4>1, <4>2, <5>1, <5>2 DEF BackupWay, device
        <4>3. CASE k.out.devs # {}
          <5>1. SamePlan(c) /\ call'[c].out = k.out /\ r = 7
            <6>1. Onto(c, IF k.at + 2 <= Len(k.plan) THEN k.at + 2 ELSE Len(k.plan) + 1, k)
              <7>1. k.at \in Nat /\ Gets(c, k, 2)
                BY <1>11, <3>1, <3>4, <4>3
              <7> QED BY <1>3, <7>1, Onwards
            <6> QED BY <1>3, <1>11, <6>1 DEF Onto, r
          <5> QED BY <1>11, <3>1, <3>2, <4>1, <4>3, <5>1 DEF BackupWay, device
        <4> QED BY <4>2, <4>3
      <3> QED BY <3>3, <3>4
    <2> QED BY <2>1, <2>2, <2>3, StageDoes
  <1>12. CASE k.at = 6
    <2>1. At(c).do = "readAll" /\ At(c).item = "addrMgr" /\ ~At(c).try
      BY <1>1, <1>12 DEF NvReadAll, Stage
    <2>2. ReadSoFar(k, mem.addrMgr)
      BY <1>12 DEF BackupWay
    <2>3. device' = device /\ sound' = sound /\ ((Stays(c) /\ ReadSoFar(call'[c], mem.addrMgr)) \/ HasReadDevices(c))
      BY <1>4, <2>1, <2>2, AtDevices
    <2>4. CASE Stays(c) /\ ReadSoFar(call'[c], mem.addrMgr)
      <3>1. SamePlan(c) /\ r = 6 /\ call'[c].out = k.out
        BY <1>2, <1>12, <2>4 DEF Stays, SameFields, Reached, SamePlan, r
      <3> QED BY <1>12, <2>3, <2>4, <3>1 DEF BackupWay, device
    <2>5. CASE HasReadDevices(c)
      <3>1. PICK l : /\ SameFields(l, k) /\ (Fits(Len(mem.addrMgr)) => l.buf = mem.addrMgr)
                     /\ LET n == Told(l, "addrMgr")
                        IN  n.op = l.op /\ n.plan = l.plan /\ n.at = l.at /\ n.buf = l.buf /\ n.out = [l.out EXCEPT !.devs = Parsed(l.buf)]
                     /\ Gets(c, Told(l, "addrMgr"), Skip(l))
        BY <2>5 DEF HasReadDevices
      <3> DEFINE n == Told(l, "addrMgr")
      <3>2. l.plan = call[c].plan /\ l.at = 6 /\ l.op = k.op /\ l.out = k.out
        BY <1>12, <3>1 DEF SameFields
      <3>3. Skip(l) = 1
        <4>1. After(l) = Reset
          <5>1. Len(l.plan) = 6
            BY <1>3, <3>2
          <5> QED BY <3>2, <5>1 DEF After
        <4> QED BY <4>1 DEF Skip, Reset, Command, Stage
      <3>4. n.plan = k.plan /\ n.op = k.op /\ n.at = 6 /\ n.out = [k.out EXCEPT !.devs = Parsed(l.buf)] /\ Gets(c, n, 1)
        BY <1>3, <3>1, <3>2, <3>3
      <3> HIDE DEF n
      <3>5. SamePlan(c) /\ call'[c].out = n.out /\ r = 7
        <4>1. Onto(c, IF n.at + 1 <= Len(k.plan) THEN n.at + 1 ELSE Len(k.plan) + 1, n)
          <5>1. n.at \in Nat
            BY <3>4
          <5> QED BY <1>3, <3>4, <5>1, Onwards
        <4> QED BY <1>3, <3>4, <4>1 DEF Onto, r
      <3> QED BY <1>2, <1>12, <2>3, <3>1, <3>4, <3>5 DEF BackupWay, Outs, device
    <2> QED BY <2>3, <2>4, <2>5
  <1> QED BY <1>1, <1>7, <1>8, <1>9, <1>10, <1>11, <1>12

\* What the search in the extended table leaves of it.
LessOne(t, old, d) == \E i \in Rows(old, d) : t = [old EXCEPT ![i] = Emptied]
Searched(t, old, d, s) == (t = old \/ LessOne(t, old, d)) /\ (s /\ Short(t) => t = old /\ Rows(t, d) = {})

\* The table without the device is written, in order, as far as the offsets go.
WrittenSoFar(k, now, cells, d) ==
  /\ Len(now) = Len(cells)
  /\ Fits(Len(cells)) => /\ k.buf = cells /\ Places(cells, d) # {} /\ Aligned(k) /\ k.done < Len(cells)
                         /\ \A i \in 1..Len(cells) : now[i] = IF i <= k.done THEN Without(cells, d)[i] ELSE cells[i]

\* DeleteAddrMgrEntry: the entry is looked for in the one table, then in the other.
DeleteWay(k, r, m, t, b, s) ==
  LET d == k.op.arg
      cells == b.mem.addrMgr
  IN  /\ SameBut(m, b.mem, {"addrMgr"})
      /\ r <= 2 => m = b.mem /\ ~k.out.found
      /\ r = 1 => t = b.table /\ k.off <= Len(t) /\ \A i \in 1..k.off : i \notin Rows(t, d)
      /\ r \in {2, 3} => Searched(t, b.table, d, s)
      /\ r = 2 => ReadSoFar(k, cells)
      /\ r = 3 => WrittenSoFar(k, m.addrMgr, cells, d)
      /\ r = 4 /\ k.out.found /\ Fits(Len(m.addrMgr)) =>
           \/ m = b.mem /\ LessOne(t, b.table, d)
           \/ Places(cells, d) # {} /\ m.addrMgr = Without(cells, d) /\ Searched(t, b.table, d, s)
      /\ r = 4 /\ ~k.out.found =>
           m = b.mem /\ (s /\ Short(t) /\ Fits(Len(cells)) => Rows(t, d) = {} /\ Places(cells, d) = {})

\* The first n cells are the new ones, the others the old.
WrittenTo(now, n, data, old) == \A i \in 1..Len(data) : now[i] = IF i <= n THEN data[i] ELSE old[i]

\* One more chunk of a table, over an old one.
LEMMA OneMoreWritten ==
  ASSUME NEW data \in Seq(Int), NEW old, NEW now \in Seq(Int), Len(now) = Len(data), NEW done \in Nat, done < Len(data),
         WrittenTo(now, done, data, old),
         Holds(now, done, SubSeq(data, done + 1, Lesser(done + Chunk, Len(data))))
  PROVE  LET chunk == SubSeq(data, done + 1, Lesser(done + Chunk, Len(data)))
         IN  /\ Len(chunk) \in Nat /\ done + Len(chunk) <= Len(data) /\ (done + Len(chunk) < Len(data) => Len(chunk) = Chunk)
             /\ WrittenTo(Spliced(now, done, chunk), done + Len(chunk), data, old)
  <1> DEFINE e == Lesser(done + Chunk, Len(data))
             chunk == SubSeq(data, done + 1, e)
             new == Spliced(now, done, chunk)
  <1>1. /\ chunk \in Seq(Int) /\ e \in Nat /\ e <= Len(data) /\ Len(chunk) = e - done /\ Len(chunk) > 0
        /\ \A j \in 1..Len(chunk) : chunk[j] = data[done + j]
        /\ e < Len(data) => Len(chunk) = Chunk
    BY ChunkOf
  <1>2. Holds(now, done, chunk)
    OBVIOUS
  <1> HIDE DEF e, chunk
  <1>3. Len(chunk) \in Nat /\ done + Len(chunk) = e /\ Len(data) \in Nat
    BY <1>1, LenProperties
  <1>4. \A i \in 1..Len(now) : new[i] = IF i > done /\ i <= done + Len(chunk) THEN chunk[i - done] ELSE now[i]
    BY <1>1, <1>2, SplicedCells
  <1> HIDE DEF new
  <1>5. ASSUME NEW i \in 1..Len(data)
        PROVE  new[i] = IF i <= done + Len(chunk) THEN data[i] ELSE old[i]
    <2>0. i \in Nat /\ new[i] = IF i > done /\ i <= done + Len(chunk) THEN chunk[i - done] ELSE now[i]
      BY <1>3, <1>4
    <2>1. CASE i <= done
      <3>1. now[i] = data[i]
        BY <2>1 DEF WrittenTo
      <3> QED BY <1>3, <2>0, <2>1, <3>1
    <2>2. CASE i > done /\ i <= done + Len(chunk)
      <3>1. i - done \in 1..Len(chunk) /\ done + (i - done) = i
        BY <1>3, <2>0, <2>2
      <3>2. chunk[i - done] = data[i]
        BY <1>1, <3>1
      <3> QED BY <2>0, <2>2, <3>2
    <2>3. CASE i > done + Len(chunk)
      <3>1. i > done
        BY <1>3, <2>0, <2>3
      <3>2. now[i] = old[i]
        BY <2>0, <3>1 DEF WrittenTo
      <3> QED BY <1>3, <2>0, <2>3, <3>1, <3>2
    <2> QED BY <1>3, <2>0, <2>1, <2>2, <2>3
  <1> QED BY <1>1, <1>3, <1>5 DEF new, chunk, e, WrittenTo

\* The last stage of a deletion.
WriteWithout(d) == Stage("writeBack", "addrMgr", <<d>>, FALSE)

\* The table of devices is written back, chunk after chunk.
LEMMA WritesDevices ==
  ASSUME NEW c, Asking(c), At(c) = WriteWithout(call[c].op.arg), NEW cells \in Seq(Int),
         WrittenSoFar(call[c], mem.addrMgr, cells, call[c].op.arg)
  PROVE  \/ Over(c)
         \/ /\ table' = table /\ SameBut(mem', mem, {"addrMgr"}) /\ sound' = sound
            /\ \/ pc'[c] = pc[c] /\ SamePlan(c) /\ call'[c].at = call[c].at /\ WrittenSoFar(call'[c], mem'.addrMgr, cells, call'[c].op.arg)
               \/ \E k : /\ k.op = call[c].op /\ k.plan = call[c].plan /\ k.at = call[c].at /\ k.out.found /\ Gets(c, k, 1)
                         /\ Len(mem'.addrMgr) = Len(cells)
                         /\ Fits(Len(cells)) => mem'.addrMgr = Without(cells, call[c].op.arg) /\ Places(cells, call[c].op.arg) # {}
  <1> DEFINE k == call[c]
             d == k.op.arg
             data == DataOf(c)
             chunk == Wrote(c)
             now == mem.addrMgr
             next == [k EXCEPT !.done = @ + Len(chunk), !.off = NextOffset(@, Len(chunk)), !.out.found = At(c).item = "addrMgr"]
             new == Spliced(now, k.off, chunk)
  <1>1. At(c).do = "writeBack" /\ At(c).item = "addrMgr" /\ ~At(c).try /\ At(c).data[1] = d
    BY DEF WriteWithout, Stage
  <1>2. /\ MemTyped(mem) /\ DOMAIN mem = Items /\ now \in Seq(Int) /\ Len(now) \in Nat /\ Len(cells) \in Nat /\ Ready(c)
        /\ data \in Seq(Int) /\ chunk \in Seq(Int) /\ k.done \in Nat /\ k.off \in Nat /\ Len(chunk) \in Nat /\ Len(data) \in Nat
    BY <1>1, ReadyParts, DataTyped, ItemsThere, LenProperties DEF Asking, MemTyped, FieldsTyped
  <1>3. (LoseRequest(c) \/ Panic(c) \/ Miss(c)) => Over(c)
    BY <1>1, LostIsLost, MissSettles DEF Asking, Lost, Missed
  <1>4. CASE LoseRequest(c) \/ Panic(c)
    BY <1>3, <1>4
  <1>5. CASE WriteChunk(c)
    <2>1. SUFFICES ASSUME ~Over(c), ~Miss(c)
          PROVE  /\ table' = table /\ SameBut(mem', mem, {"addrMgr"}) /\ sound' = sound
                 /\ \/ pc'[c] = pc[c] /\ SamePlan(c) /\ call'[c].at = k.at /\ WrittenSoFar(call'[c], mem'.addrMgr, cells, call'[c].op.arg)
                    \/ \E l : /\ l.op = k.op /\ l.plan = k.plan /\ l.at = k.at /\ l.out.found /\ Gets(c, l, 1)
                              /\ Len(mem'.addrMgr) = Len(cells)
                              /\ Fits(Len(cells)) => mem'.addrMgr = Without(cells, d) /\ Places(cells, d) # {}
      BY <1>3
    <2>2. /\ Holds(now, k.off, chunk) /\ mem' = [mem EXCEPT !.addrMgr = new] /\ table' = table
          /\ \/ next.done >= Len(data) /\ Answered(c, next, 1)
             \/ next.done < Len(data) /\ Continue(c, next) /\ sound' = sound
      BY <1>1, <1>5, <2>1 DEF WriteChunk, Wrote
    <2>3. /\ SameStage(next, k) /\ next.op = k.op /\ next.plan = k.plan /\ next.at = k.at /\ next.buf = k.buf /\ next.total = k.total
          /\ DOMAIN next.out = DOMAIN k.out /\ next.out.ieee = k.out.ieee /\ next.out.key = k.out.key /\ next.out.found
          /\ next.done = k.done + Len(chunk) /\ next.off = NextOffset(k.off, Len(chunk))
      BY <1>1, <1>2, ReadyParts DEF SameStage, Fields, Outs
    <2>4. new \in Seq(Int) /\ Len(new) = Len(cells)
      BY <1>2, <2>2, SplicedCells DEF WrittenSoFar
    <2>5. mem'.addrMgr = new /\ SameBut(mem', mem, {"addrMgr"})
      BY <1>2, <2>2, ItemsThere DEF SameBut
    <2>6. data = Without(k.buf, d)
      BY <1>1 DEF DataOf, Patched
    <2> HIDE DEF next, data
    <2>7. Fits(Len(cells)) =>
            /\ data = Without(cells, d) /\ Len(data) = Len(cells) /\ next.done <= Len(cells) /\ (next.done < Len(cells) => Len(chunk) = Chunk)
            /\ k.off = k.done /\ next.done \in Nat
            /\ \A i \in 1..Len(cells) : new[i] = IF i <= next.done THEN data[i] ELSE cells[i]
      <3> SUFFICES ASSUME Fits(Len(cells))
                   PROVE  /\ data = Without(cells, d) /\ Len(data) = Len(cells) /\ next.done <= Len(cells)
                          /\ next.done < Len(cells) => Len(chunk) = Chunk
                          /\ k.off = k.done /\ next.done \in Nat
                          /\ \A i \in 1..Len(cells) : new[i] = IF i <= next.done THEN data[i] ELSE cells[i]
        OBVIOUS
      <3>1. /\ k.buf = cells /\ Places(cells, d) # {} /\ k.off = k.done /\ k.done < Len(cells) /\ Len(now) = Len(cells)
            /\ \A i \in 1..Len(cells) : now[i] = IF i <= k.done THEN Without(cells, d)[i] ELSE cells[i]
        BY DEF WrittenSoFar, Aligned
      <3>2. data = Without(cells, d) /\ Len(data) = Len(cells)
        BY <2>6, <3>1, WithoutOne
      <3>3. chunk = SubSeq(data, k.done + 1, Lesser(k.done + Chunk, Len(cells)))
        BY <3>2 DEF Wrote, data
      <3>4. \A i \in 1..Len(cells) : now[i] = IF i <= k.done THEN data[i] ELSE cells[i]
        BY <3>1, <3>2
      <3>5. Holds(now, k.done, chunk)
        BY <2>2, <3>1
      <3> HIDE DEF chunk, now
      <3>6. /\ Len(chunk) \in Nat /\ k.done + Len(chunk) <= Len(cells) /\ (k.done + Len(chunk) < Len(cells) => Len(chunk) = Chunk)
            /\ \A i \in 1..Len(cells) : Spliced(now, k.done, chunk)[i] = IF i <= k.done + Len(chunk) THEN data[i] ELSE cells[i]
        <4>1. /\ Len(now) = Len(data) /\ k.done < Len(data) /\ data \in Seq(Int) /\ now \in Seq(Int) /\ k.done \in Nat
          BY <1>2, <3>1, <3>2 DEF data, now
        <4>2. chunk = SubSeq(data, k.done + 1, Lesser(k.done + Chunk, Len(data)))
          BY <3>2, <3>3
        <4>3. /\ Holds(now, k.done, SubSeq(data, k.done + 1, Lesser(k.done + Chunk, Len(data))))
              /\ WrittenTo(now, k.done, data, cells)
          BY <3>2, <3>4, <3>5, <4>2 DEF WrittenTo
        <4>4. /\ Len(chunk) \in Nat /\ k.done + Len(chunk) <= Len(data) /\ (k.done + Len(chunk) < Len(data) => Len(chunk) = Chunk)
              /\ WrittenTo(Spliced(now, k.done, chunk), k.done + Len(chunk), data, cells)
          <5> HIDE DEF k
          <5> QED BY <4>1, <4>2, <4>3, OneMoreWritten
        <4> QED BY <3>2, <4>4 DEF WrittenTo
      <3> QED BY <1>2, <2>3, <3>1, <3>2, <3>6
    <2> HIDE DEF new
    <2>8. k.off + Len(chunk) \in Nat /\ k.done + Len(chunk) \in Nat
      BY <1>2
    <2>9. next.off \in Nat /\ next.done \in Nat
      <3>1. (k.off + Len(chunk)) % OffsetMod \in Nat
        BY <2>8, ModIsLess
      <3> QED BY <2>3, <2>8, <3>1 DEF NextOffset
    <2>10. CASE next.done >= Len(data) /\ Answered(c, next, 1)
      <3>1. FieldsTyped(next)
        BY <1>2, <2>3, <2>9, ReadyParts DEF FieldsTyped, SameStage, FileTyped
      <3>2. Answers(c, next, 1)
        <4>1. Ready(c) /\ SameStage(next, call[c])
          BY <1>2, <2>3
        <4>2. Answered(c, next, 1) /\ 1 \in Nat /\ 1 > 0
          BY <2>10
        <4>3. At(c).do # "readAll"
          BY <1>1
        <4> QED BY <3>1, <4>1, <4>2, <4>3, AnsweredSettles
      <3>3. Gets(c, next, 1) /\ sound' = sound
        BY <1>1, <2>1, <3>2 DEF Answers, Missed
      <3>4. Fits(Len(cells)) => mem'.addrMgr = Without(cells, d) /\ Places(cells, d) # {}
        <4> SUFFICES ASSUME Fits(Len(cells)) PROVE new = Without(cells, d) /\ Places(cells, d) # {}
          BY <2>5
        <4>1. \A i \in 1..Len(cells) : new[i] = data[i]
          <5>1. next.done >= Len(cells) /\ next.done \in Nat /\ \A i \in 1..Len(cells) : new[i] = IF i <= next.done THEN data[i] ELSE cells[i]
            BY <2>7, <2>10
          <5> QED BY <1>2, <5>1
        <4>2. new = data
          BY <1>2, <2>4, <2>7, <4>1, SeqEqual DEF data
        <4> QED BY <2>7, <4>2 DEF WrittenSoFar
      <3> QED BY <2>2, <2>3, <2>4, <2>5, <3>3, <3>4
    <2>11. CASE next.done < Len(data) /\ Continue(c, next) /\ sound' = sound
      <3>1. pc'[c] = pc[c] /\ call'[c] = next
        BY <1>2, <2>11, ReadyParts DEF Continue
      <3>2. WrittenSoFar(next, mem'.addrMgr, cells, d)
        <4>1. ASSUME Fits(Len(cells))
              PROVE  Aligned(next) /\ next.done < Len(cells)
          <5>1. next.done < Len(cells) /\ Len(chunk) = Chunk
            BY <2>7, <2>11, <4>1
          <5>2. Aligned(k)
            BY <4>1 DEF WrittenSoFar
          <5>3. next.done = k.done + Chunk /\ next.off = NextOffset(k.off, Chunk)
            BY <2>3, <5>1
          <5> HIDE DEF k
          <5> QED BY <1>2, <4>1, <5>1, <5>2, <5>3, NextChunk
        <4> QED BY <2>3, <2>4, <2>5, <2>7, <4>1 DEF WrittenSoFar
      <3>3. next.op.arg = d
        BY <2>3
      <3> QED BY <2>2, <2>3, <2>5, <2>11, <3>1, <3>2, <3>3 DEF SamePlan
    <2> QED BY <2>2, <2>10, <2>11
  <1> QED BY <1>1, <1>4, <1>5, StageDoes

\* Nothing of the table has been written yet.
LEMMA NothingWritten ==
  ASSUME NEW k, k.off = 0, k.done = 0, NEW cells \in Seq(Int), NEW d, Fits(Len(cells)) => k.buf = cells /\ Places(cells, d) # {}
  PROVE  WrittenSoFar(k, cells, cells, d)
  <1>1. Len(cells) \in Nat
    BY LenProperties
  <1>2. ASSUME Places(cells, d) # {}
        PROVE  0 < Len(cells)
    <2>1. PICK i : i \in 1..(Len(cells) \div 2)
      BY <1>2 DEF Places, Count
    <2> DEFINE n == Len(cells)
    <2>2. n \in Nat /\ i \in 1..(n \div 2)
      BY <1>1, <2>1
    <2> HIDE DEF n
    <2>3. 2 * i \in 1..n /\ i \in Nat
      BY <2>2, CellsOfEntry
    <2> QED BY <2>2, <2>3 DEF n
  <1>3. Aligned(k)
    <2>1. 0 = Chunk * 0
      BY SizesAreSane
    <2> QED BY <2>1 DEF Aligned
  <1>4. \A i \in 1..Len(cells) : ~(i <= 0)
    BY <1>1
  <1> QED BY <1>2, <1>3, <1>4 DEF WrittenSoFar

\* The plan of a deletion.
LEMMA DeletePlan ==
  ASSUME NEW c, Asking(c), call[c].plan = DeleteAddrMgrEntry(call[c].op.arg)
  PROVE  LET p == call[c].plan
             k == call[c]
         IN  /\ Len(p) = 3 /\ At(c) = p[k.at] /\ k.at \in {1, 2, 3} /\ p[1].do = "exDelete" /\ ~p[1].try
             /\ p[2].do = "readAll" /\ p[2].item = "addrMgr" /\ ~p[2].try /\ p[3] = WriteWithout(k.op.arg)
  <1> DEFINE p == call[c].plan
             d == call[c].op.arg
  <1>1. p = <<Command("exDelete", <<d>>), NvReadAll("addrMgr"), Stage("writeBack", "addrMgr", <<d>>, FALSE)>>
    BY DEF DeleteAddrMgrEntry
  <1> HIDE DEF p, d
  <1>2. /\ Len(p) = 3 /\ p[1] = Command("exDelete", <<d>>) /\ p[2] = NvReadAll("addrMgr")
        /\ p[3] = Stage("writeBack", "addrMgr", <<d>>, FALSE)
    BY <1>1
  <1>3. call[c].at \in 1..Len(p) /\ At(c) = p[call[c].at]
    BY ReadyParts DEF Asking, At, p
  <1>4. p[1].do = "exDelete" /\ ~p[1].try /\ p[2].do = "readAll" /\ p[2].item = "addrMgr" /\ ~p[2].try /\ p[3] = WriteWithout(d)
    BY <1>2 DEF Command, NvReadAll, Stage, WriteWithout
  <1>5. call[c].at \in {1, 2, 3}
    BY <1>2, <1>3
  <1>6. Len(p) = 3
    BY <1>2
  <1> QED BY <1>3, <1>4, <1>5, <1>6 DEF p, d

\* What was looked for in the extended table.
LEMMA DeleteSearches ==
  ASSUME NEW c, Asking(c), call[c].plan = DeleteAddrMgrEntry(call[c].op.arg), call[c].at = 1,
         DeleteWay(call[c], 1, mem, table, before[c], c \in sound)
  PROVE  Over(c) \/ (SamePlan(c) /\ DeleteWay(call'[c], Reached(call'[c], pc'[c]), mem', table', before[c], c \in sound'))
  <1> DEFINE k == call[c]
             d == k.op.arg
             r == Reached(call'[c], pc'[c])
             i == k.off + 1
             there == i <= Len(table) /\ i <= MaxSubs
             b == before[c]
  <1>1. At(c).do = "exDelete" /\ ~At(c).try
    BY DeletePlan
  <1>2. /\ DOMAIN k = Fields /\ DOMAIN k.out = Outs /\ k.off \in Nat /\ pc[c] = "run" /\ Len(table) \in Nat
        /\ Len(k.plan) = 3 /\ Len(k.plan) \in Nat /\ 1 \in Nat /\ 3 \in Nat /\ k.at \in Nat
    BY DeletePlan, ReadyParts, LenProperties DEF Asking, FieldsTyped, Ready, Typed
  <1>3. /\ mem = b.mem /\ table = b.table /\ ~k.out.found /\ k.off <= Len(table) /\ (\A j \in 1..k.off : j \notin Rows(table, d))
        /\ SameBut(mem, b.mem, {"addrMgr"})
    BY DEF DeleteWay
  <1> HIDE DEF r
  <1>4. SUFFICES ASSUME ~Over(c)
                 PROVE  SamePlan(c) /\ DeleteWay(call'[c], r, mem', table', b, c \in sound')
    BY DEF r
  \* The search of the other table begins.
  <1>5. ASSUME Onto(c, 2, [k EXCEPT !.out.devs = {}]) \/ Onto(c, 2, k), mem' = mem, Searched(table', table, d, c \in sound')
        PROVE  SamePlan(c) /\ DeleteWay(call'[c], r, mem', table', b, c \in sound')
    <2>1. /\ SamePlan(c) /\ r = 2 /\ call'[c].off = 0 /\ call'[c].done = 0 /\ call'[c].total = Unknown
          /\ call'[c].out = [k.out EXCEPT !.devs = {}] \/ call'[c].out = k.out
      BY <1>2, <1>5 DEF Onto, r, Fields
    <2>2. ~call'[c].out.found /\ call'[c].op.arg = d
      BY <1>2, <1>3, <2>1 DEF Outs, SamePlan
    <2>3. ReadSoFar(call'[c], b.mem.addrMgr)
      BY <2>1, NothingRead
    <2> QED BY <1>3, <1>5, <2>1, <2>2, <2>3 DEF DeleteWay
  <1>6. CASE LoseRequest(c) \/ Panic(c)
    <2> DEFINE l == [k EXCEPT !.out.devs = {}]
    <2>1. device' = device /\ Gets(c, l, 1) /\ c \notin sound'
      BY <1>4, <1>6, LostIsLost DEF Asking, Missed
    <2>2. l.op = k.op /\ l.plan = k.plan /\ l.at = 1
      BY <1>2 DEF Fields
    <2> HIDE DEF l
    <2>3. Onto(c, IF l.at + 1 <= Len(k.plan) THEN l.at + 1 ELSE Len(k.plan) + 1, l)
      BY <1>2, <2>1, <2>2, Onwards
    <2>4. Onto(c, 2, l)
      BY <1>2, <2>2, <2>3
    <2>5. Searched(table', table, d, c \in sound')
      BY <2>1 DEF Searched, device
    <2> QED BY <1>5, <2>1, <2>4, <2>5 DEF device, l
  <1>7. CASE DeleteEntry(c)
    <2>1. /\ mem' = mem
          /\ \/ there /\ i \in Rows(table, d) /\ table' = [table EXCEPT ![i] = Emptied] /\ Answers(c, [k EXCEPT !.out.found = TRUE], Len(k.plan))
             \/ there /\ i \notin Rows(table, d) /\ table' = table /\ sound' = sound /\ pc'[c] = pc[c] /\ call'[c] = [k EXCEPT !.off = i]
             \/ ~there /\ table' = table /\ sound' = sound /\ Gets(c, k, 1)
      BY <1>7, DeleteEntryGets DEF Asking
    <2>2. CASE there /\ i \in Rows(table, d) /\ table' = [table EXCEPT ![i] = Emptied] /\ Answers(c, [k EXCEPT !.out.found = TRUE], Len(k.plan))
      <3>1. LessOne(table', table, d)
        BY <2>2 DEF LessOne
      <3>2. CASE Gets(c, [k EXCEPT !.out.found = TRUE], Len(k.plan))
        <4> DEFINE l == [k EXCEPT !.out.found = TRUE]
        <4>1. l.op = k.op /\ l.plan = k.plan /\ l.at = 1 /\ l.out = [k.out EXCEPT !.found = TRUE] /\ Gets(c, l, 3)
          BY <1>2, <3>2 DEF Fields
        <4> HIDE DEF l
        <4>2. Onto(c, IF l.at + 3 <= Len(k.plan) THEN l.at + 3 ELSE Len(k.plan) + 1, l)
          BY <1>2, <4>1, Onwards
        <4>3. Onto(c, 4, l)
          BY <1>2, <4>1, <4>2
        <4>4. SamePlan(c) /\ r = 4 /\ call'[c].out.found /\ call'[c].op.arg = d
          BY <1>2, <4>1, <4>3 DEF Onto, r, Outs, SamePlan
        <4> QED BY <1>3, <2>1, <3>1, <4>4 DEF DeleteWay
      <3>3. CASE Missed(c)
        <4> DEFINE l == [k EXCEPT !.out.devs = {}]
        <4>1. Gets(c, l, 1) /\ c \notin sound'
          BY <1>4, <3>3 DEF Missed
        <4>2. l.op = k.op /\ l.plan = k.plan /\ l.at = 1
          BY <1>2 DEF Fields
        <4> HIDE DEF l
        <4>3. Onto(c, IF l.at + 1 <= Len(k.plan) THEN l.at + 1 ELSE Len(k.plan) + 1, l)
          BY <1>2, <4>1, <4>2, Onwards
        <4>4. Onto(c, 2, l)
          BY <1>2, <4>2, <4>3
        <4>5. Searched(table', table, d, c \in sound')
          BY <3>1, <4>1 DEF Searched
        <4> QED BY <1>5, <2>1, <4>4, <4>5 DEF l
      <3> QED BY <2>2, <3>2, <3>3 DEF Answers
    <2>3. CASE there /\ i \notin Rows(table, d) /\ table' = table /\ sound' = sound /\ pc'[c] = pc[c] /\ call'[c] = [k EXCEPT !.off = i]
      <3>1. SamePlan(c) /\ r = 1 /\ call'[c].off = i /\ call'[c].out = k.out /\ call'[c].op.arg = d
        BY <1>2, <2>3 DEF SamePlan, Reached, r, Fields
      <3>2. \A j \in 1..i : j \notin Rows(table, d)
        BY <1>2, <1>3, <2>3
      <3>3. i <= Len(table)
        BY <2>3
      <3> QED BY <1>3, <2>1, <2>3, <3>1, <3>2, <3>3 DEF DeleteWay
    <2>4. CASE ~there /\ table' = table /\ sound' = sound /\ Gets(c, k, 1)
      <3>1. Short(table) => Rows(table, d) = {}
        <4>1. Short(table) => k.off = Len(table)
          BY <1>2, <1>3, <2>4, SizesAreSane DEF Short
        <4> QED BY <1>3, <4>1 DEF Rows
      <3>2. Onto(c, IF k.at + 1 <= Len(k.plan) THEN k.at + 1 ELSE Len(k.plan) + 1, k)
        BY <1>2, <2>4, Onwards
      <3>3. Onto(c, 2, k)
        BY <1>2, <3>2
      <3>4. Searched(table', table, d, c \in sound')
        BY <2>4, <3>1 DEF Searched
      <3> QED BY <1>5, <2>1, <3>3, <3>4
    <2> QED BY <2>1, <2>2, <2>3, <2>4
  <1> QED BY <1>1, <1>6, <1>7, StageDoes

\* The search of the other table.
LEMMA DeleteReads ==
  ASSUME NEW c, Asking(c), call[c].plan = DeleteAddrMgrEntry(call[c].op.arg), call[c].at = 2,
         DeleteWay(call[c], 2, mem, table, before[c], c \in sound)
  PROVE  Over(c) \/ (SamePlan(c) /\ DeleteWay(call'[c], Reached(call'[c], pc'[c]), mem', table', before[c], c \in sound'))
  <1> DEFINE k == call[c]
             d == k.op.arg
             r == Reached(call'[c], pc'[c])
             b == before[c]
             cells == b.mem.addrMgr
  <1>1. At(c).do = "readAll" /\ At(c).item = "addrMgr" /\ ~At(c).try
    BY DeletePlan
  <1>2. /\ DOMAIN k = Fields /\ DOMAIN k.out = Outs /\ pc[c] = "run"
        /\ Len(k.plan) = 3 /\ Len(k.plan) \in Nat /\ 1 \in Nat /\ 2 \in Nat /\ k.at \in Nat
    BY DeletePlan, ReadyParts DEF Asking
  <1>3. /\ mem = b.mem /\ ~k.out.found /\ Searched(table, b.table, d, c \in sound) /\ ReadSoFar(k, mem.addrMgr)
        /\ SameBut(mem, b.mem, {"addrMgr"})
    BY DEF DeleteWay
  <1> HIDE DEF r
  <1>4. SUFFICES ASSUME ~Over(c)
                 PROVE  SamePlan(c) /\ DeleteWay(call'[c], r, mem', table', b, c \in sound')
    BY DEF r
  <1>5. device' = device /\ sound' = sound /\ ((Stays(c) /\ ReadSoFar(call'[c], mem.addrMgr)) \/ HasReadDevices(c))
    BY <1>1, <1>3, <1>4, AtDevices
  <1>6. CASE Stays(c) /\ ReadSoFar(call'[c], mem.addrMgr)
    <2>1. SamePlan(c) /\ r = 2 /\ call'[c].out = k.out /\ call'[c].op.arg = d
      BY <1>2, <1>6 DEF Stays, SameFields, Reached, SamePlan, r
    <2> QED BY <1>3, <1>5, <1>6, <2>1 DEF DeleteWay, device
  <1>7. CASE HasReadDevices(c)
    <2>1. PICK l : /\ SameFields(l, k) /\ (Fits(Len(mem.addrMgr)) => l.buf = mem.addrMgr)
                   /\ LET n == Told(l, "addrMgr")
                      IN  n.op = l.op /\ n.plan = l.plan /\ n.at = l.at /\ n.buf = l.buf /\ n.out = [l.out EXCEPT !.devs = Parsed(l.buf)]
                   /\ Gets(c, Told(l, "addrMgr"), Skip(l))
      BY <1>7 DEF HasReadDevices
    <2> DEFINE n == Told(l, "addrMgr")
    <2>2. l.plan = call[c].plan /\ l.at = 2 /\ l.op = k.op /\ l.out = k.out
      BY <2>1 DEF SameFields
    <2>3. n.plan = k.plan /\ n.op = k.op /\ n.at = 2 /\ n.buf = l.buf /\ n.out = [k.out EXCEPT !.devs = Parsed(l.buf)]
      BY <2>1, <2>2
    <2>4. ~n.out.found
      BY <1>2, <1>3, <2>3 DEF Outs
    <2>5. Skip(l) = IF Places(l.buf, d) = {} THEN 2 ELSE 1
      <3>1. After(l) = WriteWithout(d)
        <4>1. l.at < Len(l.plan) /\ l.plan[3] = WriteWithout(d) /\ l.at + 1 = 3
          BY <1>2, <2>2, DeletePlan
        <4> QED BY <4>1 DEF After
      <3> QED BY <3>1 DEF Skip, Needed, WriteWithout, Stage
    <2> HIDE DEF n
    <2>6. CASE Places(l.buf, d) = {}
      <3>1. Gets(c, n, 2)
        BY <2>1, <2>5, <2>6 DEF n
      <3>2. Onto(c, IF n.at + 2 <= Len(k.plan) THEN n.at + 2 ELSE Len(k.plan) + 1, n)
        <4>1. n.at \in Nat
          BY <2>3
        <4> QED BY <1>2, <2>3, <3>1, <4>1, Onwards
      <3>3. SamePlan(c) /\ r = 4 /\ ~call'[c].out.found /\ call'[c].op.arg = d
        BY <1>2, <2>3, <2>4, <3>2 DEF Onto, r, SamePlan
      <3>4. c \in sound /\ Short(table) /\ Fits(Len(cells)) => Rows(table, d) = {} /\ Places(cells, d) = {}
        BY <1>3, <2>1, <2>6 DEF Searched
      <3> QED BY <1>3, <1>5, <3>3, <3>4 DEF DeleteWay, device
    <2>7. CASE Places(l.buf, d) # {}
      <3>1. Gets(c, n, 1)
        BY <2>1, <2>5, <2>7 DEF n
      <3>2. Onto(c, IF n.at + 1 <= Len(k.plan) THEN n.at + 1 ELSE Len(k.plan) + 1, n)
        <4>1. n.at \in Nat
          BY <2>3
        <4> QED BY <1>2, <2>3, <3>1, <4>1, Onwards
      <3>3. /\ SamePlan(c) /\ r = 3 /\ call'[c].off = 0 /\ call'[c].done = 0 /\ call'[c].buf = l.buf /\ call'[c].op.arg = d
        BY <1>2, <2>3, <3>2 DEF Onto, r, SamePlan
      <3>4. WrittenSoFar(call'[c], cells, cells, d)
        <4>1. cells \in Seq(Int)
          BY <1>3, ReadyParts, ItemsThere DEF Asking, MemTyped
        <4>2. Fits(Len(cells)) => call'[c].buf = cells /\ Places(cells, d) # {}
          BY <1>3, <2>1, <2>7, <3>3
        <4> QED BY <3>3, <4>1, <4>2, NothingWritten
      <3> QED BY <1>3, <1>5, <3>3, <3>4 DEF DeleteWay, device
    <2> QED BY <2>6, <2>7
  <1> QED BY <1>5, <1>6, <1>7

\* What a deletion writes to that table.
LEMMA DeleteWrites ==
  ASSUME NEW c, Asking(c), call[c].plan = DeleteAddrMgrEntry(call[c].op.arg), call[c].at = 3,
         DeleteWay(call[c], 3, mem, table, before[c], c \in sound)
  PROVE  Over(c) \/ (SamePlan(c) /\ DeleteWay(call'[c], Reached(call'[c], pc'[c]), mem', table', before[c], c \in sound'))
  <1> DEFINE k == call[c]
             d == k.op.arg
             r == Reached(call'[c], pc'[c])
             b == before[c]
             cells == b.mem.addrMgr
  <1>1. At(c) = WriteWithout(d)
    BY DeletePlan
  <1>2. Len(k.plan) = 3 /\ Len(k.plan) \in Nat /\ 1 \in Nat /\ k.at \in Nat
    BY DeletePlan
  <1>3. /\ SameBut(mem, b.mem, {"addrMgr"}) /\ Searched(table, b.table, d, c \in sound) /\ WrittenSoFar(k, mem.addrMgr, cells, d)
    BY DEF DeleteWay
  <1>4. cells \in Seq(Int)
    BY ItemsThere DEF Asking, Ready, Typed, BeforeTyped, MemTyped
  <1> HIDE DEF r
  <1>5. SUFFICES ASSUME ~Over(c)
                 PROVE  SamePlan(c) /\ DeleteWay(call'[c], r, mem', table', b, c \in sound')
    BY DEF r
  <1>6. /\ table' = table /\ SameBut(mem', mem, {"addrMgr"}) /\ sound' = sound
        /\ \/ pc'[c] = pc[c] /\ SamePlan(c) /\ call'[c].at = k.at /\ WrittenSoFar(call'[c], mem'.addrMgr, cells, call'[c].op.arg)
           \/ \E l : /\ l.op = k.op /\ l.plan = k.plan /\ l.at = k.at /\ l.out.found /\ Gets(c, l, 1)
                     /\ Len(mem'.addrMgr) = Len(cells)
                     /\ Fits(Len(cells)) => mem'.addrMgr = Without(cells, d) /\ Places(cells, d) # {}
    <2> HIDE DEF cells, d
    <2> QED BY <1>1, <1>3, <1>4, <1>5, WritesDevices DEF d
  <1>7. SameBut(mem', b.mem, {"addrMgr"})
    BY <1>3, <1>6 DEF SameBut
  <1>8. CASE pc'[c] = pc[c] /\ SamePlan(c) /\ call'[c].at = k.at /\ WrittenSoFar(call'[c], mem'.addrMgr, cells, call'[c].op.arg)
    <2>1. r = 3 /\ call'[c].op.arg = d
      BY <1>8 DEF Asking, Reached, SamePlan, r
    <2> QED BY <1>3, <1>6, <1>7, <1>8, <2>1 DEF DeleteWay
  <1>9. ASSUME NEW l, l.op = k.op, l.plan = k.plan, l.at = k.at, l.out.found, Gets(c, l, 1), Len(mem'.addrMgr) = Len(cells),
               Fits(Len(cells)) => mem'.addrMgr = Without(cells, d) /\ Places(cells, d) # {}
        PROVE  SamePlan(c) /\ DeleteWay(call'[c], r, mem', table', b, c \in sound')
    <2>1. Onto(c, IF l.at + 1 <= Len(k.plan) THEN l.at + 1 ELSE Len(k.plan) + 1, l)
      <3>1. l.at \in Nat
        BY <1>2, <1>9
      <3> QED BY <1>2, <1>9, <3>1, Onwards
    <2>2. SamePlan(c) /\ r = 4 /\ call'[c].out.found /\ call'[c].op.arg = d
      BY <1>2, <1>9, <2>1 DEF Onto, r, SamePlan
    <2> QED BY <1>3, <1>6, <1>7, <1>9, <2>2 DEF DeleteWay
  <1> QED BY <1>6, <1>8, <1>9

\* DeleteAddrMgrEntry.
LEMMA DeleteSteps ==
  ASSUME NEW c, Asking(c), call[c].plan = DeleteAddrMgrEntry(call[c].op.arg),
         DeleteWay(call[c], call[c].at, mem, table, before[c], c \in sound)
  PROVE  Over(c) \/ (SamePlan(c) /\ DeleteWay(call'[c], Reached(call'[c], pc'[c]), mem', table', before[c], c \in sound'))
  <1>1. call[c].at \in {1, 2, 3}
    BY DeletePlan
  <1>2. CASE call[c].at = 1
    BY <1>2, DeleteSearches
  <1>3. CASE call[c].at = 2
    BY <1>3, DeleteReads
  <1>4. CASE call[c].at = 3
    BY <1>4, DeleteWrites
  <1> QED BY <1>1, <1>2, <1>3, <1>4

-----------------------------------------------------------------------------
(***************************************************************************)
(* All operations                                                          *)
(***************************************************************************)
\* What an operation that got to its stage r has done, with what memory held when
\* it began.
Ways(k, r, m, t, b, s, ch, by, c) ==
  /\ k.op.kind = "form" => FormWay(k, r, m, t, b, s, ch, by, c)
  /\ k.op.kind = "channel" => ChannelWay(k, r, m, t, b)
  /\ k.op.kind = "seamless" => SeamlessWay(k, r, m, t, b, s)
  /\ k.op.kind = "setPower" => SetPowerWay(k, r, m, t, b, s)
  /\ k.op.kind = "getPower" => GetPowerWay(k, r, m, t, b)
  /\ k.op.kind = "factoryReset" => FactoryResetWay(k, r, m, t, b, s)
  /\ k.op.kind = "backup" => BackupWay(k, r, m, t, b, s)
  /\ k.op.kind = "restore" => RestoreWay(k, r, m, t, b, s)
  /\ k.op.kind = "delete" => DeleteWay(k, r, m, t, b, s)

\* A call follows the plan that its arguments gave it.
AsPlanned(k, b) == k.op \in Jobs /\ Valid(k.op, b.file) /\ k.plan = Stages(k.op, b.file)

\* A call is on its way: it follows its plan, and has done what it got to. The
\* calls that nobody disturbed are.
Way(c) ==
  /\ AsPlanned(call[c], before[c])
  /\ Ways(call[c], Reached(call[c], pc[c]), mem, table, before[c], c \in sound, mask, forming, c)
OnTheWay == alone \subseteq Callers /\ \A c \in alone : pc[c] \in Active \cup {"done"} => Way(c)

\* One operation, one plan.
LEMMA PlanOf ==
  ASSUME NEW k, NEW b, AsPlanned(k, b)
  PROVE  /\ k.op.kind \in Operations
         /\ k.op.kind = "form" => k.plan = FormNetwork(k.op.arg)
         /\ k.op.kind = "channel" => k.plan = ChangeChannel(k.op.arg, FALSE)
         /\ k.op.kind = "seamless" => k.plan = ChangeChannel(k.op.arg, TRUE)
         /\ k.op.kind = "setPower" => k.plan = SetTxPower(k.op.arg)
         /\ k.op.kind = "getPower" => k.plan = GetTxPower
         /\ k.op.kind = "factoryReset" => k.plan = FactoryReset
         /\ k.op.kind = "backup" => k.plan = CreateBackup
         /\ k.op.kind = "restore" => k.plan = RestoreBackup(b.file)
         /\ k.op.kind = "delete" => k.plan = DeleteAddrMgrEntry(k.op.arg)
  BY DEF AsPlanned, Jobs, Stages

\* A request of the call itself leads on along its way, or ends it.
LEMMA RequestOnTheWay ==
  ASSUME NEW c, Asking(c), Way(c), before' = before
  PROVE  Over(c) \/ Way(c)'
  <1> DEFINE k == call[c]
             b == before[c]
             r == Reached(call'[c], pc'[c])
             s == c \in sound'
  <1>1. AsPlanned(k, b) /\ Ways(k, k.at, mem, table, b, c \in sound, mask, forming, c)
    BY DEF Way, Reached, Asking
  <1>2. k.op.kind \in Operations
    BY <1>1, PlanOf
  <1>3. SUFFICES ASSUME ~Over(c)
                 PROVE  SamePlan(c) /\ Ways(call'[c], r, mem', table', b, s, mask', forming', c)
    BY <1>1 DEF Way, AsPlanned, SamePlan
  <1> HIDE DEF r, s
  <1>4. CASE k.op.kind = "form"
    <2>1. k.plan = FormNetwork(k.op.arg)
      BY <1>1, <1>4, PlanOf
    <2>2. SamePlan(c) /\ FormWay(call'[c], r, mem', table', b, s, mask', forming', c)
      BY <1>1, <1>3, <1>4, <2>1, FormSteps DEF Ways, r, s
    <2> QED BY <1>4, <2>2 DEF Ways, SamePlan
  <1>5. CASE k.op.kind = "channel"
    <2>1. k.plan = ChangeChannel(k.op.arg, FALSE)
      BY <1>1, <1>5, PlanOf
    <2>2. SamePlan(c) /\ ChannelWay(call'[c], r, mem', table', b)
      BY <1>1, <1>3, <1>5, <2>1, ChannelSteps DEF Ways, r
    <2> QED BY <1>5, <2>2 DEF Ways, SamePlan
  <1>6. CASE k.op.kind = "seamless"
    <2>1. k.plan = ChangeChannel(k.op.arg, TRUE)
      BY <1>1, <1>6, PlanOf
    <2>2. SamePlan(c) /\ SeamlessWay(call'[c], r, mem', table', b, s)
      BY <1>1, <1>3, <1>6, <2>1, SeamlessSteps DEF Ways, r, s
    <2> QED BY <1>6, <2>2 DEF Ways, SamePlan
  <1>7. CASE k.op.kind = "setPower"
    <2>1. k.plan = SetTxPower(k.op.arg)
      BY <1>1, <1>7, PlanOf
    <2>2. SamePlan(c) /\ SetPowerWay(call'[c], r, mem', table', b, s)
      BY <1>1, <1>3, <1>7, <2>1, SetPowerSteps DEF Ways, r, s
    <2> QED BY <1>7, <2>2 DEF Ways, SamePlan
  <1>8. CASE k.op.kind = "getPower"
    <2>1. k.plan = GetTxPower
      BY <1>1, <1>8, PlanOf
    <2>2. SamePlan(c) /\ GetPowerWay(call'[c], r, mem', table', b)
      BY <1>1, <1>3, <1>8, <2>1, GetPowerSteps DEF Ways, r
    <2> QED BY <1>8, <2>2 DEF Ways, SamePlan
  <1>9. CASE k.op.kind = "factoryReset"
    <2>1. k.plan = FactoryReset
      BY <1>1, <1>9, PlanOf
    <2>2. SamePlan(c) /\ FactoryResetWay(call'[c], r, mem', table', b, s)
      BY <1>1, <1>3, <1>9, <2>1, FactoryResetSteps DEF Ways, r, s
    <2> QED BY <1>9, <2>2 DEF Ways, SamePlan
  <1>10. CASE k.op.kind = "backup"
    <2>1. k.plan = CreateBackup
      BY <1>1, <1>10, PlanOf
    <2>2. SamePlan(c) /\ BackupWay(call'[c], r, mem', table', b, s)
      BY <1>1, <1>3, <1>10, <2>1, BackupSteps DEF Ways, r, s
    <2> QED BY <1>10, <2>2 DEF Ways, SamePlan
  <1>11. CASE k.op.kind = "restore"
    <2>1. k.plan = RestoreBackup(b.file)
      BY <1>1, <1>11, PlanOf
    <2>2. SamePlan(c) /\ RestoreWay(call'[c], r, mem', table', b, s)
      BY <1>1, <1>3, <1>11, <2>1, RestoreSteps DEF Ways, r, s
    <2> QED BY <1>11, <2>2 DEF Ways, SamePlan
  <1>12. CASE k.op.kind = "delete"
    <2>1. k.plan = DeleteAddrMgrEntry(k.op.arg)
      BY <1>1, <1>12, PlanOf
    <2>2. SamePlan(c) /\ DeleteWay(call'[c], r, mem', table', b, s)
      BY <1>1, <1>3, <1>12, <2>1, DeleteSteps DEF Ways, r, s
    <2> QED BY <1>12, <2>2 DEF Ways, SamePlan
  <1> QED BY <1>2, <1>4, <1>5, <1>6, <1>7, <1>8, <1>9, <1>10, <1>11, <1>12 DEF Operations

\* Only a formation waits, at its last stage.
LEMMA FormsWait ==
  ASSUME NEW c, Ready(c), AsPlanned(call[c], before[c]), At(c).do = "await"
  PROVE  call[c].op.kind = "form" /\ call[c].at = 10 /\ Len(call[c].plan) = 10
  <1> DEFINE k == call[c]
  <1>1. k.op.kind \in Operations /\ k.at \in 1..Len(k.plan) /\ k.plan[k.at].do = "await" /\ k.op \in Jobs
    BY PlanOf, ReadyParts DEF At, AsPlanned
  <1>2. ASSUME k.op.kind # "form" PROVE FALSE
    <2>1. k.plan = Stages(k.op, before[c].file)
      BY DEF AsPlanned
    <2>2. SafePlan(k.op, k.plan)
      BY <1>1, <1>2, <2>1, PlansAreSafe DEF AsPlanned
    <2> QED BY <1>1, <2>2 DEF SafePlan, SafeStage
  <1>3. CASE k.op.kind = "form"
    <2>1. k.plan = FormNetwork(k.op.arg)
      BY <1>3, PlanOf
    <2> DEFINE p == k.plan
               asked == WithDefault(k.op.arg)
    <2>2. /\ Len(p) = 10 /\ p[1] = Write("startup", <<3>>) /\ p[2] = Write("type", <<0>>)
          /\ p[3] = Try(NvItemInit("profile", <<4>>)) /\ p[4] = Try(Write("profile", <<4>>)) /\ p[5] = Write("zdoCb", <<1>>)
          /\ p[6] = Reset /\ p[7] = Command("primary", <<asked>>) /\ p[8] = Command("secondary", <<0>>)
          /\ p[9] = Command("commission", <<>>)
      BY <2>1, FormPlan
    <2> HIDE DEF p, asked
    <2>3. \A i \in {1, 2, 3, 4, 5, 6, 7, 8, 9} : p[i].do # "await"
      BY <2>2 DEF Write, NvItemInit, Reset, Command, Stage, Try
    <2>4. k.at \in 1..10 /\ p[k.at].do = "await"
      BY <1>1, <2>2 DEF p
    <2> QED BY <1>3, <2>2, <2>3, <2>4 DEF p
  <1> QED BY <1>2, <1>3

-----------------------------------------------------------------------------
(***************************************************************************)
(* What others do                                                          *)
(***************************************************************************)
\* Who else is alone after a step that changes the device, or leaves it.
LEMMA AnswersSound ==
  ASSUME NEW c, NEW k, NEW n
  PROVE  /\ Miss(c) => sound' = sound \ {c}
         /\ Answered(c, k, n) => sound' \in {sound, sound \ {c}}
  BY DEF Miss, Answered

\* One who changes the device is the only one who is still alone.
LEMMA OnlyOwnChanges ==
  ASSUME NEW c, Step(c) \/ Stirs(c), ~Begin(c)
  PROVE  /\ sound' \in {sound, sound \ {c}}
         /\ (device' = device /\ alone' = alone) \/ (device' # device /\ alone' = alone \cap {c})
  <1>1. CASE LoseRequest(c) \/ Panic(c)
    BY <1>1, AnswersSound DEF LoseRequest, Panic, Reads
  <1>2. CASE WriteChunk(c)
    BY <1>2, AnswersSound DEF WriteChunk, Disturbs
  <1>3. CASE InitItem(c) \/ DeleteEntry(c) \/ SetChannel(c) \/ Commission(c) \/ ResetRequest(c) \/ NwkUpdate(c)
    BY <1>3, AnswersSound DEF InitItem, DeleteEntry, SetChannel, Commission, ResetRequest, NwkUpdate, Disturbs
  <1>4. CASE ReadValue(c) \/ ReadLength(c) \/ ReadChunk(c) \/ ReadEntry(c) \/ Tune(c) \/ GetInfo(c)
    BY <1>4, AnswersSound DEF ReadValue, ReadLength, ReadChunk, ReadEntry, Tune, GetInfo, Reads
  <1>5. CASE Register(c) \/ Timeout(c) \/ Stirs(c)
    BY <1>5 DEF Register, Timeout, Stirs, Reads
  <1> QED BY <1>1, <1>2, <1>3, <1>4, <1>5 DEF Step

\* What a step of one leaves to another who is still alone.
Same(e) ==
  /\ e \in alone /\ device' = device /\ pc'[e] = pc[e] /\ call'[e] = call[e] /\ before'[e] = before[e]
  /\ (e \in sound') = (e \in sound)

\* The other's call stays as it is.
LEMMA OthersStay ==
  ASSUME Typed, NEW c \in Callers, Step(c) \/ Stirs(c), NEW e \in alone', e # c, e \in Callers
  PROVE  Same(e)
  <1>1. CASE Begin(c)
    BY <1>1 DEF Begin, Typed, Same
  <1>2. CASE ~Begin(c)
    <2>1. Settled(c) /\ before' = before
      BY <1>2, StepTyped DEF Result
    <2>2. /\ sound' \in {sound, sound \ {c}}
          /\ (device' = device /\ alone' = alone) \/ (device' # device /\ alone' = alone \cap {c})
      BY <1>2, OnlyOwnChanges
    <2>3. device' = device /\ e \in alone
      BY <2>2
    <2>4. (e \in sound') = (e \in sound)
      BY <2>2
    <2> QED BY <2>1, <2>3, <2>4 DEF Settled, Same
  <1> QED BY <1>1, <1>2

\* A call on its way stays on it when nothing it depends on changes.
LEMMA SameWay ==
  ASSUME NEW e, Same(e), Way(e)
  PROVE  Way(e)'
  <1>1. /\ call'[e] = call[e] /\ pc'[e] = pc[e] /\ before'[e] = before[e] /\ mem' = mem /\ table' = table /\ mask' = mask
        /\ forming' = forming /\ (e \in sound') = (e \in sound)
    BY DEF Same, device
  <1>2. Way(e)' = ( /\ AsPlanned(call'[e], before'[e])
                    /\ Ways(call'[e], Reached(call'[e], pc'[e]), mem', table', before'[e], e \in sound', mask', forming', e) )
    BY DEF Way
  <1> QED BY <1>1, <1>2 DEF Way

\* An operation that begins has done nothing.
LEMMA BeginsItsWay ==
  ASSUME Typed, NEW c \in Callers, queue[c] \in Seq(Jobs), Begin(c), pc'[c] \in Active \cup {"done"}
  PROVE  Way(c)'
  <1> DEFINE op == Head(queue[c])
             k == call'[c]
             b == before'[c]
  <1>1. /\ pc'[c] = "run" /\ Valid(op, file) /\ k = [Idle EXCEPT !.op = op, !.plan = Stages(op, file)]
        /\ b = [mem |-> mem, table |-> table, file |-> file] /\ device' = device /\ c \in sound' /\ queue[c] # <<>>
    BY DEF Begin, Typed, Active, Waits
  <1>2. op \in Jobs
    BY <1>1, HeadTailProperties
  <1>3. /\ k.op = op /\ k.plan = Stages(op, file) /\ k.at = 1 /\ k.off = 0 /\ k.out = NoOut
        /\ b.mem = mem /\ b.table = table /\ b.file = file
    BY <1>1 DEF Idle
  <1> HIDE DEF op, k, b
  <1>4. AsPlanned(k, b)
    BY <1>1, <1>2, <1>3 DEF AsPlanned
  <1>5. Reached(k, pc'[c]) = 1
    BY <1>1, <1>3 DEF Reached
  <1>6. SameBut(mem, mem, {"addrMgr"}) /\ SameBut(mem, mem, {"power"}) /\ SameBut(mem, mem, {"nib", "key", "altKey"})
        /\ SameBut(mem, mem, {"extAddr", "key", "altKey"})
    BY DEF SameBut
  <1>7. NoOut.devs = {} /\ ~NoOut.found
    BY DEF NoOut
  <1>8. Len(table) \in Nat
    BY LenProperties DEF Typed
  <1>9. \A r, s, ch, by : r = 1 => Ways(k, r, mem, table, b, s, ch, by, c)
    <2> SUFFICES ASSUME NEW s, NEW ch, NEW by
                 PROVE  Ways(k, 1, mem, table, b, s, ch, by, c)
      OBVIOUS
    <2>1. FormWay(k, 1, mem, table, b, s, ch, by, c)
      BY <1>3 DEF FormWay
    <2>2. ChannelWay(k, 1, mem, table, b) /\ SeamlessWay(k, 1, mem, table, b, s) /\ GetPowerWay(k, 1, mem, table, b)
      BY <1>3 DEF ChannelWay, SeamlessWay, GetPowerWay
    <2>3. SetPowerWay(k, 1, mem, table, b, s) /\ FactoryResetWay(k, 1, mem, table, b, s) /\ RestoreWay(k, 1, mem, table, b, s)
      BY <1>3, <1>6 DEF SetPowerWay, FactoryResetWay, RestoreWay
    <2>4. BackupWay(k, 1, mem, table, b, s)
      BY <1>3, <1>7 DEF BackupWay
    <2>5. DeleteWay(k, 1, mem, table, b, s)
      BY <1>3, <1>6, <1>7, <1>8 DEF DeleteWay
    <2> QED BY <2>1, <2>2, <2>3, <2>4, <2>5 DEF Ways
  <1>10. Way(c)' = ( /\ AsPlanned(k, b)
                     /\ Ways(k, Reached(k, pc'[c]), mem', table', b, c \in sound', mask', forming', c) )
    BY DEF Way, k, b
  <1> QED BY <1>1, <1>4, <1>5, <1>9, <1>10 DEF device

\* One who waits goes on waiting.
LEMMA WaitsOnItsWay ==
  ASSUME NEW c, Ready(c), Register(c) \/ Timeout(c) \/ Stirs(c), Way(c), before' = before
  PROVE  Over(c) \/ Way(c)'
  <1> DEFINE k == call[c]
  <1>1. /\ device' = device /\ sound' = sound /\ At(c).do = "await" /\ pc[c] \in Waits
        /\ Over(c) \/ (pc'[c] \in Waits /\ SameFields(call'[c], k))
    BY WaitsSettle, ReadyParts DEF Register, Timeout, Stirs, Waits
  <1>2. k.op.kind = "form" /\ AsPlanned(k, before[c])
    BY <1>1, FormsWait DEF Way
  <1>3. ASSUME pc'[c] \in Waits, SameFields(call'[c], k)
        PROVE  Way(c)'
    <2>1. call'[c].op = k.op /\ call'[c].plan = k.plan /\ Reached(call'[c], pc'[c]) = k.at /\ Reached(k, pc[c]) = k.at
      BY <1>1, <1>3 DEF SameFields, Reached, Waits
    <2>2. FormWay(k, k.at, mem, table, before[c], c \in sound, mask, forming, c)
      BY <1>2, <2>1 DEF Way, Ways
    <2>3. FormWay(call'[c], k.at, mem', table', before'[c], c \in sound', mask', forming', c)
      BY <1>1, <2>1, <2>2 DEF FormWay, device
    <2>4. Ways(call'[c], k.at, mem', table', before'[c], c \in sound', mask', forming', c)
      BY <1>2, <2>1, <2>3 DEF Ways
    <2>5. AsPlanned(call'[c], before'[c])
      BY <1>2, <2>1 DEF AsPlanned
    <2> QED BY <2>1, <2>4, <2>5 DEF Way
  <1> QED BY <1>1, <1>3

\* A step of one keeps all on their way.
LEMMA StepOnTheWay ==
  ASSUME IInv, Typed, OnTheWay, NEW c \in Callers, Step(c) \/ Stirs(c)
  PROVE  OnTheWay'
  <1>1. alone' \subseteq Callers
    <2>1. CASE Begin(c)
      BY <2>1 DEF Begin, OnTheWay
    <2>2. CASE ~Begin(c)
      BY <2>2, OnlyOwnChanges DEF OnTheWay
    <2> QED BY <2>1, <2>2
  <1>2. ASSUME NEW e \in alone', pc'[e] \in Active \cup {"done"}
        PROVE  Way(e)'
    <2>1. CASE e # c
      <3>1. Same(e)
        BY <1>1, <1>2, <2>1, OthersStay
      <3> QED BY <1>2, <3>1, SameWay DEF OnTheWay, Same
    <2>2. CASE e = c /\ Begin(c)
      BY <1>2, <2>2, BeginsItsWay DEF IInv, Jobs
    <2>3. CASE e = c /\ ~Begin(c)
      <3>1. Ready(c) /\ before' = before
        BY <2>3, StepTyped
      <3>2. c \in alone
        BY <1>2, <2>3, OnlyOwnChanges
      <3>3. Way(c) /\ ~Over(c)
        BY <1>2, <2>3, <3>1, <3>2 DEF OnTheWay, Ready, Over
      <3>4. CASE Register(c) \/ Timeout(c) \/ Stirs(c)
        BY <2>3, <3>1, <3>3, <3>4, WaitsOnItsWay
      <3>5. CASE ~(Register(c) \/ Timeout(c) \/ Stirs(c))
        <4>1. pc[c] = "run" /\ Step(c)
          BY <2>3, <3>5 DEF Step, LoseRequest, Panic, WriteChunk, InitItem, ReadValue, ReadLength, ReadChunk, ReadEntry, DeleteEntry, Tune,
                            GetInfo, SetChannel, Commission, ResetRequest, NwkUpdate, Asks
        <4> QED BY <2>3, <3>1, <3>3, <4>1, RequestOnTheWay DEF Asking
      <3> QED BY <3>4, <3>5
    <2> QED BY <2>1, <2>2, <2>3
  <1> QED BY <1>1, <1>2 DEF OnTheWay

\* The coordinator forms the network that the only caller asked for.
LEMMA StartsOnTheWay ==
  ASSUME Typed, OnTheWay, Starts
  PROVE  OnTheWay'
  <1>1. /\ forming # Nobody /\ forming' = Nobody /\ mem' = (IF NoNetwork(mem) THEN NewNetwork(mem) ELSE mem)
        /\ alone' = (IF call[forming].op.kind = "form" THEN alone \cap {forming} ELSE {})
        /\ table' = table /\ mask' = mask /\ before' = before /\ sound' = sound
    BY DEF Starts, history
  <1>2. alone' \subseteq Callers
    BY <1>1 DEF OnTheWay
  <1>3. ASSUME NEW c \in alone', pc'[c] \in Active \cup {"done"}
        PROVE  Way(c)'
    <2> DEFINE k == call[c]
               b == before[c]
               s == c \in sound
               asked == WithDefault(k.op.arg)
    <2>1. c = forming /\ c \in alone /\ c \in Callers /\ k.op.kind = "form"
      BY <1>1, <1>3, <1>2
    \* Its call is as it was, or is through.
    <2>2. /\ call'[c].op = k.op /\ call'[c].plan = k.plan
          /\ \/ pc'[c] = pc[c] /\ call'[c] = k
             \/ Ready(c) /\ At(c).do = "await" /\ Reached(call'[c], pc'[c]) = Lesser(k.at + 1, Len(k.plan) + 1)
      <3>1. CASE UNCHANGED <<pc, call, file>>
        BY <3>1
      <3>2. ASSUME NEW w \in Callers, pc[w] = "waiting", Proceed(w, call[w], 1)
            PROVE  /\ call'[c].op = k.op /\ call'[c].plan = k.plan
                   /\ \/ pc'[c] = pc[c] /\ call'[c] = k
                      \/ Ready(c) /\ At(c).do = "await" /\ Reached(call'[c], pc'[c]) = Lesser(k.at + 1, Len(k.plan) + 1)
        <4>1. Ready(w) /\ pc[w] \in Waits
          BY <3>2 DEF Ready, Active, Waits
        <4>2. At(w).do = "await" /\ FieldsTyped(call[w]) /\ SameStage(call[w], call[w])
          BY <4>1, ReadyParts DEF CallTyped, SameStage
        <4>3. Settled(w) /\ Gets(w, call[w], 1)
          BY <3>2, <4>1, <4>2, ArriveSettles
        <4>4. CASE w = c
          BY <4>1, <4>2, <4>3, <4>4 DEF Gets
        <4>5. CASE w # c
          BY <2>1, <4>3, <4>5 DEF Settled
        <4> QED BY <4>4, <4>5
      <3> QED BY <3>1, <3>2 DEF Starts
    <2>3. pc[c] \in Active \cup {"done"}
      BY <1>3, <2>2 DEF Ready
    <2>4. Way(c)
      BY <2>1, <2>3 DEF OnTheWay
    <2>5. FormWay(k, Reached(k, pc[c]), mem, table, b, s, mask, forming, c) /\ AsPlanned(k, b)
      BY <2>1, <2>4 DEF Way, Ways
    <2> DEFINE r == Reached(k, pc[c])
               next == Reached(call'[c], pc'[c])
    <2>6. /\ \A i \in Items \ {"nib", "key"} : mem'[i] = mem[i]
          /\ NoNetwork(mem) => mem'.nib[ChannelAt] = mask
          /\ ~NoNetwork(mem) => mem' = mem
      BY <1>1, NewNetworkTyped DEF Typed
    <2>7. forming = c /\ forming # Nobody /\ r \notin {7, 8, 9, 11}
      BY <1>1, <2>1, <2>5 DEF FormWay
    <2>8. /\ mem'.extAddr = mem.extAddr /\ mem'.startup = mem.startup /\ mem'.type = mem.type /\ mem'.profile = mem.profile
          /\ mem'.zdoCb = mem.zdoCb /\ mem'.addrMgr = mem.addrMgr
      BY <2>6, ItemsThere
    <2>9. AsPlanned(call'[c], before'[c])
      BY <1>1, <2>2, <2>5 DEF AsPlanned
    <2>10. next = r \/ (r = 10 /\ next = 11)
      <3>1. CASE pc'[c] = pc[c] /\ call'[c] = k
        BY <3>1
      <3>2. CASE Ready(c) /\ At(c).do = "await" /\ next = Lesser(k.at + 1, Len(k.plan) + 1)
        <4>1. k.at = 10 /\ Len(k.plan) = 10
          BY <2>5, <3>2, FormsWait
        <4>2. r = 10
          BY <3>2, <4>1 DEF Ready, Active, Waits, Reached
        <4> QED BY <3>2, <4>1, <4>2 DEF Lesser
      <3> QED BY <2>2, <3>1, <3>2
    <2> HIDE DEF next, r
    <2>11. FormWay(call'[c], next, mem', table', b, s, mask', forming', c)
      <3>1. /\ FormWay(k, r, mem, table, b, s, mask, forming, c) /\ call'[c].op = k.op
            /\ table' = table /\ mask' = mask /\ forming' = Nobody
        BY <1>1, <2>2, <2>5 DEF r
      <3>2. CASE r = 10
        <4>1. NoNetwork(mem) /\ mask = asked
          BY <2>7, <3>1, <3>2 DEF FormWay
        <4>2. mem'.nib[ChannelAt] = asked
          BY <2>6, <4>1
        <4>3. next \in {10, 11}
          BY <2>10, <3>2
        <4> HIDE DEF k
        <4> QED BY <2>8, <3>1, <3>2, <4>1, <4>2, <4>3 DEF FormWay
      <3>3. CASE r # 10
        <4>1. next = r
          BY <2>10, <3>3
        <4> QED BY <2>7, <2>8, <3>1, <3>3, <4>1 DEF FormWay
      <3> QED BY <3>2, <3>3
    <2>12. Ways(call'[c], next, mem', table', b, s, mask', forming', c)
      BY <2>1, <2>2, <2>11 DEF Ways
    <2> QED BY <1>1, <2>9, <2>12 DEF Way, next
  <1> QED BY <1>2, <1>3 DEF OnTheWay

\* Every step keeps the calls that nobody disturbed on their way.
LEMMA NextOnTheWay == IInv /\ Typed /\ OnTheWay /\ [Next]_vars => OnTheWay'
  <1> SUFFICES ASSUME IInv, Typed, OnTheWay, [Next]_vars PROVE OnTheWay'
    OBVIOUS
  <1>1. ASSUME NEW c \in Callers, Step(c) \/ Stirs(c)
        PROVE  OnTheWay'
    BY <1>1, StepOnTheWay
  <1>2. CASE CountUpdate \/ LosePower \/ (\E d \in scenario.joins : Join(d))
    BY <1>2 DEF CountUpdate, LosePower, Join, OnTheWay
  <1>3. CASE Starts
    BY <1>3, StartsOnTheWay
  <1>4. ASSUME Close \/ UNCHANGED vars
        PROVE  OnTheWay'
    <2>1. UNCHANGED <<alone, pc, call, mem, table, before, sound, mask, forming>>
      BY <1>4 DEF Close, vars, device, history
    <2>2. \A c : Way(c)' = Way(c)
      BY <2>1 DEF Way
    <2> QED BY <2>1, <2>2 DEF OnTheWay
  <1> QED BY <1>1, <1>2, <1>3, <1>4 DEF Next

\* In every state of every behaviour the state has its types, and a call that
\* nobody disturbed has done what the stages it got to do (znp/nv.go, addr_mgr.go,
\* adapter/network_mgmt.go, backup.go).
THEOREM AlwaysOnTheWay == Spec => [](IInv /\ Typed /\ OnTheWay)
  <1>1. Init => IInv /\ Typed /\ OnTheWay
    BY InitIInv, InitTyped DEF Init, OnTheWay
  <1>2. IInv /\ [Next]_vars => IInv'
    BY NextIInv
  <1>3. IInv /\ Typed /\ OnTheWay /\ [Next]_vars => (IInv /\ Typed /\ OnTheWay)'
    BY <1>2, NextTyped, NextOnTheWay
  <1> QED BY <1>1, <1>3, PTL DEF Spec

-----------------------------------------------------------------------------
(***************************************************************************)
(* What an operation that succeeded has done                               *)
(***************************************************************************)
\* A call that succeeded has gone all its way.
LEMMA WayOfSuccess ==
  ASSUME OnTheWay, NEW c, Succeeded(c)
  PROVE  /\ AsPlanned(call[c], before[c]) /\ c \in Callers
         /\ Ways(call[c], Len(call[c].plan) + 1, mem, table, before[c], c \in sound, mask, forming, c)
  BY DEF OnTheWay, Succeeded, Way, Reached

\* How many stages an operation has.
LEMMA PlanLength ==
  ASSUME NEW k, NEW b, AsPlanned(k, b)
  PROVE  Len(k.plan) = CASE k.op.kind = "form" -> 10 [] k.op.kind \in {"seamless", "getPower"} -> 1
                         [] k.op.kind \in {"channel", "setPower", "restore", "delete"} -> 3
                         [] k.op.kind = "factoryReset" -> 4 [] k.op.kind = "backup" -> 6
  <1>1. Len(ChangeChannel(k.op.arg, TRUE)) = 1 /\ Len(GetTxPower) = 1
    BY DEF ChangeChannel, GetTxPower
  <1>2. /\ Len(ChangeChannel(k.op.arg, FALSE)) = 3 /\ Len(SetTxPower(k.op.arg)) = 3 /\ Len(RestoreBackup(b.file)) = 3
        /\ Len(DeleteAddrMgrEntry(k.op.arg)) = 3
    BY DEF ChangeChannel, SetTxPower, RestoreBackup, DeleteAddrMgrEntry
  <1>3. Len(FormNetwork(k.op.arg)) = 10 /\ Len(FactoryReset) = 4 /\ Len(CreateBackup) = 6
    BY BackupTyped DEF FormNetwork, FactoryReset
  <1> QED BY <1>1, <1>2, <1>3, PlanOf DEF Operations

\* FormNetwork (adapter/network_mgmt.go) leaves the coordinator it was asked for,
\* for every content of memory and of the table, every number of other callers
\* and whatever requests fail: provided nobody else changed anything meanwhile.
THEOREM FormationsSucceed == Spec => []FormedAsAsked
  <1>1. OnTheWay => FormedAsAsked
    <2> SUFFICES ASSUME OnTheWay, NEW c \in Callers, Succeeded(c), call[c].op.kind = "form"
                 PROVE  /\ mem.startup = <<0>> /\ mem.type = <<0>> /\ mem.zdoCb = <<1>>
                        /\ mem.nib[ChannelAt] = WithDefault(call[c].op.arg) /\ Devices = {}
                        /\ mem.extAddr = before[c].mem.extAddr
                        /\ c \in sound => mem.profile = <<4>>
      BY DEF FormedAsAsked
    <2>1. Len(call[c].plan) + 1 = 11
      BY WayOfSuccess, PlanLength
    <2>2. FormWay(call[c], 11, mem, table, before[c], c \in sound, mask, forming, c)
      BY <2>1, WayOfSuccess DEF Ways
    <2>3. Devices = {}
      BY <2>2 DEF FormWay, Devices, DevicesOf, DevicesIn
    <2> QED BY <2>2, <2>3 DEF FormWay
  <1> QED BY <1>1, AlwaysOnTheWay, PTL

\* Every other operation (adapter/network_mgmt.go, backup.go, znp/addr_mgr.go) that
\* succeeds has changed what it is for and nothing else, for every content of
\* memory and of the tables and whatever requests fail.
THEOREM OnlyWhatWasAsked == Spec => []ChangesAreAsAsked
  <1>1. OnTheWay => ChangesAreAsAsked
    <2> SUFFICES ASSUME OnTheWay, NEW c \in Callers, Succeeded(c), Spared(c)
                 PROVE  LET op == call[c].op
                            m == before[c].mem
                            same(keep) == \A i \in Items \ keep : mem[i] = m[i]
                        IN  /\ op.kind \in {"channel", "seamless"} => mem = (IF m.nib = <<>> THEN m ELSE Moved(m, op.arg))
                            /\ op.kind \in {"backup", "getPower"} => mem = m
                            /\ op.kind = "factoryReset" => /\ same({"nib", "key", "altKey"})
                                                           /\ c \in sound => mem.nib = Zeros(Len(m.nib)) /\ mem.key = Zeros(2) /\ mem.altKey = Zeros(2)
                            /\ op.kind = "restore" => /\ same({"extAddr", "key", "altKey"})
                                                      /\ mem.extAddr = before[c].file.ieee /\ mem.key = before[c].file.key /\ mem.altKey = before[c].file.key
                            /\ op.kind = "setPower" => same({"power"}) /\ (c \in sound => mem.power = <<Byte(op.arg)>>)
                            /\ op.kind = "delete" => same({"addrMgr"})
                            /\ op.kind \notin {"form", "delete"} => table = before[c].table
      BY DEF ChangesAreAsAsked
    <2> DEFINE k == call[c]
               b == before[c]
               s == c \in sound
    <2>1. AsPlanned(k, b) /\ k.op.kind \in Operations
      BY WayOfSuccess, PlanOf
    <2>2. Ways(k, Len(k.plan) + 1, mem, table, b, s, mask, forming, c) /\ b.mem.startup # <<3>>
      BY WayOfSuccess DEF Spared
    <2>3. CASE k.op.kind = "channel"
      <3>1. ChannelWay(k, 4, mem, table, b)
        BY <2>1, <2>2, <2>3, PlanLength DEF Ways
      <3> QED BY <2>2, <2>3, <3>1 DEF ChannelWay, Rechanneled
    <2>4. CASE k.op.kind = "seamless"
      <3>1. SeamlessWay(k, 2, mem, table, b, s)
        BY <2>1, <2>2, <2>4, PlanLength DEF Ways
      <3> QED BY <2>4, <3>1 DEF SeamlessWay, Rechanneled
    <2>5. CASE k.op.kind = "backup"
      <3>1. BackupWay(k, 7, mem, table, b, s)
        BY <2>1, <2>2, <2>5, PlanLength DEF Ways
      <3> QED BY <2>5, <3>1 DEF BackupWay
    <2>6. CASE k.op.kind = "getPower"
      <3>1. GetPowerWay(k, 2, mem, table, b)
        BY <2>1, <2>2, <2>6, PlanLength DEF Ways
      <3> QED BY <2>6, <3>1 DEF GetPowerWay
    <2>7. CASE k.op.kind = "factoryReset"
      <3>1. FactoryResetWay(k, 5, mem, table, b, s)
        BY <2>1, <2>2, <2>7, PlanLength DEF Ways
      <3> QED BY <2>2, <2>7, <3>1 DEF FactoryResetWay, SameBut
    <2>8. CASE k.op.kind = "restore"
      <3>1. RestoreWay(k, 4, mem, table, b, s)
        BY <2>1, <2>2, <2>8, PlanLength DEF Ways
      <3> QED BY <2>8, <3>1 DEF RestoreWay, SameBut
    <2>9. CASE k.op.kind = "setPower"
      <3>1. SetPowerWay(k, 4, mem, table, b, s)
        BY <2>1, <2>2, <2>9, PlanLength DEF Ways
      <3> QED BY <2>9, <3>1 DEF SetPowerWay, SameBut
    <2>10. CASE k.op.kind = "delete"
      <3>1. DeleteWay(k, 4, mem, table, b, s)
        BY <2>1, <2>2, <2>10, PlanLength DEF Ways
      <3> QED BY <2>10, <3>1 DEF DeleteWay, SameBut
    <2>11. CASE k.op.kind = "form"
      BY <2>11
    <2> QED BY <2>1, <2>3, <2>4, <2>5, <2>6, <2>7, <2>8, <2>9, <2>10, <2>11 DEF Operations
  <1> QED BY <1>1, AlwaysOnTheWay, PTL

\* A device is in the one table or in the other.
LEMMA DevicePlaces ==
  ASSUME NEW cells, NEW entries, NEW d, d \in DevicesOf(cells, entries)
  PROVE  \/ \E j \in Places(cells, d) : ~IsEmpty(Entry(cells, j))
         \/ \E j \in Rows(entries, d) : ~IsEmpty(entries[j])
  BY DEF DevicesOf, DevicesIn, Parsed, Listed, Good, Places, Rows

\* An address that had one entry has none once that is emptied.
LEMMA EmptiedRow ==
  ASSUME NEW old \in Seq(Seq(Int)), NEW d, NEW i \in Rows(old, d)
  PROVE  LET t == [old EXCEPT ![i] = Emptied]
         IN  /\ d # FF => t # old
             /\ (\A j \in Rows(old, d) : j = i) => \A j \in Rows(t, d) : IsEmpty(t[j])
  <1> DEFINE t == [old EXCEPT ![i] = Emptied]
  <1>1. i \in 1..Len(old) /\ old[i][2] = d /\ t[i] = Emptied /\ Len(t) = Len(old) /\ \A j \in 1..Len(old) : j # i => t[j] = old[j]
    BY DEF Rows
  <1>2. Emptied[2] = FF /\ IsEmpty(Emptied)
    BY DEF Emptied, IsEmpty
  <1> HIDE DEF t
  <1>3. d # FF => t # old
    BY <1>1, <1>2
  <1>4. ASSUME \A j \in Rows(old, d) : j = i, NEW j \in Rows(t, d)
        PROVE  IsEmpty(t[j])
    <2>1. j # i => j \in Rows(old, d)
      BY <1>1, <1>4 DEF Rows
    <2> QED BY <1>1, <1>2, <1>4, <2>1
  <1> QED BY <1>3, <1>4 DEF t

\* What emptying an entry does to the table, and to the device if it had but one.
LEMMA EmptiedPlace ==
  ASSUME NEW cells \in Seq(Int), NEW d, Places(cells, d) # {}
  PROVE  /\ d # FF => Without(cells, d) # cells
         /\ (\A i, j \in Places(cells, d) : i = j) =>
              \A j \in Places(Without(cells, d), d) : IsEmpty(Entry(Without(cells, d), j))
  <1> DEFINE k == Least(Places(cells, d))
             new == Without(cells, d)
             n == Len(cells)
  <1>1. k \in Places(cells, d)
    <2>1. Places(cells, d) \subseteq Nat
      BY DEF Places
    <2> QED BY <2>1, LeastIsThere
  <1>2. n \in Nat /\ Count(cells) = n \div 2 /\ k \in 1..(n \div 2) /\ cells[2 * k] = d
    BY <1>1, LenProperties DEF Places, Count, Entry
  <1>3. Len(new) = n /\ \A i \in 1..n : new[i] = IF i = 2 * k - 1 THEN Emptied[1] ELSE IF i = 2 * k THEN Emptied[2] ELSE cells[i]
    BY <1>2 DEF Without
  <1> HIDE DEF n, k, new
  <1>4. k \in Nat /\ 2 * k \in 1..n /\ 2 * k - 1 \in 1..n
    BY <1>2, CellsOfEntry
  <1>5. new[2 * k - 1] = 0 /\ new[2 * k] = FF
    BY <1>3, <1>4 DEF Emptied
  <1>6. d # FF => new # cells
    BY <1>2, <1>5
  <1>7. ASSUME \A i, j \in Places(cells, d) : i = j, NEW j \in Places(new, d)
        PROVE  IsEmpty(Entry(new, j))
    <2>1. j \in 1..(n \div 2) /\ new[2 * j] = d
      BY <1>3, <1>7 DEF Places, Count, Entry
    <2>2. j \in Nat /\ 2 * j \in 1..n
      BY <1>2, <2>1, CellsOfEntry
    <2>3. CASE j = k
      BY <1>5, <2>3 DEF IsEmpty, Entry
    <2>4. CASE j # k
      <3>1. 2 * j # 2 * k - 1 /\ 2 * j # 2 * k
        BY <1>4, <2>2, <2>4
      <3>2. cells[2 * j] = d
        BY <1>3, <2>1, <2>2, <3>1
      <3>3. j \in Places(cells, d)
        BY <1>2, <2>1, <3>2 DEF Places, Entry
      <3> QED BY <1>1, <1>7, <2>4, <3>3
    <2> QED BY <2>3, <2>4
  <1> QED BY <1>6, <1>7 DEF new

\* What a deletion that found an entry tells of the tables.
LEMMA DeletionFound ==
  ASSUME NEW m, NEW t, NEW b, NEW d, BeforeTyped(b), NEW s,
         \/ m = b.mem /\ LessOne(t, b.table, d)
         \/ /\ Places(b.mem.addrMgr, d) # {} /\ m.addrMgr = Without(b.mem.addrMgr, d) /\ Searched(t, b.table, d, s)
  PROVE  /\ d # FF => <<m.addrMgr, t>> # <<b.mem.addrMgr, b.table>>
         /\ Single(b.mem, b.table, d) => d \notin DevicesOf(m.addrMgr, t)
  <1> DEFINE cells == b.mem.addrMgr
             old == b.table
  <1>1. cells \in Seq(Int) /\ old \in Seq(Seq(Int))
    BY ItemsThere DEF BeforeTyped, MemTyped
  <1>2. CASE m = b.mem /\ LessOne(t, old, d)
    <2>1. PICK i \in Rows(old, d) : t = [old EXCEPT ![i] = Emptied]
      BY <1>2 DEF LessOne
    <2>2. /\ d # FF => t # old
          /\ (\A j \in Rows(old, d) : j = i) => \A j \in Rows(t, d) : IsEmpty(t[j])
      BY <1>1, <2>1, EmptiedRow
    <2>3. ASSUME Single(b.mem, old, d) PROVE d \notin DevicesOf(m.addrMgr, t)
      <3>1. Places(cells, d) = {} /\ \A j \in Rows(t, d) : IsEmpty(t[j])
        BY <2>1, <2>2, <2>3 DEF Single
      <3> QED BY <1>2, <3>1, DevicePlaces
    <2> QED BY <2>2, <2>3
  <1>3. CASE Places(cells, d) # {} /\ m.addrMgr = Without(cells, d) /\ Searched(t, old, d, s)
    <2>1. ASSUME Single(b.mem, old, d) PROVE d \notin DevicesOf(m.addrMgr, t)
      <3>1. Rows(old, d) = {} /\ \A i, j \in Places(cells, d) : i = j
        BY <1>3, <2>1 DEF Single
      <3>2. Rows(t, d) = {}
        BY <1>3, <3>1 DEF Searched, LessOne
      <3>3. \A j \in Places(m.addrMgr, d) : IsEmpty(Entry(m.addrMgr, j))
        BY <1>1, <1>3, <3>1, EmptiedPlace
      <3> QED BY <3>2, <3>3, DevicePlaces
    <2> QED BY <1>1, <1>3, <2>1, EmptiedPlace
  <1> QED BY <1>2, <1>3

\* What a call tells its caller (adapter/network_mgmt.go, backup.go,
\* znp/addr_mgr.go) is what memory holds, and a deletion that found an entry has
\* emptied one, for every content of memory and of the tables and whatever
\* requests fail: where an error is taken for an empty table, or a table is too
\* long for the offsets or for the entries looked at, only what the property
\* says.
THEOREM AnswersAreTrue == Spec => []AnswersAreTheMemorys
  <1>1. Typed /\ OnTheWay => AnswersAreTheMemorys
    <2> SUFFICES ASSUME Typed, OnTheWay, NEW c \in Callers, Succeeded(c)
                 PROVE  LET op == call[c].op
                            out == call[c].out
                            b == before[c]
                            fits == Fits(Len(mem.addrMgr)) /\ Len(table) <= MaxSubs
                        IN  /\ op.kind = "getPower" => out.power = <<Signed(mem.power[1])>>
                            /\ op.kind = "backup" =>
                                  /\ out.ieee = mem.extAddr /\ out.nib = mem.nib /\ out.key = mem.key
                                  /\ (c \in sound /\ fits) => out.devs = IF Listed(table) # {} THEN Listed(table) ELSE Parsed(mem.addrMgr)
                            /\ (op.kind = "delete" /\ fits) =>
                                  /\ out.found => /\ op.arg # FF => <<mem.addrMgr, table>> # <<b.mem.addrMgr, b.table>>
                                                  /\ Single(b.mem, b.table, op.arg) => op.arg \notin Devices
                                  /\ ~out.found => mem = b.mem /\ (c \in sound => op.arg \notin Devices)
      BY DEF AnswersAreTheMemorys
    <2> DEFINE k == call[c]
               b == before[c]
               s == c \in sound
               d == k.op.arg
               fits == Fits(Len(mem.addrMgr)) /\ Len(table) <= MaxSubs
    <2>1. AsPlanned(k, b) /\ k.op.kind \in Operations
      BY WayOfSuccess, PlanOf
    <2>2. Ways(k, Len(k.plan) + 1, mem, table, b, s, mask, forming, c)
      BY WayOfSuccess
    <2>3. CASE k.op.kind = "getPower"
      <3>1. GetPowerWay(k, 2, mem, table, b)
        BY <2>1, <2>2, <2>3, PlanLength DEF Ways
      <3> QED BY <2>3, <3>1 DEF GetPowerWay
    <2>4. CASE k.op.kind = "backup"
      <3>1. BackupWay(k, 7, mem, table, b, s)
        BY <2>1, <2>2, <2>4, PlanLength DEF Ways
      <3> QED BY <2>4, <3>1 DEF BackupWay, Short
    <2>5. ASSUME k.op.kind = "delete", fits
          PROVE  /\ k.out.found => /\ d # FF => <<mem.addrMgr, table>> # <<b.mem.addrMgr, b.table>>
                                   /\ Single(b.mem, b.table, d) => d \notin Devices
                 /\ ~k.out.found => mem = b.mem /\ (s => d \notin Devices)
      <3>1. DeleteWay(k, 4, mem, table, b, s)
        BY <2>1, <2>2, <2>5, PlanLength DEF Ways
      <3>2. CASE k.out.found
        <4>1. BeforeTyped(b)
          BY DEF Typed
        <4>2. \/ mem = b.mem /\ LessOne(table, b.table, d)
              \/ Places(b.mem.addrMgr, d) # {} /\ mem.addrMgr = Without(b.mem.addrMgr, d) /\ Searched(table, b.table, d, s)
          BY <2>5, <3>1, <3>2 DEF DeleteWay
        <4> HIDE DEF b, d, s
        <4> QED BY <3>2, <4>1, <4>2, DeletionFound DEF Devices
      <3>3. CASE ~k.out.found
        <4>1. mem = b.mem /\ (s => Rows(table, d) = {} /\ Places(mem.addrMgr, d) = {})
          BY <2>5, <3>1, <3>3 DEF DeleteWay, Short
        <4> QED BY <3>3, <4>1, DevicePlaces DEF Devices
      <3> QED BY <3>2, <3>3
    <2> QED BY <2>1, <2>3, <2>4, <2>5 DEF Operations
  <1> QED BY <1>1, AlwaysOnTheWay, PTL

=============================================================================
