------------------------------- MODULE NvMemory -------------------------------
(***************************************************************************)
(* The coordinator's NV memory and what is asked of it, request by request *)
(* (pkg/znp/nv.go, addr_mgr.go), and the operations of the adapter that    *)
(* are made of such requests (pkg/adapter/network_mgmt.go, backup.go): an  *)
(* operation is a sequence of stages, a stage one request or a transfer of *)
(* several. A cell stands for some bytes; an entry of the table of devices *)
(* is two cells, so that a chunk may end in the middle of one.             *)
(***************************************************************************)
EXTENDS Integers, Sequences

CONSTANTS OffsetMod,   \* offsets are eight bits wide: 256
          Chunk,       \* cells of one request (MaxNvWriteSize), and of one answer
          NibSize,     \* cells of the network information base
          ChannelAt,   \* where in it the channel is; the first cell counts its updates
          MaxSubs      \* entries of the extended table that are looked at

ASSUME SizesAreSane == /\ OffsetMod \in Nat \ {0} /\ Chunk \in Nat \ {0} /\ MaxSubs \in Nat
                       /\ NibSize \in Nat /\ ChannelAt \in 2..NibSize /\ NibSize <= Chunk

Items == {"startup", "type", "profile", "zdoCb", "nib", "key", "altKey", "extAddr", "power", "addrMgr"}
(* The cells of an item that is there; the table of devices may have any number. *)
SizeOf(item) == CASE item = "nib" -> NibSize [] item \in {"key", "altKey"} -> 2 [] OTHER -> 1

Lesser(a, b) == IF a < b THEN a ELSE b
Zeros(n) == [i \in 1..n |-> 0]

(**************************** the table of devices ************************)

FF == 99        \* the address of an entry that was emptied
Own == 90       \* the coordinator's own: network address 0
Emptied == <<0, FF>>
IsEmpty(e) == e[1] = 0 \/ e[2] = FF

(* ParseAddrMgrTable. What is left over at the end is no entry. Nobody looks at *)
(* the order of the entries.                                                   *)
Entry(cells, k) == <<cells[2 * k - 1], cells[2 * k]>>
Count(cells) == Len(cells) \div 2
Parsed(cells) == {Entry(cells, k) : k \in {i \in 1..Count(cells) : ~IsEmpty(Entry(cells, i))}}

Places(cells, d) == {k \in 1..Count(cells) : Entry(cells, k)[2] = d}
Least(s) == CHOOSE i \in s : \A j \in s : i <= j
(* Mutant: the address that is overwritten is the next entry's. *)
Without_Next(cells, d) ==
  LET k == Least(Places(cells, d))
  IN  [i \in 1..Len(cells) |-> IF i = 2 * k - 1 THEN Emptied[1] ELSE IF i = 2 * k + 2 THEN Emptied[2] ELSE cells[i]]

(* deleteAddrMgrEntryOsal: the first entry with the address is emptied. *)
Without(cells, d) ==
  LET k == Least(Places(cells, d))
  IN  [i \in 1..Len(cells) |-> IF i = 2 * k - 1 THEN Emptied[1] ELSE IF i = 2 * k THEN Emptied[2] ELSE cells[i]]

DevicesIn(entries) == {e[2] : e \in entries}

(********************************* requests *******************************)

(* A write must lie within the item. *)
Holds(cells, off, data) == off + Len(data) <= Len(cells)
Spliced(cells, off, data) == [i \in 1..Len(cells) |-> IF i > off /\ i <= off + Len(data) THEN data[i - off] ELSE cells[i]]
NvWriteEx(entries, i, e) == [entries EXCEPT ![i] = e]
(* An answer carries no more than Chunk cells; an item that is not there has none. *)
Piece(cells, off) == SubSeq(cells, off + 1, Lesser(off + Chunk, Len(cells)))

(* Mutant: after a full chunk the offset stays. *)
NextOffset_Sticky(off, n) == IF n = Chunk THEN off ELSE (off + n) % OffsetMod

NextOffset(off, n) == (off + n) % OffsetMod

(* Whether every chunk starts at an offset that eight bits hold. *)
Fits(n) == n <= Chunk * ((OffsetMod - 1) \div Chunk + 1)

(********************************* stages *********************************)

Stage(do, item, data, try) == [do |-> do, item |-> item, data |-> data, try |-> try]
Write(item, data) == Stage("write", item, data, FALSE)
NvWriteAll(item, data) == Stage("writeAll", item, data, FALSE)
NvReadAll(item) == Stage("readAll", item, <<>>, FALSE)
NvItemInit(item, data) == Stage("init", item, data, FALSE)
Command(do, data) == Stage(do, "none", data, FALSE)
(* The error is logged or dropped, and the operation goes on. *)
Try(s) == [s EXCEPT !.try = TRUE]

Reset == Command("reset", <<>>)
Channels == 11..26
WithDefault(ch) == IF ch = 0 THEN 15 ELSE ch

(* Mutant: the old state is not cleared. *)
FormNetwork_KeepsState(ch) ==
  << Write("type", <<0>>), Try(NvItemInit("profile", <<4>>)), Try(Write("profile", <<4>>)), Write("zdoCb", <<1>>), Reset,
     Command("primary", <<WithDefault(ch)>>), Command("secondary", <<0>>), Command("commission", <<>>), Command("await", <<>>) >>

(* The PAN identifier that is asked for, or drawn, is written nowhere. *)
FormNetwork(ch) ==
  << Write("startup", <<3>>), Write("type", <<0>>), Try(NvItemInit("profile", <<4>>)), Try(Write("profile", <<4>>)),
     Write("zdoCb", <<1>>), Reset,
     Command("primary", <<WithDefault(ch)>>), Command("secondary", <<0>>), Command("commission", <<>>), Command("await", <<>>) >>

(* Seamlessly, by telling the whole network; or by rewriting the item, and a restart. *)
ChangeChannel(ch, seamless) ==
  IF seamless THEN <<Command("nwkUpdate", <<ch>>)>>
  ELSE <<NvReadAll("nib"), Stage("writeBack", "nib", <<ch>>, FALSE), Reset>>

Byte(p) == IF p < 0 THEN p + 256 ELSE p
Signed(b) == IF b > 127 THEN b - 256 ELSE b
SetTxPower(p) == <<Command("tune", <<>>), Try(NvItemInit("power", <<Byte(p)>>)), Try(Write("power", <<Byte(p)>>))>>
GetTxPower == <<Stage("read", "power", <<>>, FALSE)>>

(* Only the reset is asked whether it worked. *)
FactoryReset == <<Try(NvWriteAll("nib", Zeros(NibSize))), Try(Write("key", Zeros(2))), Try(Write("altKey", Zeros(2))), Reset>>

ReadAddrMgrTable == <<Command("exRead", <<>>), NvReadAll("addrMgr")>>
CreateBackup == <<Command("deviceInfo", <<>>), Command("nwkInfo", <<>>), NvReadAll("nib"), NvReadAll("key")>> \o ReadAddrMgrTable

(* Mutant: the alternate key is forgotten. *)
RestoreBackup_NoAlternate(b) == <<NvWriteAll("extAddr", b.ieee), NvWriteAll("key", b.key)>>

RestoreBackup(b) == <<NvWriteAll("extAddr", b.ieee), NvWriteAll("key", b.key), NvWriteAll("altKey", b.key)>>

(* The extended table first; what is not found in it, or could not be looked *)
(* for or emptied, is looked for in the other.                               *)
DeleteAddrMgrEntry(d) == <<Command("exDelete", <<d>>), NvReadAll("addrMgr"), Stage("writeBack", "addrMgr", <<d>>, FALSE)>>

Operations == {"form", "channel", "seamless", "setPower", "getPower", "factoryReset", "backup", "restore", "delete"}
Stages(op, file) ==
  CASE op.kind = "form" -> FormNetwork(op.arg)
    [] op.kind = "channel" -> ChangeChannel(op.arg, FALSE)
    [] op.kind = "seamless" -> ChangeChannel(op.arg, TRUE)
    [] op.kind = "setPower" -> SetTxPower(op.arg)
    [] op.kind = "getPower" -> GetTxPower
    [] op.kind = "factoryReset" -> FactoryReset
    [] op.kind = "backup" -> CreateBackup
    [] op.kind = "restore" -> RestoreBackup(file)
    [] op.kind = "delete" -> DeleteAddrMgrEntry(op.arg)

(* Arguments that are refused before anything is asked of the coordinator. *)
Validate(b) == b.ieee # <<>> /\ b.key # <<>>

(* Mutant: the channel is not checked. *)
Valid_AnyChannel(op, file) == op.kind = "restore" => Validate(file)

Valid(op, file) ==
  /\ op.kind \in {"channel", "seamless"} => op.arg \in Channels
  /\ op.kind = "form" => WithDefault(op.arg) \in Channels
  /\ op.kind = "restore" => Validate(file)
=============================================================================
