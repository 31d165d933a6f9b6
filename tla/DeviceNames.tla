------------------------------ MODULE DeviceNames ------------------------------
(***************************************************************************)
(* The table of device names in the coordinator's NV memory                *)
(* (pkg/znp/device_names.go): one NV item for each entry, numbered from 1. *)
(* An entry that was deleted stays, empty; an item that does not parse is  *)
(* passed over, so that the entries behind it move up in what is read.     *)
(***************************************************************************)
EXTENDS Integers, Sequences

CONSTANTS MaxEntries,   \* items that are read at most (nvMaxDeviceEntries)
          NoDevice,     \* the address of an empty entry
          NoName

ASSUME EntriesAreCounted == MaxEntries \in Nat \ {0}

Entry(d, name) == [dev |-> d, name |-> name]
EmptyEntry == Entry(NoDevice, NoName)
Corrupt == Entry("corrupt", NoName)

Least(s) == CHOOSE i \in s : \A j \in s : i <= j
Slots(table, d) == {i \in 1..Len(table) : table[i].dev = d}

(* The items ReadDeviceNameTable looks at; one that does not parse is of no device. *)
Readable(nv) == SubSeq(nv, 1, IF Len(nv) < MaxEntries THEN Len(nv) ELSE MaxEntries)

(* GetDeviceName: the first entry of the device. *)
NameOf(table, d) == IF Slots(table, d) = {} THEN NoName ELSE table[Least(Slots(table, d))].name

(* Mutant: the first empty entry is used before the device's own is looked for. *)
WithName_EmptyFirst(table, d, name) ==
  LET place == IF Slots(table, NoDevice) # {} THEN Least(Slots(table, NoDevice))
               ELSE IF Slots(table, d) # {} THEN Least(Slots(table, d))
               ELSE Len(table) + 1
  IN  [i \in 1..(IF place > Len(table) THEN place ELSE Len(table)) |-> IF i = place THEN Entry(d, name) ELSE table[i]]

(* SetDeviceName: the device's entry, else the first empty one, else a new one at the end. *)
WithName(table, d, name) ==
  LET place == IF Slots(table, d) # {} THEN Least(Slots(table, d))
               ELSE IF Slots(table, NoDevice) # {} THEN Least(Slots(table, NoDevice))
               ELSE Len(table) + 1
  IN  [i \in 1..(IF place > Len(table) THEN place ELSE Len(table)) |-> IF i = place THEN Entry(d, name) ELSE table[i]]

(* DeleteDeviceName empties the first entry of the device. *)
WithoutName(table, d) ==
  IF Slots(table, d) = {} THEN table ELSE [table EXCEPT ![Least(Slots(table, d))] = EmptyEntry]

=============================================================================
