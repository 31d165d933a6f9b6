------------------------------ MODULE ZclCodec ------------------------------
(***************************************************************************)
(* The encoding of ZCL values and frames (pkg/zcl/types.go, frame.go).     *)
(* A number is the sequence of its bytes, lowest first, so that no width   *)
(* is lost; "go" names the Go type in which a value is handed over.        *)
(*                                                                         *)
(* One behaviour is one message: something is sent (sent), it becomes      *)
(* bytes (wire), the bytes may be cut short on the way, and they are       *)
(* parsed (got).                                                           *)
(***************************************************************************)
EXTENDS ZclTypes, SequencesExt, TLC

CONSTANTS Sendable,   \* the messages that are sent, see Message
          CutAt       \* how many bytes may be lost from the end

VARIABLES sent, wire, cut, got

vars == <<sent, wire, cut, got>>

None == [kind |-> "none"]

(*************************** values: types.go ****************************)

Nil == [go |-> "nil", bytes |-> <<>>]
Fail == [ok |-> FALSE, used |-> 0, val |-> Nil]
Got(go, bytes, used) == [ok |-> TRUE, used |-> used, val |-> [go |-> go, bytes |-> bytes]]

(* A number of fewer bytes in the width of its Go type: sign or zero bytes. *)
Widened(bytes, go) ==
  LET fill == IF go \in Signed /\ bytes[Len(bytes)] >= 128 THEN 255 ELSE 0
  IN  bytes \o [i \in 1..(GoSize[go] - Len(bytes)) |-> fill]

From(s, n) == SubSeq(s, n + 1, Len(s))
First2(s) == s[1] + 256 * s[2]

RECURSIVE ReadValue(_, _), ReadElements(_, _, _, _), ReadFields(_, _, _)

(* A string after its length, which takes h bytes; all ones is the null string. *)
ReadString(data, t, h) ==
  IF Len(data) < h THEN Fail
  ELSE LET n == IF h = 1 THEN data[1] ELSE First2(data)
       IN  CASE n = 256^h - 1 -> Got("nil", <<>>, h)
             [] Len(data) < h + n -> Fail
             [] OTHER -> Got(IF t \in {"CharString", "LongChar"} THEN "string" ELSE "bytes",
                             SubSeq(data, h + 1, h + n), h + n)

ReadValue(data, t) ==
  CASE t = "NoData" -> Got("nil", <<>>, 0)
    [] t = "Boolean" -> IF data = <<>> THEN Fail ELSE Got("bool", <<IF data[1] # 0 THEN 1 ELSE 0>>, 1)
    [] Size(t) > 0 /\ t # "Boolean" ->
         IF Len(data) < Size(t) THEN Fail
         ELSE Got(ReadAs(t), Widened(SubSeq(data, 1, Size(t)), ReadAs(t)), Size(t))
    [] t \in {"OctetString", "CharString"} -> ReadString(data, t, 1)
    [] t \in {"LongOctet", "LongChar"} -> ReadString(data, t, 2)
    [] t \in {"Array", "Set", "Bag"} ->
         CASE Len(data) < 3 -> Fail
           [] First2(Tail(data)) = 65535 -> Got("array", <<>>, 3)
           [] OTHER -> ReadElements(data, TypeOf(data[1]), First2(Tail(data)), Got("array", <<>>, 3))
    [] t = "Struct" ->
         CASE Len(data) < 2 -> Fail
           [] First2(data) = 65535 -> Got("struct", <<>>, 2)
           [] OTHER -> ReadFields(data, First2(data), Got("struct", <<>>, 2))
    [] OTHER -> Fail

(* The element r reads next, put after those it has. *)
Joined(r, e, skipped) ==
  IF e.ok THEN Got(r.val.go, Append(r.val.bytes, e.val), r.used + skipped + e.used) ELSE Fail

ReadElements(data, t, n, r) ==
  CASE n = 0 \/ ~r.ok -> r
    [] r.used >= Len(data) -> Fail
    [] OTHER -> ReadElements(data, t, n - 1, Joined(r, ReadValue(From(data, r.used), t), 0))

ReadFields(data, n, r) ==
  CASE n = 0 \/ ~r.ok -> r
    [] r.used >= Len(data) -> Fail
    [] OTHER -> ReadFields(data, n - 1,
                  Joined(r, ReadValue(From(data, r.used + 1), TypeOf(data[r.used + 1])), 1))

(* NoData is written as nothing, whatever the value. *)
Writable(v, t) == t = "NoData" \/ (v.go = WriteAs(t) /\ (v.go \in {"string", "bytes"} => Len(v.bytes) <= 255))

(* Mutant: numbers are written highest byte first. *)
WriteValue_BigEndian(v, t) ==
  CASE ~Writable(v, t) -> <<>>
    [] t \in {"OctetString", "CharString"} -> <<Len(v.bytes)>> \o v.bytes
    [] OTHER -> Reverse(SubSeq(v.bytes, 1, Size(t)))

(* The bytes of a value: numbers are cut to the type's width. *)
WriteValue(v, t) ==
  CASE ~Writable(v, t) -> <<>>
    [] t \in {"OctetString", "CharString"} -> <<Len(v.bytes)>> \o v.bytes
    [] OTHER -> SubSeq(v.bytes, 1, Size(t))

(*************************** frames: frame.go ****************************)

ControlByte(f) == (IF f.type = "cluster" THEN 1 ELSE 0) + (IF f.manuf # <<>> THEN 4 ELSE 0)
                  + (IF f.fromServer THEN 8 ELSE 0) + (IF f.noDefault THEN 16 ELSE 0)

FrameBytes(f) == <<ControlByte(f)>> \o f.manuf \o <<f.seq, f.cmd>> \o f.payload

BadFrame == [ok |-> FALSE]

ParseFrame(data) ==
  IF Len(data) < 3 THEN BadFrame
  ELSE LET c == data[1]
           m == IF (c \div 4) % 2 = 1 THEN 2 ELSE 0
       IN  IF Len(data) < 3 + m THEN BadFrame
           ELSE [ok |-> TRUE, type |-> IF c % 4 = 1 THEN "cluster" ELSE "global",
                 manuf |-> SubSeq(data, 2, 1 + m), fromServer |-> (c \div 8) % 2 = 1,
                 noDefault |-> (c \div 16) % 2 = 1, seq |-> data[2 + m], cmd |-> data[3 + m],
                 payload |-> From(data, 3 + m)]

Request(type, cmd, payload) ==
  [type |-> type, manuf |-> <<>>, fromServer |-> FALSE, noDefault |-> FALSE, seq |-> 7,
   cmd |-> cmd, payload |-> payload]

BuildReadAttributes(attrs) == Request("global", 0, FlattenSeq(attrs))
BuildClusterCommand(cmd, payload) == Request("cluster", cmd, payload)

(* The records of a write in the order of the map's iteration; one that cannot be written ends it. *)
BuildWriteAttributes(recs) ==
  IF \E i \in DOMAIN recs : ~Writable(recs[i].val, recs[i].type) THEN None
  ELSE Request("global", 2, FlattenSeq([i \in DOMAIN recs |->
         recs[i].attr \o <<TypeCode[recs[i].type]>> \o WriteValue(recs[i].val, recs[i].type)]))

BuildConfigureReporting(c) ==
  CASE c.direction = 0 /\ c.change # Nil /\ ~Writable(c.change, c.type) -> None
    [] c.direction = 0 ->
         Request("global", 6, <<0>> \o c.attr \o <<TypeCode[c.type]>> \o c.min \o c.max
                              \o (IF c.change = Nil THEN <<>> ELSE WriteValue(c.change, c.type)))
    [] OTHER -> Request("global", 6, <<c.direction>> \o c.attr \o (IF c.direction = 1 THEN c.max ELSE <<>>))

BuildReadReportingConfig(recs) ==
  Request("global", 8, FlattenSeq([i \in DOMAIN recs |-> <<recs[i].direction>> \o recs[i].attr]))

(* A parser returns its records, or an error and none. *)
Records(ok, recs) == [ok |-> ok, recs |-> recs]
Wrong == Records(FALSE, <<>>)

RECURSIVE ReadResults(_, _), ReportResults(_, _), WriteResults(_, _), ConfigureResults(_, _), ConfigRecords(_, _)

(* Mutant: a type byte is expected after a failure too. *)
ReadResults_TypeAlways(data, recs) ==
  CASE data = <<>> -> Records(TRUE, recs)
    [] Len(data) < 4 -> Wrong
    [] OTHER -> ReadResults(From(data, 4), Append(recs,
         [attr |-> SubSeq(data, 1, 2), status |-> data[3], type |-> "NoData", val |-> Nil]))

(* Mutant: a value that cannot be read is skipped. *)
ReadResults_Skip(data, recs) ==
  CASE data = <<>> -> Records(TRUE, recs)
    [] Len(data) < 4 -> Wrong
    [] OTHER -> LET r == ReadValue(From(data, 4), TypeOf(data[4]))
                IN  ReadResults(From(data, 4 + r.used), Append(recs,
                      [attr |-> SubSeq(data, 1, 2), status |-> data[3], type |-> TypeOf(data[4]), val |-> r.val]))

(* ParseReadAttributesResponse *)
ReadResults(data, recs) ==
  CASE data = <<>> -> Records(TRUE, recs)
    [] Len(data) < 3 -> Wrong
    [] data[3] # 0 -> ReadResults(From(data, 3),
                        Append(recs, [attr |-> SubSeq(data, 1, 2), status |-> data[3], type |-> "NoData", val |-> Nil]))
    [] Len(data) = 3 -> Wrong
    [] OTHER -> LET r == ReadValue(From(data, 4), TypeOf(data[4]))
                IN  IF ~r.ok THEN Wrong
                    ELSE ReadResults(From(data, 4 + r.used),
                           Append(recs, [attr |-> SubSeq(data, 1, 2), status |-> 0, type |-> TypeOf(data[4]), val |-> r.val]))

(* ParseReportAttributesPayload *)
ReportResults(data, recs) ==
  CASE data = <<>> -> Records(TRUE, recs)
    [] Len(data) < 3 -> Wrong
    [] OTHER -> LET r == ReadValue(From(data, 3), TypeOf(data[3]))
                IN  IF ~r.ok THEN Wrong
                    ELSE ReportResults(From(data, 3 + r.used),
                           Append(recs, [attr |-> SubSeq(data, 1, 2), status |-> 0, type |-> TypeOf(data[3]), val |-> r.val]))

(* ParseWriteAttributesResponse: a leading success answers for all. *)
WriteResults(data, recs) ==
  CASE data = <<>> -> Records(TRUE, recs)
    [] data[1] = 0 -> IF recs = <<>> THEN Records(TRUE, <<[attr |-> <<0, 0>>, status |-> 0]>>)
                      ELSE WriteResults(Tail(data), Append(recs, [attr |-> <<0, 0>>, status |-> 0]))
    [] Len(data) < 3 -> Wrong
    [] OTHER -> WriteResults(From(data, 3), Append(recs, [attr |-> SubSeq(data, 2, 3), status |-> data[1]]))

(* ParseConfigureReportingResponse: the same with a direction before the attribute. *)
ConfigureResults(data, recs) ==
  CASE data = <<>> -> Records(TRUE, recs)
    [] data[1] = 0 -> IF recs = <<>> THEN Records(TRUE, <<[attr |-> <<0, 0>>, status |-> 0]>>)
                      ELSE ConfigureResults(Tail(data), Append(recs, [attr |-> <<0, 0>>, status |-> 0]))
    [] Len(data) < 4 -> Wrong
    [] OTHER -> ConfigureResults(From(data, 4), Append(recs, [attr |-> SubSeq(data, 3, 4), status |-> data[1]]))

IsAnalogType(t) ==
  t \in {"Uint8", "Uint16", "Uint24", "Uint32", "Uint48", "Int8", "Int16", "Int24", "Int32",
         "Single", "Double", "TimeOfDay", "Date", "UTCTime"}

(* ParseReadReportingConfigResponse: a change that does not fit any more is left where it is. *)
ConfigRecords(data, recs) ==
  IF data = <<>> THEN Records(TRUE, recs)
  ELSE IF Len(data) < 4 THEN Wrong
  ELSE LET r == [attr |-> SubSeq(data, 3, 4), status |-> data[1], direction |-> data[2],
                 type |-> "NoData", val |-> Nil]
           t == IF Len(data) < 5 THEN "Unknown" ELSE TypeOf(data[5])
           n == IF IsAnalogType(t) /\ Len(data) >= 9 + Size(t) THEN Size(t) ELSE 0
       IN  CASE r.status # 0 \/ r.direction \notin {0, 1} -> ConfigRecords(From(data, 4), Append(recs, r))
             [] r.direction = 1 -> IF Len(data) < 6 THEN Wrong ELSE ConfigRecords(From(data, 6), Append(recs, r))
             [] Len(data) < 9 -> Wrong
             [] OTHER -> ConfigRecords(From(data, 9 + n), Append(recs,
                           [r EXCEPT !.type = t, !.val = IF n = 0 THEN Nil ELSE ReadValue(From(data, 9), t).val]))

(********************** what a device puts on the air *********************)

(* Only numbers and times have a reportable change. *)
Numeric == {"Uint8", "Uint16", "Uint24", "Uint32", "Uint40", "Uint48", "Uint56", "Uint64", "Int8", "Int16",
            "Int24", "Int32", "Int40", "Int48", "Int56", "Int64", "Single", "Double", "TimeOfDay", "Date", "UTCTime"}
Change(r) == IF r.type \in Numeric THEN r.raw ELSE <<>>

(* A conforming device's records, each kind in its own layout. *)
DeviceBytes(kind, r) ==
  CASE kind = "readResponse" -> r.attr \o <<r.status>> \o
         (IF r.status = 0 THEN <<TypeCode[r.type]>> \o r.raw ELSE <<>>)
    [] kind = "report" -> r.attr \o <<TypeCode[r.type]>> \o r.raw
    [] kind = "writeResponse" -> IF r.status = 0 THEN <<0>> ELSE <<r.status>> \o r.attr
    [] kind = "configResponse" -> IF r.status = 0 THEN <<0>> ELSE <<r.status, 0>> \o r.attr
    [] kind = "configRecords" -> <<r.status, 0>> \o r.attr \o
         (IF r.status = 0 THEN <<TypeCode[r.type], 1, 0, 9, 0>> \o Change(r) ELSE <<>>)

(******************************* behaviour *******************************)

Parse(kind, t, data) ==
  CASE kind = "value" -> ReadValue(data, t)
    [] kind = "frame" -> ParseFrame(data)
    [] kind = "readResponse" -> ReadResults(data, <<>>)
    [] kind \in {"report", "write"} -> ReportResults(data, <<>>)
    [] kind = "writeResponse" -> WriteResults(data, <<>>)
    [] kind = "configResponse" -> ConfigureResults(data, <<>>)
    [] kind = "configRecords" -> ConfigRecords(data, <<>>)

Written == {"value", "frame", "write"}

Init == /\ sent \in Sendable
        /\ wire = <<>> /\ cut = 0 /\ got = None

(* What the program makes of the message. *)
Encodable == /\ sent.kind = "value" => Writable(sent.val, sent.type)
             /\ sent.kind = "write" => BuildWriteAttributes(sent.recs) # None
Encoded ==
  CASE sent.kind = "value" -> WriteValue(sent.val, sent.type)
    [] sent.kind = "frame" -> FrameBytes(sent.frame)
    [] sent.kind = "write" -> BuildWriteAttributes(sent.recs).payload

(* The program writes a value, the records of a write, or a frame, or cannot. *)
Encode == /\ sent.kind \in Written /\ wire = <<>> /\ got = None
          /\ IF Encodable THEN wire' = Encoded /\ UNCHANGED got
             ELSE got' = [kind |-> "refused"] /\ UNCHANGED wire
          /\ UNCHANGED <<sent, cut>>

(* A device answers or reports. *)
Answer == /\ sent.kind \notin Written /\ wire = <<>>
          /\ wire' = FlattenSeq([i \in DOMAIN sent.recs |-> DeviceBytes(sent.kind, sent.recs[i])])
          /\ UNCHANGED <<sent, cut, got>>

(* The end of the message is lost. *)
Cut(n) == /\ wire # <<>> /\ got = None /\ cut = 0 /\ n < Len(wire)
          /\ cut' = n /\ wire' = SubSeq(wire, 1, Len(wire) - n)
          /\ UNCHANGED <<sent, got>>

Decode == /\ wire # <<>> /\ got = None
          /\ got' = [kind |-> "parsed", of |-> Parse(sent.kind, sent.type, wire)]
          /\ UNCHANGED <<sent, wire, cut>>

Done == got # None /\ UNCHANGED vars

Next == Encode \/ Answer \/ (\E n \in CutAt : Cut(n)) \/ Decode \/ Done

Spec == Init /\ [][Next]_vars

(****************************** properties *******************************)

Parsed == got.kind = "parsed"
Whole == Parsed /\ cut = 0

(* What the program writes, a value by itself or a whole frame, comes back *)
(* the same when it reads it, and a value leaves nothing over. Two kinds of *)
(* value do not, and are left out: a string of exactly 255 bytes, whose     *)
(* length is the mark of the null string, and a number too wide for its     *)
(* type, whose top bytes are dropped.                                       *)
Fits(v, t) == IF v.go \in {"string", "bytes"} THEN Len(v.bytes) # 255
              ELSE Widened(SubSeq(v.bytes, 1, Size(t)), v.go) = v.bytes
ReadsBackWhatItWrites ==
  /\ (Whole /\ sent.kind = "value" /\ Fits(sent.val, sent.type)) =>
        got.of = [ok |-> TRUE, used |-> Len(wire), val |-> sent.val]
  /\ (Whole /\ sent.kind = "frame") => got.of = [ok |-> TRUE] @@ sent.frame

(* What the parsers make of a record the device sent. *)
Meant(kind, r) ==
  CASE kind \in {"writeResponse", "configResponse"} ->
         [attr |-> IF r.status = 0 THEN <<0, 0>> ELSE r.attr, status |-> r.status]
    [] kind = "write" -> [attr |-> r.attr, status |-> 0, type |-> r.type, val |-> r.val]
    [] kind = "configRecords" -> [attr |-> r.attr, status |-> r.status, direction |-> 0,
         type |-> IF r.status = 0 THEN r.type ELSE "NoData",
         val |-> IF r.status = 0 /\ IsAnalogType(r.type) THEN ReadValue(r.raw, r.type).val ELSE Nil]
    [] OTHER -> [attr |-> r.attr, status |-> r.status,
         type |-> IF r.status = 0 THEN r.type ELSE "NoData",
         val |-> IF r.status = 0 THEN ReadValue(r.raw, r.type).val ELSE Nil]
MeantAll == [i \in DOMAIN sent.recs |-> Meant(sent.kind, sent.recs[i])]

(* A list of records is taken apart where the device put it together: no   *)
(* record swallows bytes of its neighbour, whatever the types before it.   *)
(* Only the fixed-width types IsAnalogType leaves out (40, 56 and 64 bit    *)
(* numbers, Int48) break this in a reporting configuration.                *)
RecordsStayApart ==
  (Whole /\ sent.kind \notin {"value", "frame"}
         /\ (sent.kind = "configRecords" => \A i \in DOMAIN sent.recs :
               Change(sent.recs[i]) = <<>> \/ IsAnalogType(sent.recs[i].type)))
    => got.of = Records(TRUE, MeantAll)

(* A message cut short is refused, or cut between two records: then those  *)
(* before the cut come back as they were sent, values included, and nothing *)
(* else. A reporting configuration cut just before the change of a record   *)
(* is accepted too and that record lacks its change (frame.go:723). Not     *)
(* covered are changes of more than four bytes, of which four may be left   *)
(* to be taken for a further record.                                        *)
CutYieldsNothingNew ==
  (Parsed /\ cut > 0 /\ sent.kind \notin {"value", "frame"}
          /\ (sent.kind = "configRecords" => \A i \in DOMAIN sent.recs : Len(Change(sent.recs[i])) <= 4))
    => \/ ~got.of.ok
       \/ \E n \in DOMAIN sent.recs :
            LET before == SubSeq(MeantAll, 1, n)
            IN  \/ got.of.recs = before
                \/ /\ sent.kind = "configRecords"
                   /\ got.of.recs = [before EXCEPT ![n].val = Nil]
                   /\ wire \o Change(sent.recs[n])
                        = FlattenSeq([i \in 1..n |-> DeviceBytes(sent.kind, sent.recs[i])])

(* Bytes are bytes, and no value is said to be longer than what there was to read. *)
TypeOK == /\ sent \in Sendable /\ cut \in Nat
          /\ \A i \in DOMAIN wire : wire[i] \in 0..255
          /\ got.kind \in {"none", "refused", "parsed"}
          /\ (got.kind = "parsed" /\ sent.kind = "value") => got.of.used <= Len(wire)

=============================================================================
