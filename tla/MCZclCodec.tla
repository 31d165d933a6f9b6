----------------------------- MODULE MCZclCodec -----------------------------
EXTENDS ZclCodec

(* Numbers: zero, one, the sign bit alone, all ones; of the width of the Go type. *)
Numbers(go) == {[go |-> go, bytes |-> [i \in 1..GoSize[go] |-> CASE b = 255 -> 255 [] i = at -> b [] OTHER -> 0]] :
                 b \in {0, 1, 128, 255}, at \in {1, GoSize[go]}}
Strings(go) == {[go |-> go, bytes |-> [i \in 1..n |-> 7]] : n \in {0, 1, 254, 255, 256}}
ValuesFor(t) == CASE WriteAs(t) = "none" -> {[go |-> "uint8", bytes |-> <<1>>]}
                  [] WriteAs(t) \in {"string", "bytes"} -> Strings(WriteAs(t)) \cup {Nil}
                  [] WriteAs(t) = "bool" -> {[go |-> "bool", bytes |-> <<b>>] : b \in {0, 1}}
                  [] OTHER -> Numbers(WriteAs(t))
Values == {[kind |-> "value", type |-> t, val |-> v] : t \in DOMAIN TypeCode, v \in UNION {ValuesFor(u) : u \in DOMAIN TypeCode}}
TypedValues == {m \in Values : m.val \in ValuesFor(m.type)}

(* What a device sends for a value of a type: fixed width, strings, null strings, nested collections. *)
Raws(t) == CASE Size(t) > 0 -> {[i \in 1..Size(t) |-> IF i = Size(t) THEN b ELSE 3] : b \in {0, 128}}
             [] t \in {"OctetString", "CharString"} -> {<<0>>, <<2, 5, 5>>, <<255>>}
             [] t \in {"LongOctet", "LongChar"} -> {<<1, 0, 5>>, <<255, 255>>}
             [] t \in {"Array", "Set", "Bag"} -> {<<32, 2, 0, 5, 6>>, <<33, 255, 255>>, <<66, 1, 0, 1, 9>>, <<72, 1, 0, 16, 1, 0, 2>>}
             [] t = "Struct" -> {<<2, 0, 16, 3, 33, 1, 2>>, <<255, 255>>}
             [] OTHER -> {<<>>}
Attr1 == <<4, 0>>
Attr2 == <<85, 240>>
Rec(a, s, t, raw) == [attr |-> a, status |-> s, type |-> t, raw |-> raw]
Typed(a) == {Rec(a, 0, t, raw) : t \in DOMAIN TypeCode, raw \in UNION {Raws(t) : t \in DOMAIN TypeCode}}
Fitting(a) == {r \in Typed(a) : r.raw \in Raws(r.type)}
Second == {Rec(Attr2, 0, "Uint16", <<3, 128>>), Rec(Attr2, 0, "CharString", <<2, 5, 5>>)}
Failed(a) == Rec(a, 134, "NoData", <<>>)
Lists == {<<r, s>> : r \in Fitting(Attr1), s \in Second} \cup {<<Failed(Attr1), s>> : s \in Second}
         \cup {<<r, Failed(Attr2)>> : r \in Fitting(Attr1)}
Succeeded(l) == \A i \in DOMAIN l : l[i].status = 0
Responses == {[kind |-> k, type |-> "NoData", recs |-> l] : k \in {"readResponse", "report", "configRecords"}, l \in Lists}
Answers == {m \in Responses : m.kind = "report" => Succeeded(m.recs)}
Statuses == {[kind |-> k, type |-> "NoData", recs |-> l] : k \in {"writeResponse", "configResponse"},
               l \in {<<Rec(Attr1, 0, "NoData", <<>>)>>, <<Failed(Attr1)>>, <<Failed(Attr1), Failed(Attr2)>>}}

WriteRec(a, m) == [attr |-> a, type |-> m.type, val |-> m.val]
Writes == {[kind |-> "write", type |-> "NoData", recs |-> <<WriteRec(Attr1, m), WriteRec(Attr2, n)>>] :
             m \in {v \in TypedValues : WriteAs(v.type) = v.val.go /\ Fits(v.val, v.type)},
             n \in {[type |-> "Uint8", val |-> [go |-> "uint8", bytes |-> <<5>>]]}}

Configs == {[direction |-> d, attr |-> Attr1, type |-> "Int16", min |-> <<1, 0>>, max |-> <<9, 0>>, change |-> c] :
              d \in {0, 1}, c \in {Nil, [go |-> "int16", bytes |-> <<5, 0>>]}}
Built == {BuildReadAttributes(<<Attr1, Attr2>>), BuildClusterCommand(2, <<>>), BuildClusterCommand(1, <<5, 6>>),
          BuildReadReportingConfig(<<[direction |-> 0, attr |-> Attr1]>>)} \cup {BuildConfigureReporting(c) : c \in Configs}
Frames == {[kind |-> "frame", type |-> "NoData",
            frame |-> [f EXCEPT !.manuf = m, !.fromServer = s, !.noDefault = n]] :
              f \in Built, m \in {<<>>, <<95, 17>>}, s \in BOOLEAN, n \in BOOLEAN}

AllMessages == TypedValues \cup Answers \cup Statuses \cup Writes \cup Frames
Cuts == 1..9
=============================================================================
