------------------------------ MODULE ZclTypes ------------------------------
(***************************************************************************)
(* The data types of the ZCL (pkg/zcl/types.go): their codes and lengths,  *)
(* and the Go types in which their values are read and written.            *)
(***************************************************************************)
EXTENDS Integers, Sequences

TypeCode ==
  [NoData |-> 0, Data8 |-> 8, Data16 |-> 9, Data24 |-> 10, Data32 |-> 11, Data40 |-> 12,
   Data48 |-> 13, Data56 |-> 14, Data64 |-> 15, Boolean |-> 16, Bitmap8 |-> 24, Bitmap16 |-> 25,
   Bitmap24 |-> 26, Bitmap32 |-> 27, Bitmap40 |-> 28, Bitmap48 |-> 29, Bitmap56 |-> 30,
   Bitmap64 |-> 31, Uint8 |-> 32, Uint16 |-> 33, Uint24 |-> 34, Uint32 |-> 35, Uint40 |-> 36,
   Uint48 |-> 37, Uint56 |-> 38, Uint64 |-> 39, Int8 |-> 40, Int16 |-> 41, Int24 |-> 42,
   Int32 |-> 43, Int40 |-> 44, Int48 |-> 45, Int56 |-> 46, Int64 |-> 47, Enum8 |-> 48,
   Enum16 |-> 49, Single |-> 57, Double |-> 58, OctetString |-> 65, CharString |-> 66,
   LongOctet |-> 67, LongChar |-> 68, Array |-> 72, Struct |-> 76, Set |-> 80, Bag |-> 81,
   TimeOfDay |-> 224, Date |-> 225, UTCTime |-> 226, ClusterID |-> 232, AttrID |-> 233,
   IEEEAddr |-> 240, SecKey |-> 241]

TypeOf(code) == IF \E t \in DOMAIN TypeCode : TypeCode[t] = code
                THEN CHOOSE t \in DOMAIN TypeCode : TypeCode[t] = code ELSE "Unknown"

(* Size, the length of a fixed-length type; 0 for the others. *)
Size(t) ==
  CASE t \in {"Data8", "Boolean", "Bitmap8", "Uint8", "Int8", "Enum8"} -> 1
    [] t \in {"Data16", "Bitmap16", "Uint16", "Int16", "Enum16", "ClusterID", "AttrID"} -> 2
    [] t \in {"Data24", "Bitmap24", "Uint24", "Int24"} -> 3
    [] t \in {"Data32", "Bitmap32", "Uint32", "Int32", "Single", "TimeOfDay", "Date", "UTCTime"} -> 4
    [] t \in {"Data40", "Bitmap40", "Uint40", "Int40"} -> 5
    [] t \in {"Data48", "Bitmap48", "Uint48", "Int48"} -> 6
    [] t \in {"Data56", "Bitmap56", "Uint56", "Int56"} -> 7
    [] t \in {"Data64", "Bitmap64", "Uint64", "Int64", "Double", "IEEEAddr"} -> 8
    [] t = "SecKey" -> 16
    [] OTHER -> 0

(* The Go type in which ReadValue returns a fixed-length type. *)
ReadAs(t) ==
  CASE t = "Boolean" -> "bool"
    [] t = "Int8" -> "int8"       [] t = "Int16" -> "int16"
    [] t \in {"Int24", "Int32"} -> "int32"
    [] t \in {"Int40", "Int48", "Int56", "Int64"} -> "int64"
    [] t = "Single" -> "float32"  [] t = "Double" -> "float64"
    [] t = "IEEEAddr" -> "addr"   [] t = "SecKey" -> "key"
    [] Size(t) = 1 -> "uint8"     [] Size(t) = 2 -> "uint16"
    [] Size(t) \in {3, 4} -> "uint32"
    [] OTHER -> "uint64"

(* The Go type WriteValue wants for a type; "none" for one it cannot write. *)
WriteAs(t) ==
  CASE t \in {"Boolean", "Uint8", "Data8", "Bitmap8", "Enum8", "Uint16", "Data16", "Bitmap16", "Enum16",
              "Uint24", "Bitmap24", "Uint32", "Data32", "Bitmap32", "Bitmap40", "Uint48", "Bitmap48",
              "Bitmap56", "Bitmap64", "Int8", "Int16", "Int32", "Single", "IEEEAddr", "SecKey"} -> ReadAs(t)
    [] t = "OctetString" -> "bytes" [] t = "CharString" -> "string"
    [] OTHER -> "none"

GoSize == [bool |-> 1, uint8 |-> 1, uint16 |-> 2, uint32 |-> 4, uint64 |-> 8, int8 |-> 1, int16 |-> 2,
           int32 |-> 4, int64 |-> 8, float32 |-> 4, float64 |-> 8, addr |-> 8, key |-> 16]

Signed == {"int8", "int16", "int32", "int64"}

=============================================================================
