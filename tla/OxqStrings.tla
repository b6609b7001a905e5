------------------------------ MODULE OxqStrings ------------------------------
(***************************************************************************)
(* The string pool of an .oxq file: how the writer collects and places the *)
(* strings (core/writer.cpp) and how the reader takes them in              *)
(* (core/codec/string_pool.cpp).                                           *)
(*                                                                         *)
(* A payload keeps the fields of its section and its size in bytes.  The   *)
(* fields that must have one value (versions, sizes of headers and of      *)
(* records, flags) are its header.                                         *)
(***************************************************************************)
EXTENDS GameModel

CONSTANTS
  U32Max,    (* the largest std::uint32_t, scaled                             *)
  SizeMax    (* the largest std::size_t, scaled                               *)

ASSUME WidthAssumption ==
  U32Max \in Nat /\ SizeMax \in Nat /\ 4095 <= U32Max /\ U32Max <= SizeMax

Aligned(n, alignment) == ((n + alignment - 1) \div alignment) * alignment

(* A reference to no string, and the error of a step that fails. *)
NoString == 0
Refused == [ok |-> FALSE]

-----------------------------------------------------------------------------
(* The writer *)

(* collect_strings: of the metadata fields planned, and of the annotations. *)
StringsOf(fields, tree) ==
  {field.text : field \in {f \in Range(fields) : f.type = 5}}
    \cup UNION {AnnotationTexts(a) : a \in Annotations(tree)}

RecordSize(bytes) == Aligned(4 + Len(bytes), 4)

(* The strings in order, each with its reference. *)
Placement(strings) ==
  LET sorted == InOrder(strings, BytesLess)
      offset[i \in 1 .. Len(sorted) + 1] ==
        IF i = 1 THEN 8 ELSE offset[i - 1] + RecordSize(sorted[i - 1])
  IN  [sorted |-> sorted, size |-> offset[Len(sorted) + 1],
       reference |-> [bytes \in strings |->
                        offset[CHOOSE i \in DOMAIN sorted : sorted[i] = bytes]]]

PoolFits(placed) ==
  /\ Len(placed.sorted) <= Limits.strings
  /\ placed.sorted # <<>> => placed.size <= Limits.total_string_bytes

BuildStringPool(placed) ==
  [header |-> <<1, 8>>, count |-> Len(placed.sorted), size |-> placed.size,
   records |-> [i \in DOMAIN placed.sorted |->
                  [bytes |-> placed.sorted[i], padding |-> 0]]]

-----------------------------------------------------------------------------
(* The reader *)

(* Mutant: the order is not looked at between the first two strings.        *)
LaterAscending(records) ==
  \A i \in 3 .. Len(records) : BytesLess(records[i - 1].bytes, records[i].bytes)

Ascending(records) ==
  \A i \in 2 .. Len(records) : BytesLess(records[i - 1].bytes, records[i].bytes)

(* Where the records begin, and where they end. *)
Offsets(records) ==
  LET offset[i \in 1 .. Len(records) + 1] ==
        IF i = 1 THEN 8 ELSE offset[i - 1] + RecordSize(records[i - 1].bytes)
  IN  offset

(* The strings at their references, and whether they are in canonical form. *)
PoolView(records) ==
  LET offset == Offsets(records)
  IN  [ok |-> TRUE,
       text |-> [reference \in {offset[i] : i \in DOMAIN records} |->
                   records[CHOOSE i \in DOMAIN records : offset[i] = reference].bytes],
       canonical_order |-> Ascending(records),
       canonical_nfc |-> \A i \in DOMAIN records : IsNfc(TextOf(records[i].bytes))]

(* read_string_pool: the records fill the section exactly. *)
ReadStringPool(payload) ==
  IF /\ payload.size <= Limits.total_string_bytes
     /\ payload.header = <<1, 8>>
     /\ payload.count <= Limits.strings /\ payload.count = Len(payload.records)
     /\ payload.size = Offsets(payload.records)[payload.count + 1]
     /\ \A record \in Range(payload.records) :
          /\ Len(record.bytes) <= Limits.string_bytes
          /\ ValidUtf8(record.bytes)
          /\ record.padding = 0
  THEN PoolView(payload.records)
  ELSE Refused
=============================================================================
