----------------------------- MODULE OxqContainer -----------------------------
(***************************************************************************)
(* The container of an .oxq file: its header, the table of its sections    *)
(* and their places (build_container in core/writer.cpp,                   *)
(* core/codec/container.cpp, core/codec/binary.hpp).                       *)
(*                                                                         *)
(* A file keeps what lies in it: the header, the table at the place where  *)
(* it is, the payloads at theirs, and whether the bytes between them are   *)
(* zero.  A CRC stands for the bytes it covers: a change of one field      *)
(* always changes it.                                                      *)
(***************************************************************************)
EXTENDS OxqStrings

HeaderSize == 64
EntrySize == 40
Magic == 1

Crc(bytes) == bytes

(* What a read of bytes that are no whole payload yields; every reader of a *)
(* section refuses it.                                                      *)
Garbled == [header |-> <<>>, size |-> 0]

-----------------------------------------------------------------------------
(* The writer *)

(* Mutant: a section begins right where the one before it ends. *)
PlacedUnaligned(payloads) ==
  LET offset[i \in 1 .. Len(payloads) + 1] ==
        IF i = 1 THEN HeaderSize + Len(payloads) * EntrySize
        ELSE offset[i - 1] + payloads[i - 1].size
  IN  offset

(* Where the sections begin, and last where the file ends. *)
PlacedSections(payloads) ==
  LET offset[i \in 1 .. Len(payloads) + 1] ==
        IF i = 1 THEN Aligned(HeaderSize + Len(payloads) * EntrySize, 8)
        ELSE Aligned(offset[i - 1] + payloads[i - 1].size, 8)
  IN  offset

Entry(type, flags, offset, payload) ==
  [type |-> type, flags |-> flags, offset |-> offset, stored_size |-> payload.size,
   logical_size |-> payload.size, crc |-> Crc(payload), reserved |-> 0]

(* build_container *)
BuildContainer(uuid, payloads) ==
  LET offset == PlacedSections(payloads)
      size == offset[Len(payloads) + 1]
      table == [i \in DOMAIN payloads |-> Entry(i, 1, offset[i], payloads[i])]
      header == [magic |-> Magic, version |-> <<1, 0, HeaderSize>>, file_size |-> size,
                 table_offset |-> HeaderSize, section_count |-> Len(payloads), flags |-> 0,
                 uuid |-> uuid, table_crc |-> Crc(table)]
  IN  IF size <= Limits.file_size
      THEN [ok |-> TRUE,
            file |-> [size |-> size, header |-> header, header_crc |-> Crc(header),
                      table_at |-> HeaderSize, table |-> table, gaps |-> 0,
                      payloads |-> [at \in {offset[i] : i \in DOMAIN payloads} |->
                                      payloads[CHOOSE i \in DOMAIN payloads : offset[i] = at]]]]
      ELSE Refused

-----------------------------------------------------------------------------
(* The reader *)

(* The payload that lies in a range of the file. *)
PayloadAt(file, offset, size) ==
  IF offset \in DOMAIN file.payloads /\ file.payloads[offset].size = size
  THEN file.payloads[offset] ELSE Garbled

(* overlaps; its sums have been checked before. *)
Overlaps(left, leftSize, right, rightSize) ==
  left < right + rightSize /\ right < left + leftSize

TableSize(header) == header.section_count * EntrySize

Entries(file) ==
  SubSeq(file.table, 1, Min({file.header.section_count, Len(file.table)}))

(* The checks of the header, and of the place and the CRC of the table.  A  *)
(* table that runs on over what comes after it has no such CRC.             *)
ReadableHeader(file) ==
  LET header == file.header
  IN  /\ file.size <= Limits.file_size
      /\ header.magic = Magic /\ header.version = <<1, 0, HeaderSize>>
      /\ file.header_crc = Crc(header)
      /\ header.file_size = file.size
      /\ header.section_count \in 5 .. Limits.sections
      /\ header.flags = 0
      /\ ValidUuid(header.uuid)
      /\ header.table_offset + TableSize(header) <= SizeMax
      /\ header.table_offset >= HeaderSize
      /\ header.table_offset + TableSize(header) <= file.size
      /\ header.table_offset = file.table_at
      /\ header.section_count <= Len(file.table)
      /\ header.table_crc = Crc(Entries(file))

(* Mutant: the end of a section wraps around. *)
ReadableEntryWrapped(file, i) ==
  LET entry == file.table[i]
      end == (entry.offset + entry.stored_size) % (SizeMax + 1)
  IN  /\ entry.type # 0 /\ \A j \in 1 .. i - 1 : file.table[j].type # entry.type
      /\ entry.flags = IF entry.type \in 1 .. 5 THEN 1 ELSE 0
      /\ entry.stored_size = entry.logical_size
      /\ entry.offset % 8 = 0 /\ end <= file.size
      /\ ~Overlaps(entry.offset, entry.stored_size, 0, HeaderSize)
      /\ ~Overlaps(entry.offset, entry.stored_size,
                   file.header.table_offset, TableSize(file.header))
      /\ \A j \in 1 .. i - 1 :
           ~Overlaps(entry.offset, entry.stored_size,
                     file.table[j].offset, file.table[j].stored_size)
      /\ entry.reserved = 0
      /\ entry.crc = Crc(PayloadAt(file, entry.offset, entry.stored_size))

(* An entry on its own and against the ones before it: sections of the five *)
(* types are critical, any other one must be safe to skip.                  *)
ReadableEntry(file, i) ==
  LET entry == file.table[i]
      end == entry.offset + entry.stored_size
  IN  /\ entry.type # 0 /\ \A j \in 1 .. i - 1 : file.table[j].type # entry.type
      /\ entry.flags = IF entry.type \in 1 .. 5 THEN 1 ELSE 0
      /\ entry.stored_size = entry.logical_size
      /\ end <= SizeMax
      /\ entry.offset % 8 = 0 /\ end <= file.size
      /\ ~Overlaps(entry.offset, entry.stored_size, 0, HeaderSize)
      /\ ~Overlaps(entry.offset, entry.stored_size,
                   file.header.table_offset, TableSize(file.header))
      /\ \A j \in 1 .. i - 1 :
           ~Overlaps(entry.offset, entry.stored_size,
                     file.table[j].offset, file.table[j].stored_size)
      /\ entry.reserved = 0
      /\ entry.crc = Crc(PayloadAt(file, entry.offset, entry.stored_size))

(* Mutant: the bytes between the regions are not looked at. *)
PaddingUnread(file) == Len(file.table) = Len(Entries(file))

(* No payload, nor an entry of the table, lies outside the registered       *)
(* regions; neither is all zero.                                            *)
NothingHidden(file) ==
  LET entries == Entries(file)
  IN  /\ file.gaps = 0
      /\ \A at \in DOMAIN file.payloads :
           \E i \in DOMAIN entries :
             /\ entries[i].offset <= at
             /\ at + file.payloads[at].size <= entries[i].offset + entries[i].stored_size
      /\ Len(file.table) = Len(entries)

(* inspect_container *)
InspectContainer(file) ==
  LET entries == Entries(file)
      types == {entries[i].type : i \in DOMAIN entries}
      of(type) == entries[CHOOSE i \in DOMAIN entries : entries[i].type = type]
  IN  IF /\ ReadableHeader(file)
         /\ \A i \in DOMAIN entries : ReadableEntry(file, i)
         /\ 1 .. 5 \subseteq types
         /\ NothingHidden(file)
      THEN [ok |-> TRUE, uuid |-> file.header.uuid,
            section |-> [type \in types |->
                           PayloadAt(file, of(type).offset, of(type).stored_size)],
            unknown |-> Cardinality(types \ 1 .. 5),
            canonical_order |->
              \A i \in 2 .. Len(entries) :
                entries[i - 1].type < entries[i].type /\ entries[i - 1].offset <= entries[i].offset]
      ELSE Refused
=============================================================================
