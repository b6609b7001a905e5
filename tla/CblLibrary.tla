----------------------------- MODULE CblLibrary -----------------------------
(***************************************************************************)
(* A whole CBL library: write_cbl with its preflight                       *)
(* (convert/cbl_writer.cpp, cbl/container_writer.cpp), and read_cbl        *)
(* (convert/cbl_reader.cpp, cbl/container.cpp).                            *)
(*                                                                         *)
(* A file has a header, a directory and one record at the start of its     *)
(* blocks for each game.  Errors are told apart only in kind.              *)
(***************************************************************************)
EXTENDS CblGame

LibraryMagic == 1
LibraryVersion == 3
DirectoryOffset == 66624
DirectoryEntrySize == 276

LibrarySlots == [name |-> 768, author |-> 64, author_email |-> 64, created_at |-> 64,
                 modified_at |-> 64]

DirectoryEnd(capacity) == DirectoryOffset + capacity * DirectoryEntrySize

Blocks(bytes) == (bytes + CblLimits.block - 1) \div CblLimits.block

(* The total of the first n numbers of a sequence. *)
Total(numbers, n) == FoldLeft(LAMBDA sum, number : sum + number, 0, SubSeq(numbers, 1, n))

-----------------------------------------------------------------------------
(* The writer *)

(* choose_library_uuid: one that is given and usable, or one derived from   *)
(* the name of the library and its games.                                   *)
LibraryUuid(options) ==
  IF options.uuid # None /\ ValidUuid(options.uuid) THEN options.uuid ELSE DerivedUuid(200)

LibraryTextFits(bytes, size) == ValidUtf8(bytes) /\ Fits(bytes, size)

(* preflight_cbl_write *)
Preflight(games, options) ==
  LET capacity == Max({CblLimits.minimum_capacity, Len(games)})
      sizes == [i \in DOMAIN games |-> PlannedSize(games[i])]
      blocks == [i \in DOMAIN games |-> Blocks(sizes[i])]
      losses == UNION {MetadataLosses(games[i]) \cup AnnotationLosses(games[i]) :
                         i \in DOMAIN games}
  IN  [error |-> Len(games) > CblLimits.games \/ capacity > CblLimits.directory_entries,
       fatal |-> \/ \E slot \in DOMAIN options.texts :
                      ~LibraryTextFits(options.texts[slot], LibrarySlots[slot])
                 \/ \E i \in DOMAIN games : ~Writable(games[i]),
       capacity |-> capacity, sizes |-> sizes, losses |-> losses,
       size |-> DirectoryEnd(capacity) + CblLimits.block * Total(blocks, Len(blocks))]

RecordBytes(record) == PrefixSize + 2 * Len(record.words)

FreeEntry == [flags |-> 0, display_index |-> 0, blocks |-> 0, used |-> 0,
              uuid |-> <<>>, title |-> <<>>]

(* Mutant: a record begins where its own blocks end. *)
RecordEnd(capacity, blocks, i) ==
  DirectoryEnd(capacity) + CblLimits.block * Total(blocks, Min({i, Len(blocks)}))

(* A record begins where the blocks of those before it end. *)
RecordOffset(capacity, blocks, i) ==
  DirectoryEnd(capacity) + CblLimits.block * Total(blocks, i - 1)

(* encode_cbl_container, once every record has the planned size. *)
Contained(games, options, plan, records) ==
  LET sizes == [i \in DOMAIN games |-> RecordBytes(records[i])]
      blocks == [i \in DOMAIN games |-> Blocks(sizes[i])]
      offset(i) == RecordOffset(plan.capacity, blocks, i)
      title(game) == IF "title" \in DOMAIN game.metadata.values
                     THEN Utf16(game.metadata.values.title) ELSE <<>>
      entry(i) == [flags |-> 7, display_index |-> i - 1, blocks |-> blocks[i],
                   used |-> sizes[i], uuid |-> DirectoryText(games[i].uuid),
                   title |-> title(games[i])]
  IN  IF sizes # plan.sizes \/ offset(Len(games) + 1) # plan.size
      THEN [kind |-> "encoding_invariant"]
      ELSE [kind |-> "written",
            file |-> [size |-> plan.size, magic |-> LibraryMagic, version |-> LibraryVersion,
                      uuid |-> WindowsGuid(LibraryUuid(options)), capacity |-> plan.capacity,
                      slots |-> [slot \in DOMAIN options.texts |-> Utf16(options.texts[slot])],
                      directory |-> [k \in 1 .. plan.capacity |->
                                       IF k \in DOMAIN games THEN entry(k) ELSE FreeEntry],
                      records |-> [at \in {offset(i) : i \in DOMAIN games} |->
                                     records[CHOOSE i \in DOMAIN games : offset(i) = at]]]]

EncodedContainer(games, options, plan) ==
  Contained(games, options, plan, [i \in DOMAIN games |-> EncodedRecord(games[i])])

(* A library that is too large is an error, also when it would be rejected. *)
WriteAsPlanned(games, options, plan) ==
  IF plan.error \/ plan.size > CblLimits.file_size THEN [kind |-> "error"]
  ELSE IF plan.fatal \/ (options.strict /\ plan.losses # {}) THEN [kind |-> "rejected"]
  ELSE EncodedContainer(games, options, plan)

(* write_cbl *)
WriteCbl(games, options) == WriteAsPlanned(games, options, Preflight(games, options))

-----------------------------------------------------------------------------
(* The reader *)

(* classify *)
ResourceKind(flags) ==
  CASE flags % 2 = 0 -> "empty"
    [] flags % 8 = 3 -> "live_non_game"
    [] flags % 8 = 5 -> "deleted_game"
    [] flags % 8 = 7 -> "live_game"
    [] OTHER -> "allocated_unknown"

ResourceOffset(input, slot) ==
  LET blocks == [k \in 1 .. input.capacity |-> input.directory[k].blocks]
  IN  DirectoryEnd(input.capacity) + CblLimits.block * Total(blocks, slot - 1)

(* One entry: its blocks and what it uses of them, its texts, its record.   *)
ReadableResource(input, slot) ==
  LET entry == input.directory[slot]
      offset == ResourceOffset(input, slot)
      kind == ResourceKind(entry.flags)
  IN  /\ entry.used <= entry.blocks * CblLimits.block
      /\ entry.used <= CblLimits.record_bytes
      /\ offset + entry.blocks * CblLimits.block <= input.size
      /\ kind # "empty" =>
           Paired(UpToZero(entry.uuid)) /\ Paired(UpToZero(entry.title))
      /\ kind = "live_game" =>
           /\ entry.used >= 16 /\ offset \in DOMAIN input.records
           /\ input.records[offset].magic = RecordMagic

(* inspect_cbl_container.  A directory that claims more entries than there  *)
(* are takes a record for an entry, and finds too many blocks in its magic. *)
InspectCbl(input) ==
  LET slots == 1 .. input.capacity
      blocks == [k \in slots |-> input.directory[k].blocks]
  IN  /\ input.size <= CblLimits.file_size /\ input.size >= DirectoryOffset
      /\ input.magic = LibraryMagic /\ input.version = LibraryVersion
      /\ input.capacity <= CblLimits.directory_entries
      /\ DirectoryEnd(input.capacity) <= input.size
      /\ input.capacity <= Len(input.directory)
      /\ \A slot \in DOMAIN input.slots : Paired(UpToZero(input.slots[slot]))
      /\ Total(blocks, Len(blocks)) <= CblLimits.total_blocks
      /\ \A slot \in slots : ReadableResource(input, slot)

(* Mutant: the games are taken in the order of their slots. *)
LiveGamesBySlot(input) ==
  SetToSortSeq({slot \in 1 .. input.capacity :
                  ResourceKind(input.directory[slot].flags) = "live_game"}, LAMBDA s, t : s < t)

(* The live games in the order in which the reader converts them. *)
LiveGames(input) ==
  LET live == {slot \in 1 .. input.capacity :
                 ResourceKind(input.directory[slot].flags) = "live_game"}
      before(left, right) ==
        \/ input.directory[left].display_index < input.directory[right].display_index
        \/ /\ input.directory[left].display_index = input.directory[right].display_index
           /\ left < right
  IN  SetToSortSeq(live, before)

Unreadable == [kind |-> "error"]

(* One bad record fails the whole library; a strict reader gives no game at *)
(* all when one of them loses something.                                    *)
Converted(records, games, strict) ==
  LET losses == UNION {ReadLosses(records[i]) : i \in DOMAIN records}
  IN  IF \E i \in DOMAIN records : ~records[i].ok \/ ~ValidGame(games[i]) THEN Unreadable
      ELSE IF strict /\ losses # {} THEN [kind |-> "rejected"]
      ELSE [kind |-> "read", games |-> games]

(* A record and what the directory says of it become a game. *)
ReadGames(input, strict, live, records) ==
  LET library == [uuid |-> WindowsGuid(input.uuid),
                  name |-> FromUtf16(UpToZero(input.slots.name))]
      entry(slot) == [slot |-> slot - 1, display_index |-> input.directory[slot].display_index,
                      uuid |-> FromUtf16(UpToZero(input.directory[slot].uuid)),
                      title |-> FromUtf16(UpToZero(input.directory[slot].title))]
  IN  Converted(records,
                [i \in DOMAIN live |-> MappedGame(library, entry(live[i]), records[i])], strict)

ReadRecords(input, strict, live) ==
  ReadGames(input, strict, live,
            [i \in DOMAIN live |-> ReadRecord(input.records[ResourceOffset(input, live[i])],
                                              input.directory[live[i]].used)])

(* read_cbl *)
ReadCbl(input, strict) ==
  IF InspectCbl(input) THEN ReadRecords(input, strict, LiveGames(input)) ELSE Unreadable
=============================================================================
