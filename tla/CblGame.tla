------------------------------- MODULE CblGame -------------------------------
(***************************************************************************)
(* Games and CBL records: what the reader makes of a record                *)
(* (convert/cbl_reader.cpp), and what the writer finds that a record       *)
(* cannot express (the preflight of convert/cbl_writer.cpp).               *)
(*                                                                         *)
(* A loss is the field that loses something; warnings are left out.        *)
(***************************************************************************)
EXTENDS CblRecord

-----------------------------------------------------------------------------
(* The reader *)

(* uuid_v5 of the whole file, the slot and the record; here the slot alone  *)
(* tells the derived uuids apart.                                           *)
DerivedUuid(slot) ==
  [i \in 1 .. 16 |-> CASE i = 1 -> slot [] i = 7 -> 80 [] i = 9 -> 128 [] OTHER -> 1]

(* choose_game_uuid *)
ChosenUuid(guid, directory, slot) ==
  IF ValidUuid(guid) THEN guid
  ELSE IF DirectoryUuid(directory) # NoUuid THEN DirectoryUuid(directory)
  ELSE DerivedUuid(slot)

(* valid_day_date: a calendar has no year 0 here. *)
ValidDayDate(bytes) == DatePrecision(bytes) = "day" /\ Number(bytes, 1, 4) # 0

Ratings == {"red_rating", "black_rating"}

(* map_metadata, the standard fields; in a record, a text is absent when it *)
(* is empty.                                                                *)
MappedValues(library, entry, record, uuid) ==
  LET texts == record.texts
      present(field, bytes) == IF bytes = <<>> THEN <<>> ELSE field :> bytes
      plain == [field \in DOMAIN texts \ (Ratings \cup {"start_time"}) |-> texts[field]]
      title == IF "title" \in DOMAIN texts THEN <<>> ELSE present("title", entry.title)
      date == IF "start_time" \in DOMAIN texts /\ ValidDayDate(texts.start_time)
              THEN [start_time |-> texts.start_time, date_precision |-> 3] ELSE <<>>
      ratings == [field \in {f \in Ratings \cap DOMAIN texts : ParsedInteger(texts[f]).ok} |->
                    ParsedInteger(texts[field]).value]
  IN  plain @@ title @@ date @@ ratings @@ present("opening_code", record.ecco)
        @@ present("source_library_name", library.name)
        @@ [source_format |-> <<67, 66, 76>>, source_format_version |-> <<51>>,
            source_record_id |-> UuidText(uuid), source_library_id |-> UuidText(library.uuid),
            result |-> IF record.result \in 1 .. 3 THEN record.result ELSE 0]

(* The extensions that it keeps of the record, by name. *)
MappedExtensions(entry, record) ==
  LET texts == record.texts
      kept(key, field) == IF field \in DOMAIN texts THEN key :> texts[field] ELSE <<>>
      raw(key, field, readable) ==
        IF field \in DOMAIN texts /\ ~readable THEN key :> texts[field] ELSE <<>>
      rating(field) == field \in DOMAIN texts /\ ParsedInteger(texts[field]).ok
      strings ==
        [physical_slot |-> DecimalText(entry.slot),
         display_index |-> DecimalText(entry.display_index),
         directory_uuid |-> entry.uuid, directory_title |-> entry.title,
         record_guid |-> UuidText(record.guid),
         record_type |-> DecimalText(record.record_type),
         result |-> DecimalText(record.result),
         source_fullmove_number |-> DecimalText(record.source_fullmove),
         root_marker |-> record.root_marker]
        @@ kept("record_kind", "game_type") @@ kept("result_text", "result_text")
        @@ raw("date_raw", "start_time",
               "start_time" \in DOMAIN texts /\ ValidDayDate(texts.start_time))
        @@ raw("red_rating_raw", "red_rating", rating("red_rating"))
        @@ raw("black_rating_raw", "black_rating", rating("black_rating"))
      controls == [i \in DOMAIN record.controls |-> Hex4(record.controls[i])]
  IN  [key \in {Key[name] : name \in DOMAIN strings \cup {"source_controls"}} |->
         IF NameOf[key] = "source_controls" THEN [array |-> TRUE, items |-> controls]
         ELSE [array |-> FALSE, items |-> <<strings[NameOf[key]]>>]]

MappedGame(library, entry, record) ==
  LET uuid == ChosenUuid(record.guid, entry.uuid, entry.slot)
  IN  [uuid |-> uuid, position |-> record.position, tree |-> record.tree,
       metadata |-> [values |-> MappedValues(library, entry, record, uuid), tags |-> <<>>,
                     extensions |-> CblNamespace :> MappedExtensions(entry, record)]]

(* The losses that the reader reports of a record. *)
ReadLosses(record) ==
  (IF record.result > 3 THEN {"result"} ELSE {})
    \cup (IF record.source_fullmove \in 1 .. 65535 THEN {} ELSE {"fullmove_number"})

-----------------------------------------------------------------------------
(* The preflight of the writer *)

(* Metadata that a CBL has no place for. *)
Unsupported ==
  {"red_id", "red_country", "red_title", "black_id", "black_country", "black_title",
   "event_id", "organizer", "end_time", "opening_name", "opening_id", "import_note",
   "source_format", "source_record_id", "source_format_version", "source_library_id",
   "source_library_name"}

(* The texts that are checked against a slot: a date only when it has the   *)
(* precision of a day.                                                      *)
Fits(bytes, size) == Len(Utf16(bytes)) <= size \div 2 - 1

EccoFits(bytes) == Len(bytes) <= 3 /\ \A i \in DOMAIN bytes : bytes[i] \in 1 .. 127

(* restorable_cbl_extension *)
Restorable(key, value, game) ==
  LET values == game.metadata.values
      name == IF key \in DOMAIN NameOf THEN NameOf[key] ELSE "unknown"
      number == DecimalValue(value.items[1])
      same(field) == field \in DOMAIN values /\ values[field] = value.items[1]
  IN  IF value.array
      THEN /\ name = "source_controls" /\ Len(value.items) = Len(game.tree.nodes)
           /\ \A i \in DOMAIN value.items : HexText(value.items[i], 4)
      ELSE CASE name \in {"record_type", "result"} -> number \in 0 .. 4
             [] name = "source_fullmove_number" -> number # Refuse
             [] name = "root_marker" -> HexText(value.items[1], 8)
             [] name = "record_kind" -> same("game_type")
             [] name = "result_text" -> same("result_text")
             [] OTHER -> FALSE

(* Mutant: what a date loses is not looked at. *)
MetadataLossesUndated(game) ==
  LET metadata == game.metadata
      values == metadata.values
      empty == {f \in (DOMAIN Slots \cup {"opening_code"}) \cap DOMAIN values \cap TextFields :
                  values[f] = <<>>}
  IN  empty
        \cup (DOMAIN values \cap Unsupported)
        \cup (IF metadata.tags # <<>> THEN {"tags"} ELSE {})
        \cup (IF "result" \in DOMAIN values /\ values.result \in 0 .. 3 THEN {} ELSE {"result"})
        \cup {"extensions" : name \in {n \in DOMAIN metadata.extensions :
                \E key \in DOMAIN metadata.extensions[n] :
                  ~(n = CblNamespace /\ Restorable(key, metadata.extensions[n][key], game))}}

(* check_metadata, the losses *)
MetadataLosses(game) ==
  LET metadata == game.metadata
      values == metadata.values
      empty == {f \in (DOMAIN Slots \cup {"opening_code"}) \cap DOMAIN values \cap TextFields :
                  values[f] = <<>>}
      dated == "start_time" \in DOMAIN SlotTexts(game)
  IN  empty
        \cup (DOMAIN values \cap Unsupported)
        \cup (IF "start_time" \in DOMAIN values /\ ~dated THEN {"start_time"} ELSE {})
        \cup (IF metadata.tags # <<>> THEN {"tags"} ELSE {})
        \cup (IF "result" \in DOMAIN values /\ values.result \in 0 .. 3 THEN {} ELSE {"result"})
        \cup {"extensions" : name \in {n \in DOMAIN metadata.extensions :
                \E key \in DOMAIN metadata.extensions[n] :
                  ~(n = CblNamespace /\ Restorable(key, metadata.extensions[n][key], game))}}

(* combined_comment_bytes, the losses *)
AnnotationLosses(game) ==
  LET changed(a) == a.kind # 0 \/ a.before_move \/ a.author # None \/ a.language # None
                      \/ CarriageReturns(a.text) # {}
  IN  IF \E node \in Range(game.tree.nodes) :
           Len(node.annotations) > 1 \/ \E a \in Range(node.annotations) : changed(a)
      THEN {"annotations"} ELSE {}

(* Mutant: a carriage return and its line feed count as two units.          *)
CommentBytesUnpaired(annotations) ==
  LET units(a) == Len(Utf16(a.text))
      sum == FoldLeft(LAMBDA n, a : n + units(a), 2 * (Len(annotations) - 1), annotations)
  IN  IF annotations = <<>> THEN 0 ELSE 4 + 2 * sum

(* What the comment of a node will take; a text that is no UTF-8 counts for  *)
(* nothing.                                                                 *)
CommentBytes(annotations) ==
  LET units(a) == IF ValidUtf8(a.text) THEN Len(Utf16(a.text)) - Cardinality(Pairs(a.text)) ELSE 0
      sum == FoldLeft(LAMBDA n, a : n + units(a), 2 * (Len(annotations) - 1), annotations)
  IN  IF annotations = <<>> THEN 0 ELSE 4 + 2 * sum

(* Mutant: the length of the comment is not counted off. *)
CommentFitsLoosely(annotations) == CommentBytes(annotations) <= CblLimits.comment_bytes + 8

CommentFits(annotations) == CommentBytes(annotations) <= CblLimits.comment_bytes + 4

(* combined_comment_bytes, the result: a comment that is too long makes the *)
(* game unwritable, and its bytes are not counted.                          *)
PlannedComment(annotations) == IF CommentFits(annotations) THEN CommentBytes(annotations) ELSE 0

PlannedSize(game) ==
  FoldLeft(LAMBDA n, node : n + PlannedComment(node.annotations),
           PrefixSize + 4 * Max({0, Len(game.tree.nodes) - 1}), game.tree.nodes)

(* Nothing forbids to write the game, whatever it loses. *)
Writable(game) ==
  LET texts == SlotTexts(game)
      values == game.metadata.values
  IN  /\ ValidGame(game)
      /\ \A field \in DOMAIN texts : Fits(texts[field], Slots[field])
      /\ "opening_code" \in DOMAIN values => EccoFits(values.opening_code)
      /\ \A node \in Range(game.tree.nodes) : CommentFits(node.annotations)
      /\ PlannedSize(game) <= CblLimits.record_bytes
=============================================================================
