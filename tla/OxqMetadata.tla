----------------------------- MODULE OxqMetadata -----------------------------
(***************************************************************************)
(* The metadata section of an .oxq file: the fields the writer plans       *)
(* (core/writer.cpp) and what the reader makes of them                     *)
(* (core/codec/metadata.cpp).  The two have a table of tags each.          *)
(***************************************************************************)
EXTENDS OxqStrings

TagsField == "tags"
TagsTag == \h51
ExtensionsTag == \h7FFF

U32 == 1
I32 == 2
StringRef == 5
Bytes == 6
Boolean == 7
Repeated == 2
Critical == 1

-----------------------------------------------------------------------------
(* The writer *)

WriterTags ==
  LET from(first, names) ==
        [field \in Range(names) |-> first - 1 + CHOOSE i \in DOMAIN names : names[i] = field]
  IN  from(1, <<"red_name", "black_name", "red_id", "black_id", "red_country",
                "black_country", "red_rating", "black_rating", "red_title", "black_title",
                "red_team", "black_team", "red_time_used", "black_time_used">>)
        @@ from(\h10, <<"event_name", "event_id", "location", "organizer", "round",
                        "event_type", "group", "board_number", "time_control">>)
        @@ from(\h20, <<"start_time", "end_time", "date_precision">>)
        @@ from(\h30, <<"result", "result_text">>)
        @@ from(\h40, <<"opening_name", "opening_code", "opening_id">>)
        @@ from(\h50, <<"title", TagsField, "game_type">>)
        @@ from(\h60, <<"referee", "recorder", "commentator", "commentator_uri",
                        "creator", "creator_uri", "record_created_at",
                        "record_modified_at">>)
        @@ from(\h100, <<"source_format", "source_record_id", "source_uri",
                         "import_note", "source_format_version", "source_library_id",
                         "source_library_name", "source_category">>)

(* Signed values are written as the u32 of the same bits. *)
TwosComplement(n) == n % (U32Max + 1)

PlannedField(values, field) ==
  LET tag == WriterTags[field]
  IN  CASE field \in TextFields ->
             [tag |-> tag, type |-> StringRef, flags |-> 0, text |-> values[field]]
        [] field \in {"red_rating", "black_rating"} ->
             [tag |-> tag, type |-> I32, flags |-> 0, number |-> TwosComplement(values[field])]
        [] OTHER -> [tag |-> tag, type |-> U32, flags |-> 0, number |-> values[field]]

PlannedTags(tags) ==
  LET sorted == InOrder(Range(tags), BytesLess)
  IN  [i \in DOMAIN sorted |->
         [tag |-> TagsTag, type |-> StringRef, flags |-> Repeated, text |-> sorted[i]]]

(* plan_metadata: the fields that are there by their tags. *)
PlanMetadata(metadata) ==
  LET fields == {PlannedField(metadata.values, f) : f \in DOMAIN metadata.values}
      before(tag) == {f \in fields : f.tag < tag}
      byTag(set) == InOrder(set, LAMBDA f, g : f.tag < g.tag)
      extensions ==
        IF metadata.extensions = <<>> THEN <<>>
        ELSE <<[tag |-> ExtensionsTag, type |-> StringRef, flags |-> 0,
                text |-> SerializedExtensions(metadata.extensions)]>>
  IN  byTag(before(TagsTag)) \o PlannedTags(metadata.tags)
        \o byTag(fields \ before(TagsTag)) \o extensions

MetadataFits(fields) ==
  /\ Len(fields) <= Limits.metadata_fields
  /\ \A field \in Range(fields) :
       field.tag = ExtensionsTag => Len(field.text) <= Limits.extended_metadata_bytes

BuildMetadata(fields, placed) ==
  LET written(field) ==
        [tag |-> field.tag, type |-> field.type, flags |-> field.flags, length |-> 4,
         padding |-> 0,
         value |-> IF field.type = StringRef THEN placed.reference[field.text]
                   ELSE field.number]
  IN  [header |-> <<1, 8>>, count |-> Len(fields), size |-> 8 + 12 * Len(fields),
       fields |-> [i \in DOMAIN fields |-> written(fields[i])]]

-----------------------------------------------------------------------------
(* The reader *)

ReaderFields ==
  LET from(first, names) ==
        [tag \in first .. first + Len(names) - 1 |-> names[tag - first + 1]]
  IN  from(1, <<"red_name", "black_name", "red_id", "black_id", "red_country",
                "black_country", "red_rating", "black_rating", "red_title", "black_title",
                "red_team", "black_team", "red_time_used", "black_time_used">>)
        @@ from(\h10, <<"event_name", "event_id", "location", "organizer", "round",
                        "event_type", "group", "board_number", "time_control">>)
        @@ from(\h20, <<"start_time", "end_time", "date_precision">>)
        @@ from(\h30, <<"result", "result_text">>)
        @@ from(\h40, <<"opening_name", "opening_code", "opening_id">>)
        @@ from(\h50, <<"title", TagsField, "game_type">>)
        @@ from(\h60, <<"referee", "recorder", "commentator", "commentator_uri",
                        "creator", "creator_uri", "record_created_at",
                        "record_modified_at">>)
        @@ from(\h100, <<"source_format", "source_record_id", "source_uri",
                         "import_note", "source_format_version", "source_library_id",
                         "source_library_name", "source_category">>)

Standard(tag) == tag = ExtensionsTag \/ tag \in DOMAIN ReaderFields

StandardType(tag) ==
  CASE tag \in {7, 8} -> I32
    [] tag \in {\h22, \h30} -> U32
    [] OTHER -> StringRef

(* fixed_length of the known types; bytes and unknown types have any.       *)
LengthFits(type, length) ==
  CASE type \in {U32, I32, StringRef} -> length = 4
    [] type \in {3, 4} -> length = 8
    [] type = Boolean -> length = 1
    [] OTHER -> TRUE

(* A field on its own: its flags, type and value. *)
ReadableField(field, strings) ==
  /\ field.tag # 0 /\ field.flags \in 0 .. 3
  /\ Standard(field.tag) =>
       /\ field.flags = IF field.tag = TagsTag THEN Repeated ELSE 0
       /\ field.type = StandardType(field.tag)
  /\ field.flags % 2 # Critical
  /\ LengthFits(field.type, field.length)
  /\ field.type = StringRef => field.value # NoString /\ field.value \in DOMAIN strings.text
  /\ field.type = Boolean => field.value <= 1
  /\ field.tag = \h22 => field.value <= 6
  /\ field.tag = \h30 => field.value <= 5
  /\ field.padding = 0

FieldsSize(fields) ==
  LET upTo[i \in 0 .. Len(fields)] ==
        IF i = 0 THEN 8 ELSE upTo[i - 1] + 8 + Aligned(fields[i].length, 4)
  IN  upTo[Len(fields)]

(* A tag occurs again only if the field and the last one of it are repeated. *)
Repeatable(fields) ==
  \A i, j \in DOMAIN fields :
    i < j /\ fields[i].tag = fields[j].tag =>
      fields[i].flags \in 2 .. 3 /\ fields[j].flags \in 2 .. 3

CanonicalFields(fields, strings) ==
  \A i \in 2 .. Len(fields) :
    /\ fields[i - 1].tag <= fields[i].tag
    /\ fields[i - 1].tag = TagsTag /\ fields[i].tag = TagsTag =>
         BytesLess(strings.text[fields[i - 1].value], strings.text[fields[i].value])

(* read_metadata: the fields fill the section exactly. *)
ReadMetadata(payload, strings) ==
  IF /\ payload.header = <<1, 8>>
     /\ payload.count <= Limits.metadata_fields /\ payload.count = Len(payload.fields)
     /\ payload.size = FieldsSize(payload.fields)
     /\ \A field \in Range(payload.fields) : ReadableField(field, strings)
     /\ Repeatable(payload.fields)
  THEN [ok |-> TRUE, fields |-> payload.fields,
        canonical_order |-> CanonicalFields(payload.fields, strings)]
  ELSE Refused

Signed(value) == IF value > U32Max \div 2 THEN value - (U32Max + 1) ELSE value

(* Mutant: a rating is taken as it stands. *)
DecodedUnsigned(field, strings) ==
  IF field.type = StringRef THEN strings.text[field.value] ELSE field.value

DecodedValue(field, strings) ==
  CASE field.type = StringRef -> strings.text[field.value]
    [] field.type = I32 -> Signed(field.value)
    [] OTHER -> field.value

DecodeExtensions(view, strings) ==
  LET json == {f \in Range(view.fields) : f.tag = ExtensionsTag}
      text == strings.text[(CHOOSE f \in json : TRUE).value]
  IN  IF json = {} THEN [ok |-> TRUE, value |-> <<>>, canonical |-> TRUE]
      ELSE IF Len(text) > Limits.extended_metadata_bytes THEN Refused
      ELSE ParseExtensions(text)

(* Unknown fields are skipped; dates are checked as the validation of a     *)
(* game checks them.                                                        *)
DecodedFields(view, strings, parsed) ==
  LET known == SelectSeq(view.fields, LAMBDA f : f.tag \in DOMAIN ReaderFields)
      single == {f \in Range(known) : f.tag # TagsTag}
      values == [name \in {ReaderFields[f.tag] : f \in single} |->
                   DecodedValue(CHOOSE f \in single : ReaderFields[f.tag] = name, strings)]
      tags == SelectSeq(known, LAMBDA f : f.tag = TagsTag)
  IN  IF parsed.ok /\ ValidDates(values)
      THEN [ok |-> TRUE, canonical_extensions |-> parsed.canonical,
            value |-> [values |-> values, extensions |-> parsed.value,
                       tags |-> [i \in DOMAIN tags |-> strings.text[tags[i].value]]]]
      ELSE Refused

(* decode_metadata *)
DecodeMetadata(view, strings) ==
  DecodedFields(view, strings, DecodeExtensions(view, strings))
=============================================================================
