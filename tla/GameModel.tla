------------------------------ MODULE GameModel ------------------------------
(***************************************************************************)
(* A game as the core library holds it (core/game_model.hpp), what makes   *)
(* it valid (core/validation.cpp) and what the writer does to its texts    *)
(* before it writes them (normalize in core/writer.cpp).                   *)
(*                                                                         *)
(* A game has a uuid, metadata, the initial position and a tree of moves.  *)
(* Its metadata are the values of the fields that are present, the tags    *)
(* and the extensions.  Texts are bytes; enumerators are their numbers.    *)
(***************************************************************************)
EXTENDS MoveTree, MetadataText

CONSTANT Limits   (* ValidationLimits, WriterLimits and ReaderLimits, scaled   *)

ASSUME LimitsAssumption ==
  /\ DOMAIN Limits = {"pieces", "nodes", "annotations", "tree_depth", "string_bytes",
                      "strings", "total_string_bytes", "metadata_fields",
                      "extended_metadata_bytes", "file_size", "sections"}
  /\ \A limit \in DOMAIN Limits : Limits[limit] \in Nat

TextFields ==
  {"red_name", "red_id", "red_country", "red_title", "red_team", "red_time_used",
   "black_name", "black_id", "black_country", "black_title", "black_team",
   "black_time_used", "event_name", "event_id", "location", "organizer", "round",
   "event_type", "group", "board_number", "time_control", "start_time", "end_time",
   "result_text", "opening_name", "opening_code", "opening_id", "title", "game_type",
   "referee", "recorder", "commentator", "commentator_uri", "creator", "creator_uri",
   "record_created_at", "record_modified_at", "source_format", "source_record_id",
   "source_uri", "import_note", "source_format_version", "source_library_id",
   "source_library_name", "source_category"}

NumberFields == {"red_rating", "black_rating", "date_precision", "result"}

Annotations(tree) == UNION {Range(node.annotations) : node \in Range(tree.nodes)}

AnnotationTexts(annotation) ==
  {annotation.text, annotation.author, annotation.language} \ {None}

ExtensionTexts(extensions) ==
  UNION {UNION {Range(properties[key].items) : key \in DOMAIN properties} :
           properties \in Range(extensions)}

(* The texts that validation looks at. *)
TextsOf(game) ==
  {game.metadata.values[field] : field \in DOMAIN game.metadata.values \cap TextFields}
    \cup Range(game.metadata.tags)
    \cup ExtensionTexts(game.metadata.extensions)
    \cup UNION {AnnotationTexts(a) : a \in Annotations(game.tree)}

-----------------------------------------------------------------------------
(* validate, without the warning about duplicate tags *)

ValidUuid(uuid) ==
  (\E i \in 1 .. 16 : uuid[i] # 0) /\ (uuid[9] \div 64) % 4 = 2

ValidPosition(position) ==
  /\ position.side_to_move \in 0 .. 1
  /\ position.fullmove # 0
  /\ Len(position.pieces) <= Limits.pieces
  /\ \A i \in DOMAIN position.pieces :
       LET piece == position.pieces[i]
       IN  /\ piece.side \in 0 .. 1 /\ piece.type \in 1 .. 7 /\ piece.square \in 0 .. 89
           /\ \A j \in 1 .. i - 1 : position.pieces[j].square # piece.square

Depths(tree) ==
  LET depth[id \in Ids(tree)] ==
        IF id = Root THEN 0 ELSE 1 + depth[Node(tree, id).parent]
  IN  depth

ValidTree(tree) ==
  LET nodes == tree.nodes
  IN  /\ nodes # <<>> /\ Len(nodes) <= Limits.nodes
      /\ WellFormed(tree)
      /\ \A i \in DOMAIN nodes \ {1} :
           /\ nodes[i].move # None
           /\ nodes[i].move.from \in 0 .. 89 /\ nodes[i].move.to \in 0 .. 89
           /\ nodes[i].move.from # nodes[i].move.to
      /\ \A annotation \in Range(nodes[1].annotations) : ~annotation.before_move
      /\ \A id \in Ids(tree) : Depths(tree)[id] <= Limits.tree_depth

CountAnnotations(tree) ==
  FoldLeft(LAMBDA n, node : n + Len(node.annotations), 0, tree.nodes)

ValidText(bytes) == Len(bytes) <= Limits.string_bytes /\ ValidUtf8(bytes)

Precisions == <<"year", "month", "day", "minute", "second", "subsecond">>

(* A date has the precision that the metadata give, unless it is unknown.   *)
DateMatches(bytes, precision) ==
  LET actual == DatePrecision(bytes)
  IN  actual # NoPrecision /\ (precision = 0 \/ actual = Precisions[precision])

ValidDates(values) ==
  LET dates == DOMAIN values \cap {"start_time", "end_time"}
  IN  /\ dates # {} <=> "date_precision" \in DOMAIN values
      /\ dates # {} =>
           /\ values.date_precision \in 0 .. Len(Precisions)
           /\ \A date \in dates : DateMatches(values[date], values.date_precision)

ValidExtensions(extensions) ==
  \A name \in DOMAIN extensions :
    /\ ValidNamespace(name)
    /\ extensions[name] # <<>>
    /\ \A key \in DOMAIN extensions[name] :
         ValidKey(key) /\ extensions[name][key].items # <<>>

ValidMetadata(metadata) ==
  /\ "result" \in DOMAIN metadata.values => metadata.values.result \in 0 .. 5
  /\ ValidDates(metadata.values)
  /\ ValidExtensions(metadata.extensions)

(* validate reports no error. *)
ValidGame(game) ==
  /\ ValidUuid(game.uuid)
  /\ ValidPosition(game.position)
  /\ ValidTree(game.tree)
  /\ CountAnnotations(game.tree) <= Limits.annotations
  /\ \A annotation \in Annotations(game.tree) : annotation.kind \in 0 .. 1
  /\ \A bytes \in TextsOf(game) : ValidText(bytes)
  /\ ValidMetadata(game.metadata)

-----------------------------------------------------------------------------
(* normalize *)

NfcBytes(bytes) == Utf8(Nfc(TextOf(bytes)))

NormalizedItems(items) == [i \in DOMAIN items |-> NfcBytes(items[i])]

NormalizedExtensions(extensions) ==
  [name \in DOMAIN extensions |->
     [key \in DOMAIN extensions[name] |->
        [extensions[name][key] EXCEPT !.items = NormalizedItems(@)]]]

NormalizedAnnotation(annotation) ==
  LET optional(bytes) == IF bytes = None THEN None ELSE NfcBytes(bytes)
  IN  [annotation EXCEPT !.text = NfcBytes(@), !.author = optional(@), !.language = optional(@)]

Normalized(game) ==
  [game EXCEPT
     !.metadata.values =
        [field \in DOMAIN @ |->
           IF field \in TextFields THEN NfcBytes(@[field]) ELSE @[field]],
     !.metadata.tags = NormalizedItems(@),
     !.metadata.extensions = NormalizedExtensions(@),
     !.tree.nodes =
        [i \in DOMAIN @ |->
           [@[i] EXCEPT !.annotations =
              [k \in DOMAIN @ |-> NormalizedAnnotation(@[k])]]]]
=============================================================================
