------------------------------ MODULE CblRecord ------------------------------
(***************************************************************************)
(* The record of a game in a CBL library: cbl/record_writer.cpp and        *)
(* cbl/tree_writer.cpp encode it, cbl/record.cpp and cbl/tree.cpp read it. *)
(*                                                                         *)
(* A record is its fixed prefix, field by field, and the stream of nodes   *)
(* and comments behind it, word by word of 16 bits: a reader that takes a  *)
(* comment for a node reads what is there.  Zeros follow in the block.     *)
(***************************************************************************)
EXTENDS CblText

CONSTANT CblLimits   (* CblReaderLimits and CblWriteLimits, scaled             *)

ASSUME CblLimitsAssumption ==
  /\ DOMAIN CblLimits = {"games", "directory_entries", "minimum_capacity", "block",
                         "total_blocks", "file_size", "record_bytes", "nodes",
                         "tree_depth", "comment_bytes"}
  /\ \A limit \in DOMAIN CblLimits : CblLimits[limit] \in Nat \ {0}

PrefixSize == 2218
RecordMagic == 1
RecordVersion == 2

(* The slots for text in a record, each with its size in bytes. *)
Slots ==
  [field \in {"group", "board_number", "red_rating", "black_rating", "game_type",
              "result_text"} |-> 32]
    @@ [title |-> 128, source_category |-> 256]
    @@ [field \in {"source_uri", "event_type", "event_name", "round", "start_time",
                   "location", "time_control", "red_name", "red_team", "red_time_used",
                   "black_name", "black_team", "black_time_used", "referee", "recorder",
                   "commentator", "commentator_uri", "creator", "creator_uri",
                   "record_created_at", "record_modified_at"} |-> 64]

(* The ranks of a board go the other way round in a CBL. *)
Turned(square) == (9 - square \div 9) * 9 + (square % 9)

(* king, advisor, elephant, horse, rook, cannon, pawn *)
PieceCodes == <<5, 4, 3, 2, 1, 6, 7>>

-----------------------------------------------------------------------------
(* What a game keeps of the record that it was read from *)

CblNamespace == Ascii("org.openxiangqi.cbl")

(* The names of the extensions, and their keys in bytes. *)
ExtensionNames ==
  {"physical_slot", "display_index", "directory_uuid", "directory_title", "record_guid",
   "record_type", "result", "source_fullmove_number", "root_marker", "record_kind",
   "result_text", "date_raw", "red_rating_raw", "black_rating_raw", "source_controls"}
Key == [name \in ExtensionNames |-> Ascii(name)]
NameOf == [key \in Range(Key) |-> CHOOSE name \in ExtensionNames : Key[name] = key]

CblExtension(game) ==
  IF CblNamespace \in DOMAIN game.metadata.extensions
  THEN game.metadata.extensions[CblNamespace] ELSE <<>>

(* The string that an extension holds; no text for an array or none at all. *)
ExtensionText(game, name) ==
  LET kept == CblExtension(game)
  IN  IF Key[name] \in DOMAIN kept /\ ~kept[Key[name]].array
      THEN kept[Key[name]].items[1] ELSE <<>>

(* decimal_extension(..).value_or(..) *)
DecimalOr(game, name, maximum, otherwise) ==
  LET value == DecimalValue(ExtensionText(game, name))
  IN  IF value # Refuse /\ value <= maximum THEN value ELSE otherwise

NoMarker == [i \in 1 .. 8 |-> 102]
RootMarker(game) ==
  LET text == ExtensionText(game, "root_marker")
  IN  IF HexText(text, 8) THEN LowerHex(text) ELSE NoMarker

SourceControls(game) ==
  LET kept == CblExtension(game)
      key == Key["source_controls"]
  IN  IF key \in DOMAIN kept /\ kept[key].array
         /\ Len(kept[key].items) = Len(game.tree.nodes)
      THEN kept[key].items ELSE [i \in DOMAIN game.tree.nodes |-> <<>>]

(* Mutant: a bit of the structure is taken from the control that was read.  *)
OpaqueSibling(game, index) ==
  LET control == SourceControls(game)[index + 1]
  IN  IF HexText(control, 4) THEN HexNumber(control) - (HexNumber(control) % 2) ELSE 0

(* Mutant: only the lower byte of the control is kept. *)
OpaqueLow(game, index) ==
  LET control == SourceControls(game)[index + 1]
  IN  IF HexText(control, 4) THEN (HexNumber(control) % 256) - (HexNumber(control) % 8) ELSE 0

(* The control that a node was read with but for the three structural bits; *)
(* the node is known by its place in the storage.                           *)
OpaqueControl(game, index) ==
  LET control == SourceControls(game)[index + 1]
  IN  IF HexText(control, 4) THEN HexNumber(control) - (HexNumber(control) % 8) ELSE 0

-----------------------------------------------------------------------------
(* The writer *)

NoChild == 1
HasSibling == 2
HasComment == 4
Bit(control, bit) == (control \div bit) % 2 = 1
SetBits(control, bits) ==
  FoldSet(LAMBDA bit, sum : IF Bit(sum, bit) THEN sum ELSE sum + bit, control, bits)

(* append_comment without its length: the texts with an empty line between. *)
CommentUnits(annotations) ==
  FlattenSeq([i \in DOMAIN annotations |->
     (IF i = 1 THEN <<>> ELSE <<LineFeed, LineFeed>>)
       \o Utf16(LineFeeds(annotations[i].text))])

CommentWords(annotations) ==
  LET units == CommentUnits(annotations)
      bytes == 2 * Len(units)
  IN  IF annotations = <<>> THEN <<>>
      ELSE <<bytes % 65536, bytes \div 65536>> \o units

Structure(node, sibling) ==
  (IF node.children = <<>> THEN {NoChild} ELSE {})
    \cup (IF sibling THEN {HasSibling} ELSE {})
    \cup (IF node.annotations # <<>> THEN {HasComment} ELSE {})

(* Each node is followed by its comment and by what is below it. *)
EncodedStream(game) ==
  LET tree == game.tree
      words[id \in Ids(tree)] ==
        LET node == Node(tree, id)
            siblings == Children(tree, node.parent)
            control == SetBits(OpaqueControl(game, IndexOf(tree, id) - 1),
                               Structure(node, siblings[Len(siblings)] # id))
        IN  <<control, Turned(node.move.from) + 256 * Turned(node.move.to)>>
              \o CommentWords(node.annotations)
              \o FlattenSeq([i \in DOMAIN node.children |-> words[node.children[i]]])
      root == tree.nodes[1]
  IN  CommentWords(root.annotations)
        \o FlattenSeq([i \in DOMAIN root.children |-> words[root.children[i]]])

(* The text that each slot gets. *)
SlotTexts(game) ==
  LET values == game.metadata.values
      day == "date_precision" \in DOMAIN values /\ values.date_precision = 3
      fields == {field \in DOMAIN values \cap DOMAIN Slots : field = "start_time" => day}
  IN  [field \in fields |->
         IF field \in NumberFields THEN DecimalText(values[field]) ELSE values[field]]

Results == <<1, 2, 3>>
ResultValue(game) ==
  LET values == game.metadata.values
      standard == IF "result" \in DOMAIN values /\ values.result \in DOMAIN Results
                  THEN Results[values.result] ELSE 0
  IN  DecimalOr(game, "result", 4, standard)

(* encode_cbl_record, the prefix and the stream *)
EncodedRecord(game) ==
  LET values == game.metadata.values
      position == game.position
      piece(square) == CHOOSE p \in Range(position.pieces) : Turned(p.square) = square
  IN  [magic |-> RecordMagic, version |-> RecordVersion, guid |-> WindowsGuid(game.uuid),
       slots |-> [field \in DOMAIN SlotTexts(game) |-> Utf16(SlotTexts(game)[field])],
       ecco |-> IF "opening_code" \in DOMAIN values THEN values.opening_code ELSE <<>>,
       record_type |-> DecimalOr(game, "record_type", 4, 0),
       result |-> ResultValue(game),
       side |-> position.side_to_move + 1,
       fullmove |-> DecimalOr(game, "source_fullmove_number", 999999999, position.fullmove),
       board |-> [square \in {Turned(p.square) : p \in Range(position.pieces)} |->
                    (piece(square).side + 1) * 16 + PieceCodes[piece(square).type]],
       root_marker |-> RootMarker(game),
       root_control |-> SetBits(OpaqueControl(game, 0), Structure(game.tree.nodes[1], FALSE)),
       root_reserved |-> 0,
       words |-> EncodedStream(game)]

-----------------------------------------------------------------------------
(* The reader *)

NoRecord == [ok |-> FALSE]

WordAt(words, k) == IF k \in DOMAIN words THEN words[k] ELSE 0

(* read_comment: of the stream of room bytes, the comment from word at on. *)
ReadComment(words, at, room) ==
  LET short == WordAt(words, at + 1)
      long == WordAt(words, at + 2)
      bytes == short + 65536 * long
      units == [k \in 1 .. bytes \div 2 |-> WordAt(words, at + 2 + k)]
  IN  IF /\ room - 2 * at >= 4
         /\ long <= CblLimits.comment_bytes \div 65536 /\ bytes <= CblLimits.comment_bytes
         /\ bytes % 2 = 0
         /\ bytes <= room - 2 * (at + 2)
         /\ Paired(units)
      THEN [ok |-> TRUE, at |-> at + 2 + bytes \div 2, text |-> LineFeeds(FromUtf16(units))]
      ELSE NoRecord

Commented(text) ==
  <<[kind |-> 0, before_move |-> FALSE, text |-> text, author |-> None, language |-> None]>>

(* A comment where the control says that there is one. *)
CommentAfter(words, at, room, control) ==
  IF Bit(control, HasComment)
  THEN LET comment == ReadComment(words, at, room)
       IN  IF comment.ok
           THEN [ok |-> TRUE, at |-> comment.at, annotations |-> Commented(comment.text)]
           ELSE NoRecord
  ELSE [ok |-> TRUE, at |-> at, annotations |-> <<>>]

(* Mutant: the next sibling is taken before the child. *)
SiblingFirst(control, task, id) ==
  (IF Bit(control, NoChild) THEN <<>> ELSE <<[parent |-> id, depth |-> task.depth + 1]>>)
    \o (IF Bit(control, HasSibling) THEN <<task>> ELSE <<>>)

(* What the control of a node says is still to come; the last is the next.  *)
StillToCome(control, task, id) ==
  (IF Bit(control, HasSibling) THEN <<task>> ELSE <<>>)
    \o (IF Bit(control, NoChild) THEN <<>> ELSE <<[parent |-> id, depth |-> task.depth + 1]>>)

(* One node: the last pending place is filled. *)
ReadNode(walk, words, room) ==
  LET task == Last(walk.pending)
      control == WordAt(words, walk.at + 1)
      squares == WordAt(words, walk.at + 2)
      from == squares % 256
      to == squares \div 256
      comment == CommentAfter(words, walk.at + 2, room, control)
      id == Len(walk.nodes)
      node == [id |-> id, parent |-> task.parent, children |-> <<>>,
               move |-> [from |-> Turned(from), to |-> Turned(to)],
               annotations |-> comment.annotations]
  IN  IF /\ Len(walk.nodes) - 1 < CblLimits.nodes
         /\ task.depth <= CblLimits.tree_depth
         /\ room - 2 * walk.at >= 4
         /\ from < 90 /\ to < 90
         /\ comment.ok
      THEN [ok |-> TRUE, at |-> comment.at,
            pending |-> Front(walk.pending) \o StillToCome(control, task, id),
            nodes |-> Append([walk.nodes EXCEPT ![task.parent + 1].children = Append(@, id)],
                             node),
            controls |-> Append(walk.controls, control)]
      ELSE NoRecord

(* The stream ends with the record. *)
WholeStream(end, room) ==
  IF end.ok /\ 2 * end.at = room
  THEN [ok |-> TRUE, controls |-> end.controls,
        tree |-> [nodes |-> end.nodes, next |-> Len(end.nodes)]]
  ELSE NoRecord

(* The root, with its comment, and the nodes one after another. *)
ReadNodes(root_control, words, room, comment) ==
  LET root == [id |-> Root, parent |-> None, move |-> None, children |-> <<>>,
               annotations |-> comment.annotations]
      start == [ok |-> TRUE, at |-> comment.at, nodes |-> <<root>>,
                controls |-> <<root_control>>,
                pending |-> IF Bit(root_control, NoChild) THEN <<>>
                            ELSE <<[parent |-> 0, depth |-> 1]>>]
      on(walk, k) == IF ~walk.ok \/ walk.pending = <<>> THEN walk
                     ELSE ReadNode(walk, words, room)
  IN  IF Bit(root_control, HasSibling) \/ ~comment.ok THEN NoRecord
      ELSE WholeStream(FoldLeft(on, start, [k \in 1 .. CblLimits.nodes + 1 |-> k]), room)

(* read_cbl_move_tree *)
ReadStream(root_control, words, room) ==
  ReadNodes(root_control, words, room, CommentAfter(words, 0, room, root_control))

BoardPieces(board) ==
  LET piece(square) == [side |-> board[square] \div 16 - 1,
                        type |-> CHOOSE t \in 1 .. 7 : PieceCodes[t] = board[square] % 16,
                        square |-> Turned(square)]
  IN  SetToSortSeq({piece(square) : square \in DOMAIN board},
                   LAMBDA left, right : left.square < right.square)

RecordRead(record, used_size, stream) ==
  LET texts == [field \in DOMAIN record.slots |-> UpToZero(record.slots[field])]
      in_range == record.fullmove \in 1 .. 65535
  IN  IF /\ used_size >= PrefixSize
         /\ record.magic = RecordMagic /\ record.version = RecordVersion
         /\ \A field \in DOMAIN texts : Paired(texts[field])
         /\ \A byte \in Range(UpToZero(record.ecco)) : byte <= 127
         /\ record.side \in 1 .. 2
         /\ Range(record.board) \subseteq 17 .. 23 \cup 33 .. 39
         /\ record.root_reserved = 0
         /\ stream.ok
      THEN [ok |-> TRUE, guid |-> WindowsGuid(record.guid),
            texts |-> [field \in {f \in DOMAIN texts : texts[f] # <<>>} |->
                         FromUtf16(texts[field])],
            ecco |-> UpToZero(record.ecco),
            record_type |-> record.record_type, result |-> record.result,
            position |-> [side_to_move |-> record.side - 1,
                          fullmove |-> IF in_range THEN record.fullmove ELSE 1,
                          pieces |-> BoardPieces(record.board)],
            source_fullmove |-> record.fullmove, root_marker |-> record.root_marker,
            tree |-> stream.tree, controls |-> stream.controls]
      ELSE NoRecord

(* read_cbl_record *)
ReadRecord(record, used_size) ==
  RecordRead(record, used_size,
             ReadStream(record.root_control, record.words, used_size - PrefixSize))
=============================================================================
