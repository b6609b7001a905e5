------------------------------- MODULE CblFile -------------------------------
(***************************************************************************)
(* Games on their way through CBL libraries, as oxq convert takes them:    *)
(* games are written as a library; another program may have written it a   *)
(* little differently; it is read, its games are kept as .oxq files or     *)
(* changed in an editor, and written as a library again.                   *)
(***************************************************************************)
EXTENDS CblLibrary, OxqCodec

CONSTANTS
  Libraries,       (* the sequences of games that are written first            *)
  Options,         (* how they are written                                     *)
  Travellers,      (* those of them whose libraries another program writes     *)
  ForeignNumbers,  (* numbers that a field of a foreign library holds          *)
  ForeignUnits     (* texts that a slot of a foreign library holds             *)

NoFile == [size |-> 0]
NoMode == [strict |-> FALSE]

VARIABLES
  games,     (* the games in memory                                            *)
  written,   (* the games that the library was written from                    *)
  file,      (* the library last written                                       *)
  source,    (* the library that was read before that one was written          *)
  mode,      (* the options of the last writing                                *)
  stage,     (* what happened last to the games                                *)
  path       (* what else happened: "forged", "stored", "edited"               *)

vars == <<games, written, file, source, mode, stage, path>>

-----------------------------------------------------------------------------
(* What another program writes, and what an editor changes *)

ChangedEntries(entry) ==
  {[entry EXCEPT ![field] = n] :
     field \in {"flags", "display_index", "blocks", "used"}, n \in ForeignNumbers}
    \cup {[entry EXCEPT !.used = @ + n] : n \in {-4, -2, -1, 1, 2, 4}}
    \cup {[entry EXCEPT ![field] = units] : field \in {"uuid", "title"}, units \in ForeignUnits}

(* The words of a stream are changed one by one; one comes in or goes.      *)
ChangedWords(words) ==
  UNION {{[words EXCEPT ![k] = n] : n \in ForeignNumbers}
           \cup {[words EXCEPT ![k] = @ + n] : n \in {m \in {-1, 1, 2, 4, 8, 32768} :
                                                        words[k] + m \in 0 .. 65535}} :
           k \in DOMAIN words}

ChangedRecords(record) ==
  {[record EXCEPT ![field] = n] :
     field \in {"version", "record_type", "result", "side", "fullmove", "root_control",
                "root_reserved"}, n \in ForeignNumbers}
    \cup {[record EXCEPT !.magic = RecordMagic + 1],
          [record EXCEPT !.guid = [@ EXCEPT ![9] = 0]],
          [record EXCEPT !.guid = [@ EXCEPT ![1] = 99]],
          [record EXCEPT !.root_marker = [@ EXCEPT ![1] = 48]]}
    \cup {[record EXCEPT !.slots = (field :> units) @@ @] :
            field \in {"title", "start_time", "red_rating", "group", "source_uri"},
            units \in ForeignUnits}
    \cup {[record EXCEPT !.ecco = units] : units \in ForeignUnits}
    \cup {[record EXCEPT !.board = (41 :> n) @@ @] : n \in ForeignNumbers \ {0}}
    \cup {[record EXCEPT !.words = words] : words \in ChangedWords(record.words)}

Forgeries(input) ==
  {[input EXCEPT ![field] = n] : field \in {"magic", "version", "capacity"}, n \in ForeignNumbers}
    \cup {[input EXCEPT !.size = @ + n] : n \in {-1, 1, CblLimits.block}}
    \cup {[input EXCEPT !.slots.name = units] : units \in ForeignUnits}
    \cup UNION {{[input EXCEPT !.directory[slot] = e] : e \in ChangedEntries(input.directory[slot])} :
                  slot \in DOMAIN input.directory}
    \cup UNION {{[input EXCEPT !.records[at] = r] : r \in ChangedRecords(input.records[at])} :
                  at \in DOMAIN input.records}

(* Changes of the editor: the result, the number of the first move, the     *)
(* order of two variations, a move more, a variation less, a comment more.  *)
Edited(game) ==
  LET tree == game.tree
      moves == Ids(tree) \ {Root}
      leaves == {id \in moves : Children(tree, id) = <<>>}
      comment == Commented(<<97, CarriageReturn, LineFeed>>)
      grown(t, id) == AddNode(t, id, [from |-> 1, to |-> 2], Len(Children(t, id)))
  IN  {[game EXCEPT !.metadata.values.result = n] : n \in {0, 3}}
        \cup {[game EXCEPT !.position.fullmove = 9]}
        \cup {[game EXCEPT !.tree = ReorderChild(tree, Node(tree, id).parent, id, 0)] : id \in moves}
        \cup {[game EXCEPT !.tree = RemoveNode(tree, id)] : id \in leaves}
        \cup {[game EXCEPT !.tree = grown(RemoveNode(tree, id), Root)] : id \in leaves}
        \cup {[game EXCEPT !.tree = Update(tree, [Node(tree, id) EXCEPT
                !.annotations = @ \o comment])] : id \in Ids(tree)}

-----------------------------------------------------------------------------

Init ==
  /\ games \in Libraries
  /\ written = <<>>
  /\ file = NoFile /\ source = NoFile
  /\ mode = NoMode
  /\ stage = "made"
  /\ path = {}

(* oxq convert of .oxq files; the second library of games is the last.      *)
Write ==
  /\ stage \in {"made", "read"}
  /\ \E options \in Options : \E outcome \in {WriteCbl(games, options)} :
       /\ mode' = options
       /\ stage' = outcome.kind
       /\ file' = IF outcome.kind = "written" THEN outcome.file ELSE NoFile
  /\ written' = games
  /\ UNCHANGED <<games, source, path>>

Forge ==
  /\ stage = "written" /\ source = NoFile /\ path = {} /\ games \in Travellers
  /\ file' \in Forgeries(file) \ {file}
  /\ path' = {"forged"}
  /\ UNCHANGED <<games, written, source, mode, stage>>

(* oxq convert, dump or inspect of a library. *)
Read ==
  /\ stage = "written"
  /\ \E outcome \in {ReadCbl(file, FALSE)} :
       /\ stage' = IF outcome.kind # "read" THEN "unreadable"
                   ELSE IF source # NoFile THEN "reread" ELSE "read"
       /\ games' = IF outcome.kind = "read" THEN outcome.games ELSE games
  /\ source' = IF source # NoFile THEN source ELSE file
  /\ UNCHANGED <<written, file, mode, path>>

(* The games become .oxq files and are read from them again. *)
Store ==
  /\ stage = "read" /\ path = {}
  /\ LET files == [i \in DOMAIN games |-> WriteOxq(games[i])]
         read == [i \in DOMAIN games |-> ReadOxq(files[i].file)]
     IN  /\ \A i \in DOMAIN games : files[i].ok /\ read[i].ok
         /\ games' = [i \in DOMAIN games |-> read[i].game]
  /\ path' = {"stored"}
  /\ UNCHANGED <<written, file, source, mode, stage>>

Edit ==
  /\ stage = "read" /\ path = {}
  /\ \E i \in DOMAIN games : \E game \in Edited(games[i]) : games' = [games EXCEPT ![i] = game]
  /\ path' = {"edited"}
  /\ UNCHANGED <<written, file, source, mode, stage>>

Next == Write \/ Forge \/ Read \/ Store \/ Edit

Spec == Init /\ [][Next]_vars

-----------------------------------------------------------------------------
(* Properties *)

CblTypeOK ==
  /\ stage \in {"made", "written", "read", "reread", "unreadable", "error", "rejected",
                "encoding_invariant"}
  /\ path \subseteq {"forged", "stored", "edited"}
  /\ stage \in {"written", "read", "reread", "unreadable"} => file # NoFile
  /\ file # NoFile /\ path = {} =>
       /\ file.capacity = Len(file.directory)
       /\ \A at \in DOMAIN file.records :
            at \in DirectoryEnd(file.capacity) .. file.size - PrefixSize

(* The games are those that were written, read again from the library.      *)
RoundTripped == stage = "reread" \/ (stage = "read" /\ path = {})

(* The encoder finds the sizes that the preflight has planned: writing      *)
(* never ends in the error encoding_invariant.                              *)
PlanIsExact == stage # "encoding_invariant"

(* The library of this writer is readable, with what games it may hold; it  *)
(* is assumed that the comments joined in one are no longer than a text.    *)
WrittenCanBeRead ==
  LET joined(node) == FromUtf16(CommentUnits(node.annotations))
      short(game) == \A node \in Range(game.tree.nodes) : Len(joined(node)) <= Limits.string_bytes
  IN  stage = "unreadable" =>
        \/ source = file /\ path = {"forged"}
        \/ \E i \in DOMAIN written : ~short(written[i])

(* The moves of a tree with what its annotations come to. *)
Moves(tree, Of(_)) ==
  LET moves[id \in Ids(tree)] ==
        LET node == Node(tree, id)
        IN  [move |-> node.move, annotations |-> Of(node.annotations),
             children |-> [i \in DOMAIN node.children |-> moves[node.children[i]]]]
  IN  moves[Root]

(* Whatever was kept of the controls of an earlier record, and whatever was *)
(* edited since: moves, variations and the texts of comments survive.       *)
TreeSurvives ==
  RoundTripped =>
    \A i \in DOMAIN written :
      /\ games[i].uuid = written[i].uuid
      /\ Moves(games[i].tree, CommentWords) = Moves(written[i].tree, CommentWords)

(* What the reader says of every game. *)
AddedByReader ==
  {"source_format", "source_format_version", "source_record_id", "source_library_id",
   "source_library_name"}

(* The fields in which the game that was read differs from the written one. *)
Differences(old, new) ==
  LET olds == old.metadata.values
      news == new.metadata.values
      same(field) == field \in DOMAIN olds \cap DOMAIN news /\ olds[field] = news[field]
      placed(game) == [game.position EXCEPT !.pieces = Range(@)]
  IN  {field \in DOMAIN olds \cup (DOMAIN news \ AddedByReader) : ~same(field)}
        \cup (IF Range(old.metadata.tags) # Range(new.metadata.tags) THEN {"tags"} ELSE {})
        \cup (IF placed(old) # placed(new) THEN {"position"} ELSE {})
        \cup (IF Moves(old.tree, LAMBDA a : a) # Moves(new.tree, LAMBDA a : a)
              THEN {"annotations"} ELSE {})

(* A date goes with its precision: both are reported as one. *)
Reported(game) ==
  LET losses == MetadataLosses(game) \cup AnnotationLosses(game)
  IN  losses \cup (IF losses \cap {"start_time", "end_time"} # {} THEN {"date_precision"} ELSE {})

(* What a game was read with agrees with what it is now; its texts hold no  *)
(* zero, and its date has a year.                                           *)
Consistent(game) ==
  LET values == game.metadata.values
      result == IF "result" \in DOMAIN values THEN values.result ELSE 0
  IN  /\ \A field \in DOMAIN values \cap TextFields : 0 \notin Range(values[field])
      /\ "start_time" \in DOMAIN SlotTexts(game) => ValidDayDate(values.start_time)
      /\ LET kept == DecimalOr(game, "result", 4, result)
         IN  kept = result \/ (kept = 4 /\ result = 0)
      /\ DecimalOr(game, "source_fullmove_number", 999999999, game.position.fullmove)
           = game.position.fullmove

(* Whatever differs when a consistent game is read again was reported as a  *)
(* loss when it was written: a strict writer loses nothing.                 *)
LossesAreReported ==
  RoundTripped =>
    \A i \in DOMAIN written :
      Consistent(written[i]) => Differences(written[i], games[i]) \subseteq Reported(written[i])

(* What a CBL cannot express is reported, whatever the game has gone        *)
(* through (spec/cbl-adapter-v1.md, 2.3).                                   *)
EveryLossIsReported ==
  RoundTripped =>
    \A i \in DOMAIN written : Differences(written[i], games[i]) \subseteq Reported(written[i])

(* What the reader found in the record of a live game. *)
RecordOf(input, slot) ==
  ReadRecord(input.records[ResourceOffset(input, slot)], input.directory[slot].used)

(* The text that a slot must hold again: a title comes from the directory   *)
(* when there is none, a rating is written anew, and a date that is none is *)
(* left out.                                                                *)
RestoredTexts(old, title) ==
  LET texts == old.texts
      titles == IF title = <<>> THEN <<>> ELSE "title" :> title
      kept == {f \in DOMAIN texts : CASE f = "start_time" -> ValidDayDate(texts[f])
                                      [] f \in Ratings -> ParsedInteger(texts[f]).ok
                                      [] OTHER -> TRUE}
  IN  [f \in kept |-> IF f \in Ratings THEN DecimalText(ParsedInteger(texts[f]).value)
                      ELSE texts[f]] @@ titles

(* A library that is read and written again, perhaps after its games were   *)
(* kept as .oxq files, holds each record again: its position, its tree with *)
(* every bit of its controls, its numbers and its texts.                    *)
RecordsAreRestored ==
  stage = "written" /\ source # NoFile /\ "edited" \notin path =>
    LET normal(bytes) == IF "stored" \in path THEN NfcBytes(bytes) ELSE bytes
        normal_nodes(tree) ==
          [k \in DOMAIN tree.nodes |->
             [tree.nodes[k] EXCEPT !.annotations =
                [a \in DOMAIN @ |-> [@[a] EXCEPT !.text = normal(@)]]]]
        live == LiveGames(source)
        in_domain(n) == IF n <= 4 THEN n ELSE 0
    IN  /\ Len(LiveGames(file)) = Len(live)
        /\ \A i \in DOMAIN live :
             LET title == FromUtf16(UpToZero(source.directory[live[i]].title))
             IN  \A old \in {RecordOf(source, live[i])}, new \in {RecordOf(file, i)} :
                 LET texts == RestoredTexts(old, title)
                 IN
                 /\ ValidUuid(old.guid) => new.guid = old.guid
                 /\ new.texts = [f \in DOMAIN texts |-> normal(texts[f])]
                 /\ new.ecco = old.ecco
                 /\ new.record_type = in_domain(old.record_type)
                 /\ new.result = in_domain(old.result)
                 /\ new.position = old.position
                 /\ new.source_fullmove = old.source_fullmove
                 /\ new.root_marker = old.root_marker
                 /\ new.tree.nodes = normal_nodes(old.tree)
                 /\ new.controls = old.controls

(* Of a library that is read, every live game is converted once, in the     *)
(* order in which it is displayed, from a record of its own in the file.    *)
EveryGameOnce ==
  stage = "read" /\ path \subseteq {"forged"} =>
    LET live == {slot \in DOMAIN file.directory :
                   slot <= file.capacity /\ file.directory[slot].flags % 8 = 7}
        slot(i) == 1 + DecimalValue(ExtensionText(games[i], "physical_slot"))
        shown(i) == file.directory[slot(i)].display_index
        first(s) == ResourceOffset(file, s)
        beyond(s) == first(s) + file.directory[s].used
    IN  /\ {slot(i) : i \in DOMAIN games} = live /\ Len(games) = Cardinality(live)
        /\ \A i, j \in DOMAIN games :
             i < j => shown(i) < shown(j) \/ (shown(i) = shown(j) /\ slot(i) < slot(j))
        /\ \A s \in live : first(s) >= DirectoryEnd(file.capacity) /\ beyond(s) <= file.size
        /\ \A s, t \in live : s # t => beyond(s) <= first(t) \/ beyond(t) <= first(s)
=============================================================================
