------------------------------- MODULE OxqFile -------------------------------
(***************************************************************************)
(* An .oxq file from the game it is written from to the game that is read  *)
(* from it: write_oxq (core/writer.cpp), read_oxq (core/reader.cpp) and    *)
(* validate_oxq (core/validator.cpp), composed of the sections of a file.  *)
(*                                                                         *)
(* A file may be damaged on its way, or come from another writer, which    *)
(* seals what it writes with the right CRCs: a file of its own is one of   *)
(* this writer's with one thing changed.  Errors are not told apart.       *)
(***************************************************************************)
EXTENDS OxqCodec

CONSTANTS
  Games,           (* the games that are written                              *)
  Travellers,      (* those of them whose files are damaged or forged         *)
  ForeignNumbers,  (* numbers that a field of a damaged or foreign file holds *)
  ForeignTexts     (* strings that a foreign file holds                       *)

NoFile == [size |-> 0]
Unread == [ok |-> FALSE, read |-> FALSE]

VARIABLES
  game,     (* the game to write                                              *)
  file,
  origin,   (* of the file: "none", "written", "damaged", "foreign"           *)
  read      (* what reading the file gave                                     *)

vars == <<game, file, origin, read>>

-----------------------------------------------------------------------------
(* The file on its way *)

ListOf == <<"fields", "pieces", "nodes", "records", "records">>

(* The payloads that differ in one field. *)
Changed(payload, type) ==
  LET list == ListOf[type]
  IN  {[payload EXCEPT ![field] = n] :
         field \in DOMAIN payload \ {"header", "size", list}, n \in ForeignNumbers}
        \cup UNION {{[payload EXCEPT ![list][i][field] = n] :
                       field \in DOMAIN payload[list][i] \ {"bytes"}, n \in ForeignNumbers} :
                      i \in DOMAIN payload[list]}
        \cup IF type = 5
             THEN {[payload EXCEPT !.records[i].bytes = text] :
                     i \in DOMAIN payload.records, text \in ForeignTexts}
             ELSE {}

(* Two elements of a list exchanged, the references to them with them. *)
Exchanged(payload, type) ==
  LET list == ListOf[type]
      swap(i, j) == [k \in DOMAIN payload[list] |->
                       CASE k = i -> payload[list][j] [] k = j -> payload[list][i]
                         [] OTHER -> payload[list][k]]
      renamed(n, i, j) == CASE n = i -> j [] n = j -> i [] OTHER -> n
      nodes(i, j) == [k \in DOMAIN payload[list] |->
                        [swap(i, j)[k] EXCEPT !.parent = renamed(@ + 1, i, j) - 1,
                           !.first_child = renamed(@ + 1, i, j) - 1,
                           !.next_sibling = renamed(@ + 1, i, j) - 1]]
  IN  IF type \notin {1, 2, 3} THEN {}
      ELSE {[payload EXCEPT ![list] = IF type = 3 THEN nodes(i, j) ELSE swap(i, j)] :
              i, j \in DOMAIN payload[list]}

(* Two annotations exchanged. *)
Renumbered(input) ==
  LET tree == InspectContainer(input).section[3]
      annotations == InspectContainer(input).section[4]
      renamed(n, i, j) == CASE n = i -> j [] n = j -> i [] OTHER -> n
      record(i, j, k) == [annotations.records[renamed(k, i, j)] EXCEPT
                            !.id = k, !.next = renamed(@, i, j)]
  IN  {[tree |-> [tree EXCEPT !.nodes =
                    [k \in DOMAIN @ |->
                       [@[k] EXCEPT !.first_annotation = renamed(@, i, j)]]],
        annotations |-> [annotations EXCEPT !.records =
                           [k \in DOMAIN @ |-> record(i, j, k)]]] :
         i, j \in DOMAIN annotations.records}

WithPayload(input, type, payload) ==
  [input EXCEPT !.payloads[input.table[type].offset] = payload]

ChangedHeaders(header) ==
  {[header EXCEPT ![field] = n] :
     field \in DOMAIN header \ {"magic", "version", "uuid", "table_crc"}, n \in ForeignNumbers}
    \cup {[header EXCEPT !.magic = Magic + 1], [header EXCEPT !.version = <<1, 1, HeaderSize>>],
          [header EXCEPT !.uuid = [@ EXCEPT ![9] = 0]]}

ChangedTables(table) ==
  UNION {{[table EXCEPT ![i][field] = n] :
            field \in DOMAIN table[i] \ {"crc"}, n \in ForeignNumbers} : i \in DOMAIN table}

(* The right CRCs for what a file holds. *)
Sealed(input) ==
  LET entries == [i \in DOMAIN input.table |->
                    [input.table[i] EXCEPT
                       !.crc = Crc(PayloadAt(input, input.table[i].offset,
                                             input.table[i].stored_size))]]
      header == [input.header EXCEPT
                   !.table_crc = Crc(SubSeq(entries, 1, Min({input.header.section_count,
                                                             Len(entries)})))]
  IN  [input EXCEPT !.table = entries, !.header = header, !.header_crc = Crc(header)]

(* The files with one thing changed, without new CRCs. *)
Damages(input) ==
  UNION {{WithPayload(input, type, p) : p \in Changed(input.payloads[input.table[type].offset], type)} :
           type \in 1 .. 5}
    \cup {[input EXCEPT !.header = h] : h \in ChangedHeaders(input.header)}
    \cup {[input EXCEPT !.table = t] : t \in ChangedTables(input.table)}
    \cup {[input EXCEPT !.gaps = 1], [input EXCEPT !.size = @ - 8], [input EXCEPT !.size = @ + 8]}

(* A section of an unknown type at the end of the table and of the file, or *)
(* said to lie elsewhere; the table itself moves behind it.                 *)
Extended(input) ==
  LET body == [header |-> <<>>, size |-> 8]
      entry(at, flags) == [Entry(9, flags, at, body) EXCEPT !.crc = Crc(body)]
      table(at, flags) == Append(input.table, entry(at, flags))
      end == input.size + 8 + 6 * EntrySize
  IN  {[input EXCEPT
          !.size = end, !.table_at = input.size + 8, !.table = table(at, flags),
          !.payloads = @ @@ (IF at = input.size THEN at :> body ELSE <<>>),
          !.header = [@ EXCEPT !.file_size = end, !.table_offset = input.size + 8,
                               !.section_count = 6]] :
         at \in {0, input.table[2].offset, input.size, end, SizeMax - 7}, flags \in 0 .. 2}

Forgeries(input) ==
  UNION {{WithPayload(input, type, p) :
            p \in LET payload == input.payloads[input.table[type].offset]
                  IN  Changed(payload, type) \cup Exchanged(payload, type)} : type \in 1 .. 5}
    \cup {WithPayload(WithPayload(input, 3, r.tree), 4, r.annotations) : r \in Renumbered(input)}
    \cup {[input EXCEPT !.header = h] : h \in ChangedHeaders(input.header)}
    \cup {[input EXCEPT !.table = t] : t \in ChangedTables(input.table)}
    \cup {[input EXCEPT !.table[i] = input.table[j], !.table[j] = input.table[i]] :
            i, j \in DOMAIN input.table}
    \cup Extended(input)

-----------------------------------------------------------------------------

Init ==
  /\ game \in Games
  /\ file = NoFile
  /\ origin = "none"
  /\ read = Unread

Write ==
  /\ origin = "none"
  /\ \E outcome \in {WriteOxq(game)} : outcome.ok /\ file' = outcome.file
  /\ origin' = "written"
  /\ UNCHANGED <<game, read>>

Damage ==
  /\ origin = "written" /\ read = Unread /\ game \in Travellers
  /\ file' \in Damages(file) \ {file}
  /\ origin' = "damaged"
  /\ UNCHANGED <<game, read>>

Forge ==
  /\ origin = "written" /\ read = Unread /\ game \in Travellers
  /\ \E forgery \in Forgeries(file) : file' = Sealed(forgery)
  /\ origin' = "foreign"
  /\ UNCHANGED <<game, read>>

Read ==
  /\ file # NoFile /\ read = Unread
  /\ read' = ReadOxq(file)
  /\ UNCHANGED <<game, file, origin>>

Next == Write \/ Damage \/ Forge \/ Read

Spec == Init /\ [][Next]_vars

-----------------------------------------------------------------------------
(* Properties *)

OxqTypeOK ==
  /\ origin \in {"none", "written", "damaged", "foreign"}
  /\ (file = NoFile) = (origin = "none")
  /\ read # Unread => file # NoFile
  /\ file # NoFile =>
       file.size \in 0 .. SizeMax /\ file.size % 8 = 0 /\ Len(file.table) \in 5 .. 6

(* What a tree says, whatever the ids and the storage of its nodes. *)
Shape(tree) ==
  LET shape[id \in Ids(tree)] ==
        LET node == Node(tree, id)
        IN  [move |-> node.move, annotations |-> node.annotations,
             children |-> [i \in DOMAIN node.children |-> shape[node.children[i]]]]
  IN  shape[Root]

SameGame(left, right) ==
  /\ left.uuid = right.uuid
  /\ left.metadata.values = right.metadata.values
  /\ left.metadata.extensions = right.metadata.extensions
  /\ Range(left.metadata.tags) = Range(right.metadata.tags)
  /\ [left.position EXCEPT !.pieces = Range(@)] = [right.position EXCEPT !.pieces = Range(@)]
  /\ Shape(left.tree) = Shape(right.tree)

(* A game that is written and read again is the same game in normalized     *)
(* texts, its tags once each and its other lists in their order.  It is     *)
(* assumed that no text outgrows the limit when it is normalized.           *)
RoundTrip ==
  origin = "written" /\ read # Unread =>
    \A normal \in {Normalized(game)} :
      (\A bytes \in TextsOf(normal) : Len(bytes) <= Limits.string_bytes)
      => /\ read.ok /\ SameGame(read.game, normal)
         /\ \A i, j \in DOMAIN read.game.metadata.tags :
              i < j => BytesLess(read.game.metadata.tags[i], read.game.metadata.tags[j])

(* The writer leaves nothing to choose: the game read from any file gives a *)
(* file whose game gives this same file again.                              *)
RewriteStable ==
  read.ok =>
    \A again \in {WriteOxq(read.game)} :
      /\ origin = "written" => again.file = file
      /\ again.ok => \A reread \in {ReadOxq(again.file)} :
                       reread.ok => WriteOxq(reread.game) = again

(* Whatever file the reader accepts, the game it returns passes validation, *)
(* and it has looked at nothing but the file's own bytes.                   *)
AcceptedIsSound ==
  read.ok =>
    /\ ValidGame(read.game)
    /\ \A i \in DOMAIN Entries(file) :
         file.table[i].offset + file.table[i].stored_size <= file.size

(* A change of one field after the file was written never goes unnoticed.   *)
DamageDetected == origin = "damaged" => ~read.ok

(* The strings, fields, pieces and nodes of a file that is said to be in    *)
(* canonical order are in the order in which the writer would write them.   *)
CanonicalAsWritten ==
  read.ok /\ CanonicalOrdering(read.diagnostics) =>
    \A again \in {WriteOxq(read.game)} :
    LET section(any, type) == InspectContainer(any).section[type]
        strings(any) == [i \in DOMAIN section(any, 5).records |-> section(any, 5).records[i].bytes]
        standard == SelectSeq(section(file, 1).fields, LAMBDA f : Standard(f.tag))
        numbered(nodes) == [i \in DOMAIN nodes |-> [nodes[i] EXCEPT !.first_annotation = 0]]
    IN  again.ok =>
          /\ strings(again.file) = SelectSeq(strings(file), LAMBDA b : b \in Range(strings(again.file)))
          /\ [i \in DOMAIN standard |-> standard[i].tag]
               = [i \in DOMAIN section(again.file, 1).fields |-> section(again.file, 1).fields[i].tag]
          /\ section(again.file, 2) = section(file, 2)
          /\ numbered(section(again.file, 3).nodes) = numbered(section(file, 3).nodes)

(* What the writer writes can be read.                                      *)
WrittenIsReadable == origin = "written" /\ read # Unread => read.ok

-----------------------------------------------------------------------------
(* The texts of the games *)

Title == game.metadata.values.title
Titled == "title" \in DOMAIN game.metadata.values

(* Validation takes exactly the strings that are cut into the bytes of one  *)
(* scalar value after another.                                              *)
ValidatedIsUtf8 ==
  LET point(i, n) ==
        FoldLeft(LAMBDA high, byte : high * 64 + (byte % 64),
                 Title[i] % (CASE n = 1 -> 128 [] n = 2 -> 32 [] n = 3 -> 16 [] n = 4 -> 8),
                 SubSeq(Title, i + 1, i + n - 1))
      cut[i \in 1 .. Len(Title) + 1] ==
        \/ i = Len(Title) + 1
        \/ \E n \in 1 .. 4 :
             /\ i + n - 1 <= Len(Title)
             /\ Scalar(point(i, n)) /\ Encoded(point(i, n)) = SubSeq(Title, i, i + n - 1)
             /\ cut[i + n]
  IN  Titled /\ origin = "none" => ValidUtf8(Title) = cut[1]

(* Normalizing a text twice does what normalizing it once does, and keeps   *)
(* what it stands for.                                                      *)
NfcSettles ==
  Titled /\ origin = "none" /\ ValidUtf8(Title) =>
    LET text == TextOf(Title)
    IN  /\ IsNfc(Nfc(text))
        /\ CanonicalDecomposition(Nfc(text)) = CanonicalDecomposition(text)
=============================================================================
