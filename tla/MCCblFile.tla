------------------------------ MODULE MCCblFile ------------------------------
(* Games that differ in one respect from a plain one, on their way through  *)
(* libraries of one and two games.                                          *)
EXTENDS CblFile

MCLimits ==
  [pieces |-> 3, nodes |-> 5, annotations |-> 4, tree_depth |-> 3, string_bytes |-> 1500,
   strings |-> 60, total_string_bytes |-> 4000, metadata_fields |-> 40,
   extended_metadata_bytes |-> 1500, file_size |-> 9000, sections |-> 6]

(* A record without comments and with three moves takes one block. *)
MCCblLimits ==
  [games |-> 2, directory_entries |-> 3, minimum_capacity |-> 2, block |-> 2230,
   total_blocks |-> 4, file_size |-> 76000, record_bytes |-> 4000, nodes |-> 4,
   tree_depth |-> 3, comment_bytes |-> 16]

Uuid(first) == [i \in 1 .. 16 |-> CASE i = 1 -> first [] i = 9 -> 128 [] OTHER -> 0]

A == <<97>>
B == <<98>>
EAcute == <<101, 204, 129>>
Emoji == <<240, 159, 152, 128>>
Times(text, n) == FlattenSeq([i \in 1 .. n |-> text])

Comment(text) == Commented(text)

At1(id, parent, children, annotations) ==
  [id |-> id, parent |-> parent, children |-> children, annotations |-> annotations,
   move |-> IF parent = None THEN None ELSE [from |-> id, to |-> id + 9]]

TreeOf(nodes) == [nodes |-> nodes, next |-> 9]
Bare == TreeOf(<<At1(0, None, <<>>, <<>>)>>)

Plain ==
  [uuid |-> Uuid(1),
   metadata |-> [values |-> [result |-> 1], tags |-> <<>>, extensions |-> <<>>],
   position |-> [side_to_move |-> 0, fullmove |-> 1, pieces |-> <<>>],
   tree |-> Bare]

With(values) == [Plain EXCEPT !.metadata.values = values @@ @]
Keeping(properties) == [Plain EXCEPT !.metadata.extensions = CblNamespace :> properties]
String(text) == [array |-> FALSE, items |-> <<text>>]
Array(items) == [array |-> TRUE, items |-> items]

(* Two variations stored out of order, one of them with a reply. *)
Branched(root, first, reply, second) ==
  TreeOf(<<At1(0, None, <<5, 2>>, root), At1(2, 0, <<>>, second), At1(5, 0, <<7>>, first),
           At1(7, 5, <<>>, reply)>>)

Annotated == {<<>>, Comment(A), Comment(<<>>), Comment(<<97, 13, 10, 13>>)}

TreeGames ==
  {[Plain EXCEPT !.tree = Branched(root, first, <<>>, second)] :
     root \in Annotated, first \in Annotated,
     second \in {<<>>, Comment(Emoji), Comment(A) \o Comment(B),
                 <<[Comment(A)[1] EXCEPT !.before_move = TRUE]>>,
                 <<[Comment(A)[1] EXCEPT !.author = B]>>}}
    \cup {[Plain EXCEPT !.tree = Branched(Comment(text), <<>>, <<>>, <<>>)] :
            text \in {Times(A, 8), Times(A, 9), Times(<<228, 184, 128>>, 8), <<13>>, <<13, 10, 10>>}}

Day == <<50, 48, 50, 52, 45, 48, 50, 45, 50, 57>>
Year0 == <<48, 48, 48, 48>> \o SubSeq(Day, 5, 10)

MetadataGames ==
  {With(values) :
     values \in {[title |-> <<>>], [title |-> EAcute], [title |-> <<97, 0, 98>>],
                 [group |-> Times(A, 15)], [group |-> Times(A, 16)],
                 [group |-> Times(Emoji, 7)], [group |-> Times(Emoji, 8)],
                 [red_rating |-> -12], [black_rating |-> 0],
                 [opening_code |-> Times(A, 3)], [opening_code |-> Times(A, 4)],
                 [opening_code |-> EAcute], [opening_code |-> <<>>],
                 [red_id |-> A], [source_uri |-> A], [source_format |-> A],
                 [end_time |-> Day, date_precision |-> 3],
                 [start_time |-> Day, date_precision |-> 3],
                 [start_time |-> Day, date_precision |-> 0],
                 [start_time |-> Year0, date_precision |-> 3],
                 [start_time |-> SubSeq(Day, 1, 4), date_precision |-> 1]}}
    \cup {With([result |-> n]) : n \in {0, 3, 4, 5}}
    \cup {[Plain EXCEPT !.metadata.values = <<>>], [Plain EXCEPT !.metadata.tags = <<A>>]}
    \cup {[Plain EXCEPT !.position = [side_to_move |-> 1, fullmove |-> n, pieces |-> pieces]] :
            n \in {0, 7}, pieces \in {<<>>, <<[side |-> 1, type |-> 7, square |-> 40],
                                             [side |-> 0, type |-> 1, square |-> 4]>>}}

ExtensionGames ==
  {Keeping(Ascii(key) :> String(text)) :
     key \in {"result", "record_type", "source_fullmove_number", "root_marker", "game_type",
              "source_controls"},
     text \in {<<>>, <<49>>, <<52>>, <<53>>, Times(<<65>>, 8)}}
    \cup {Keeping(Ascii("source_controls") :> Array(controls)) :
            controls \in {<<>>, <<Times(<<102>>, 4)>>, <<<<49>>>>}}
    \cup {[Keeping(Ascii("source_controls") :> Array(controls)) EXCEPT
             !.tree = Branched(<<>>, Comment(A), <<>>, <<>>)] :
            controls \in {Times(<<Times(<<102>>, 4)>>, 4), Times(<<Times(<<102>>, 4)>>, 3),
                          <<Times(<<48>>, 4), <<48, 48, 49, 48>>, Times(<<65>>, 4), <<49>>>>}}
    \cup {[Plain EXCEPT !.metadata.extensions = <<97, 46, 98>> :> (A :> String(B))]}

(* A bit of everything, and two games together. *)
Everything ==
  [With([title |-> EAcute, red_rating |-> 7, opening_code |-> A, group |-> A,
         start_time |-> Day, date_precision |-> 3]) EXCEPT
     !.position = [side_to_move |-> 1, fullmove |-> 2,
                   pieces |-> <<[side |-> 1, type |-> 7, square |-> 40]>>],
     !.tree = Branched(Comment(A), Comment(<<>>), <<>>, Comment(<<97, 98>>))]

Second == [Plain EXCEPT !.uuid = Uuid(2)]

MCTravellers == {<<Everything, Second>>}

(* Two games of two blocks each are more than a file may hold, also when one *)
(* of them cannot be written; a comment that is too long takes no room.      *)
Large(values, comment) == [With(values) EXCEPT !.tree = Branched(Comment(comment), <<>>, <<>>, <<>>)]
Oversize ==
  {<<Large(<<>>, A), [Large(values, comment) EXCEPT !.uuid = Uuid(2)]>> :
     values \in {<<>>, [group |-> Times(A, 16)]}, comment \in {A, Times(A, 9)}}

MCLibraries ==
  {<<game>> : game \in TreeGames \cup MetadataGames \cup ExtensionGames}
    \cup {<<>>, <<Second, Plain>>, <<Plain, Second, Everything>>, <<[Plain EXCEPT !.uuid = Uuid(0)]>>}
    \cup MCTravellers \cup Oversize

(* One game that nothing is wrong with. *)
OneGame == {<<Plain>>}

MCOptions ==
  {[strict |-> strict, uuid |-> None, texts |-> [name |-> name]] : strict \in BOOLEAN, name \in {A}}
    \cup {[strict |-> FALSE, uuid |-> Uuid(9), texts |-> [name |-> <<>>, author |-> EAcute]]}

MCForeignNumbers == {0, 1, 2, 3, 4, 5, 7, 8, 15, 22, 39, 40, 70000}

MCForeignUnits ==
  {<<>>, A, <<0>>, Times(A, 4), <<\hD83D, \hDE00>>, <<\hD83D>>, <<\hDE00, 97>>, <<48, 48, 55>>,
   <<45, 51>>, Day, Year0, UuidText(Uuid(7)), DirectoryText(Uuid(0)), <<101, \h301>>}
=============================================================================
