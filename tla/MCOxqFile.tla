------------------------------ MODULE MCOxqFile ------------------------------
(* Games that differ in one respect from a plain one, and one that has a    *)
(* bit of everything, whose file is damaged and forged.                     *)
EXTENDS OxqFile

MCLimits ==
  [pieces |-> 3, nodes |-> 4, annotations |-> 3, tree_depth |-> 3, string_bytes |-> 40,
   strings |-> 12, total_string_bytes |-> 160, metadata_fields |-> 12,
   extended_metadata_bytes |-> 36, file_size |-> 1200, sections |-> 6]

Uuid(first, variant) == [i \in 1 .. 16 |-> CASE i = 1 -> first [] i = 9 -> variant [] OTHER -> 0]

Text(points) == Utf8(points)
A == <<\h61>>
B == <<\h62>>
C == <<\h63>>
EAcute == <<\h65, Acute>>
ERing == <<\h65, Ring, Acute>>

Comment(text, before) ==
  [kind |-> 0, before_move |-> before, text |-> text, author |-> None, language |-> None]

Tree(parent, annotations) ==
  [nodes |-> [i \in DOMAIN parent |->
      [id |-> parent[i].id,
       parent |-> parent[i].parent,
       move |-> IF i = 1 THEN None ELSE [from |-> parent[i].id, to |-> parent[i].id + 9],
       children |-> parent[i].children,
       annotations |-> annotations[i]]],
   next |-> 9]

At1(id, parent, children) == [id |-> id, parent |-> parent, children |-> children]

Bare == Tree(<<At1(0, None, <<>>)>>, << <<>> >>)

Plain ==
  [uuid |-> Uuid(1, 128),
   metadata |-> [values |-> <<>>, tags |-> <<>>, extensions |-> <<>>],
   position |-> [side_to_move |-> 0, fullmove |-> 1, pieces |-> <<>>],
   tree |-> Bare]

Piece(side, type, square) == [side |-> side, type |-> type, square |-> square]

With(field, value) == [Plain EXCEPT !.metadata.values = field :> value]

(* Trees: stored out of order, with variations, with ids far apart. *)
Shapes ==
  {<<At1(0, None, <<5, 2>>), At1(2, 0, <<>>), At1(5, 0, <<7>>), At1(7, 5, <<>>)>>,
   <<At1(0, None, <<1>>), At1(1, 0, <<3, 2>>), At1(2, 1, <<>>), At1(3, 1, <<>>)>>,
   <<At1(0, None, <<1>>), At1(3, 2, <<>>), At1(2, 1, <<3>>), At1(1, 0, <<2>>)>>,
   <<At1(0, None, <<1, 2>>), At1(1, 0, <<>>), At1(2, 0, <<1>>)>>,
   <<At1(0, None, <<1>>), At1(1, 0, <<>>), At1(2, 3, <<3>>), At1(3, 2, <<2>>)>>}

Notes ==
  {<< <<>>, <<>>, <<>>, <<>> >>,
   << <<Comment(A, FALSE)>>, <<Comment(EAcute, TRUE), Comment(A, FALSE)>>, <<>>, <<>> >>,
   << <<Comment(A, TRUE)>>, <<>>, <<>>, <<>> >>,
   << <<>>, <<Comment(B, FALSE)>>, <<[Comment(A, FALSE) EXCEPT !.author = B]>>,
      <<[Comment(A, TRUE) EXCEPT !.language = B, !.kind = 1]>> >>}

TreeGames ==
  {[Plain EXCEPT !.tree = Tree(shape, [i \in DOMAIN shape |->
       LET list == notes[i]
       IN  [k \in DOMAIN list |-> [list[k] EXCEPT !.text = Text(@)]]])] :
     shape \in Shapes, notes \in Notes}

PositionGames ==
  {[Plain EXCEPT !.position = [side_to_move |-> 1, fullmove |-> n, pieces |-> pieces]] :
     n \in {0, 7},
     pieces \in {<<Piece(1, 7, 40), Piece(0, 1, 4)>>, <<Piece(1, 7, 4), Piece(0, 1, 4)>>,
                 <<Piece(1, 8, 40)>>, <<Piece(0, 2, 90)>>}}

Day == <<50, 48, 50, 52, 45, 48, 50, 45, 50, 57>>

MetadataGames ==
  {With("red_rating", n) : n \in {-2048, -1, 0, 2047}}
    \cup {With("result", n) : n \in {0, 5, 6}}
    \cup {With("start_time", Day)}
    \cup {[Plain EXCEPT !.metadata.values =
             [start_time |-> day, date_precision |-> precision]] :
            day \in {Day, [Day EXCEPT ![4] = 51], SubSeq(Day, 1, 7)}, precision \in {0, 2, 3, 7}}
    \cup {[Plain EXCEPT !.metadata.tags = tags] :
            tags \in {<<Text(B), Text(A), Text(B)>>, <<Text(EAcute), Text(<<\hE9>>)>>}}
    \cup {[Plain EXCEPT !.metadata.values = [red_id |-> Text(A), opening_code |-> Text(B),
             opening_id |-> Text(A), source_uri |-> Text(EAcute), organizer |-> <<>>]]}

(* a.b, k and l *)
Space == <<97, 46, 98>>
Extension(items, array) ==
  [Plain EXCEPT !.metadata.extensions =
     Space :> (<<107>> :> [array |-> array, items |-> items] @@
               <<108>> :> [array |-> FALSE, items |-> <<Text(A)>>])]

ExtensionGames ==
  {Extension(<<text>>, FALSE) :
     text \in {<<>>, <<34>>, <<92>>, <<13, 31>>, <<10>>, Text(EAcute), <<127>>,
                Text(<<10, Tilde>>)}}
    \cup {Extension(<<Text(B), Text(A), Text(B)>>, TRUE), Extension(<<>>, TRUE)}
    \cup {[Plain EXCEPT !.metadata.extensions = name :> properties] :
            name \in {Space, <<97>>}, properties \in {<<>>, <<107>> :> [array |-> FALSE, items |-> << <<>> >>]}}

TitleGames ==
  LET Sequences(set, n) == UNION {[1 .. k -> set] : k \in 0 .. n}
  IN  {With("title", bytes) : bytes \in Sequences({\h41, \h80, \h9F, \hA0, \hC1, \hC2, \hE0, \hED}, 3)}
        \cup {With("title", Text(points)) :
                points \in Sequences({\h65, \h43, \hCA, \h1EBE, Acute, Diaeresis, Ring, Cedilla,
                                      \h344, \h1100, \h1161, \h11A8, \hAC00}, 3)}
        \cup {With("title", <<first, second, \h80, \h80>>) :
                first \in {\hF0, \hF3, \hF4, \hF5}, second \in {\h7F, \h80, \h8F, \h90, \hBF}}
        \cup {With("title", Text([i \in 1 .. 14 |-> \h344]))}

Everything ==
  [uuid |-> Uuid(2, 191),
   metadata |-> [values |-> [title |-> Text(EAcute), black_rating |-> -3],
                 tags |-> <<Text(C), Text(B)>>,
                 extensions |-> Space :> (<<107>> :> [array |-> FALSE, items |-> <<Text(A)>>])],
   position |-> [side_to_move |-> 0, fullmove |-> 2,
                 pieces |-> <<Piece(1, 7, 40), Piece(0, 1, 4)>>],
   tree |-> Tree(<<At1(0, None, <<5, 2>>), At1(2, 0, <<>>), At1(5, 0, <<7>>), At1(7, 5, <<>>)>>,
                 << <<>>, <<Comment(Text(A), FALSE), Comment(Text(B), TRUE)>>,
                    <<Comment(Text(B), FALSE)>>, <<>> >>)]

BadUuids == {[Plain EXCEPT !.uuid = Uuid(1, 0)], [Plain EXCEPT !.uuid = Uuid(0, 0)]}

MCGames ==
  TreeGames \cup PositionGames \cup MetadataGames \cup ExtensionGames \cup TitleGames
    \cup BadUuids \cup {Everything}

MCTravellers == {Everything}

MCForeignNumbers == {0, 1, 2, 3, 6, 8, 64, 255, 304, 512, U32Max}

Json(middle) == <<123, 34, 97, 46, 98, 34, 58, 123, 34, 107, 34, 58>> \o middle \o <<125, 125>>

MCForeignTexts ==
  {<<>>, Text(A), Text(B), Text(EAcute), <<\hC1, \h80>>,
   Json(<<34, 34>>), Json(<<32, 34, 34>>), Json(<<91, 93>>), Json(<<91, 34, 34, 93>>),
   Json(<<34, 92, 110, 34>>), Json(<<34, 92, 117, 48, 48, 54, 49, 34>>), Json(<<34, 10, 34>>)}
=============================================================================
