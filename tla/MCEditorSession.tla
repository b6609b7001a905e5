--------------------------- MODULE MCEditorSession ---------------------------
(* A small instance of EditorSession: a board of four squares with two red  *)
(* pieces and a black one, and a document of three moves with a variation,  *)
(* whose storage order is not the order of the tree.                        *)
EXTENDS EditorSession

Move(from, to) == [from |-> from, to |-> to]

MCSquares == 0 .. 3
RedPiece(type) == [side |-> "red", type |-> type]
MCInitialBoard ==
  [square \in MCSquares |->
     CASE square = 0 -> RedPiece("chariot")
       [] square = 1 -> RedPiece("horse")
       [] square = 3 -> [side |-> "black", type |-> "cannon"]
       [] OTHER -> None]

MCNode(id, parent, move, children) ==
  [id |-> id, parent |-> parent, move |-> move,
   children |-> children, annotations |-> <<>>]

(* 0 -> 1 (chariot takes 2) -> 3 (cannon takes 2), and 0 -> 2 (horse to 2). *)
MCInitialDocument ==
  [tree |-> [nodes |-> <<MCNode(0, None, None, <<2, 1>>),
                         MCNode(1, 0, Move(0, 2), <<3>>),
                         MCNode(3, 1, Move(3, 2), <<>>),
                         MCNode(2, 0, Move(1, 2), <<>>)>>,
             next |-> 4],
   metadata |-> "untitled"]

MCMoves == {Move(0, 2), Move(1, 2), Move(3, 2), Move(3, 1)}
MCAnnotationLists == {<<>>, <<"after">>}
MCNoAnnotations == {<<>>}
MCFewMoves == {Move(1, 2), Move(3, 2)}

InsertUnder(parent, move) ==
  [kind |-> "insert", parent |-> parent, move |-> move, index |-> 0]
Delete(node) == [kind |-> "delete", node |-> node]
MCCompounds ==
  {<<Delete(1), InsertUnder(2, Move(3, 1))>>,
   <<InsertUnder(2, Move(3, 1)), Delete(2)>>}

(* A shorter document, 0 -> 1 (chariot takes 2) -> 2 (cannon takes 2), for   *)
(* longer runs of commands.                                                 *)
MCLineDocument ==
  [tree |-> [nodes |-> <<MCNode(0, None, None, <<1>>),
                         MCNode(1, 0, Move(0, 2), <<2>>),
                         MCNode(2, 1, Move(3, 2), <<>>)>>,
             next |-> 3],
   metadata |-> "untitled"]

(* The compound creates a node, whose id the next insertion takes again     *)
(* when the compound is undone.                                             *)
MCLineCompounds == {<<Delete(2), InsertUnder(1, Move(3, 1))>>}
=============================================================================
