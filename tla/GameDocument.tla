---------------------------- MODULE GameDocument ----------------------------
(***************************************************************************)
(* A game document: an initial position, a tree of moves and metadata; the *)
(* positions its nodes stand for (compute_position in editor_session.cpp)  *)
(* and the two validation policies (core/validation.cpp and                *)
(* core/state_validation.cpp).                                             *)
(*                                                                         *)
(* The initial position cannot be edited and is a constant.  A piece is a  *)
(* record with its side; an annotation is "before" or "after" the move.    *)
(***************************************************************************)
EXTENDS MoveTree

CONSTANTS
  Squares,
  InitialBoard,       (* squares to pieces, None where there is none          *)
  InitialSide,        (* "red" or "black"                                     *)
  InitialFullmove,
  MaxFullmove,        (* the largest fullmove number, 65535 in the code       *)
  Metadata,
  InvalidMetadata,    (* metadata that validation rejects                     *)
  ValidationPolicy    (* "structural" or "state_consistent"                   *)

NoPosition == None

(* The values a document is made of. *)
MoveRecords == [from : Squares, to : Squares]
Annotations == Seq({"before", "after"})
NodeIds == 0 .. MaxNodeId

NodeRecords ==
  [id : NodeIds, parent : NodeIds \cup {None}, move : MoveRecords \cup {None},
   children : Seq(NodeIds), annotations : Annotations]

Trees == [nodes : Seq(NodeRecords), next : NodeIds]
DocumentRecords == [tree : Trees, metadata : Metadata]
Contents == [nodes : Seq(NodeRecords), metadata : Metadata]

InitialPosition ==
  [board |-> InitialBoard, side_to_move |-> InitialSide, fullmove |-> InitialFullmove]

ValidMove(move) ==
  {move.from, move.to} \subseteq Squares /\ move.from # move.to

(* Fullmove numbers are bounded where they are used, in PositionOf. *)
PositionRecords ==
  [board : [Squares -> Range(InitialBoard) \cup {None}],
   side_to_move : {"red", "black"}, fullmove : Nat]

(* The initial position is one, and an absent position is not.              *)
ASSUME PositionAssumption ==
  InitialPosition \in PositionRecords /\ NoPosition \notin PositionRecords

(* The origin holds a piece of the side to move, the target no such piece. *)
Playable(position, move) ==
  LET holds(square) == position.board[square] # None
                         /\ position.board[square].side = position.side_to_move
  IN  holds(move.from) /\ ~holds(move.to)

Play(position, move) ==
  LET black == position.side_to_move = "black"
  IN  [board |-> [position.board EXCEPT ![move.to] = position.board[move.from],
                                        ![move.from] = None],
       side_to_move |-> IF black THEN "red" ELSE "black",
       fullmove |-> position.fullmove + IF black THEN 1 ELSE 0]

(* The positions of all nodes; none below a move that cannot be played. *)
Positions(document) ==
  LET tree == document.tree
      at[id \in Ids(tree)] ==
        IF id = Root THEN InitialPosition
        ELSE LET node == Node(tree, id)
                 above == at[node.parent]
             IN  IF above = NoPosition \/ ~Playable(above, node.move)
                 THEN NoPosition
                 ELSE Play(above, node.move)
  IN  at

(* compute_position: an error when a move cannot be played or the fullmove  *)
(* number leaves its range.                                                 *)
PositionOf(document, id) ==
  LET position == Positions(document)[id]
  IN  IF position # NoPosition /\ position.fullmove > MaxFullmove
      THEN NoPosition ELSE position

(* validate: the tree, its moves, the root's annotations and the metadata. *)
Structural(document) ==
  LET nodes == document.tree.nodes
  IN  /\ WellFormed(document.tree)
      /\ \A i \in DOMAIN nodes \ {1} : ValidMove(nodes[i].move)
      /\ "before" \notin Range(nodes[1].annotations)
      /\ document.metadata \notin InvalidMetadata

(* validate_state: in addition every move can be played; it does not count  *)
(* fullmoves.                                                               *)
Valid(document) ==
  /\ Structural(document)
  /\ ValidationPolicy = "state_consistent" =>
       \A id \in Ids(document.tree) : Positions(document)[id] # NoPosition

(* What operator== compares: not the next id. *)
Content(document) == [nodes |-> document.tree.nodes, metadata |-> document.metadata]
=============================================================================
