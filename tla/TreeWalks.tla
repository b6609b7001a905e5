----------------------------- MODULE TreeWalks -----------------------------
(***************************************************************************)
(* The two walks over the tree of a document that keep a stack of their    *)
(* own: validate_state (core/state_validation.cpp), which plays every move *)
(* on one board and takes it back on the way up, and variation_graph       *)
(* (editor/variation_graph.cpp), which lists a part of the tree for a user *)
(* interface.  A walk is a record, and one round of its loop an operator.  *)
(***************************************************************************)
EXTENDS GameDocument

Opposite(side) == IF side = "red" THEN "black" ELSE "red"

(* The top of a stack is its last element. *)
Replaced(stack, frame) == Append(Front(stack), frame)

-----------------------------------------------------------------------------
(* validate_state *)

(* What a frame needs to take its move back; the root has none. *)
NoUndo == [from |-> None]

Frame(id, undo) == [node |-> id, next_child |-> 0, undo |-> undo]

StartValidation ==
  [stack |-> <<Frame(Root, NoUndo)>>, board |-> InitialBoard,
   side_to_move |-> InitialSide, issues |-> <<>>]

(* Mutant: the captured piece is not put back. *)
TakeBackMoving(board, undo) ==
  [board EXCEPT ![undo.from] = undo.moving, ![undo.to] = None]

TakeBack(board, undo) ==
  [board EXCEPT ![undo.from] = undo.moving, ![undo.to] = undo.captured]

Leave(walk) ==
  LET undo == Last(walk.stack).undo
  IN  IF undo = NoUndo THEN [walk EXCEPT !.stack = Front(@)]
      ELSE [walk EXCEPT !.stack = Front(@),
                        !.side_to_move = Opposite(@),
                        !.board = TakeBack(@, undo)]

(* A move of the wrong side is reported and played; one without a piece, or *)
(* onto a piece of its own side, is reported and its subtree left alone.    *)
Enter(walk, tree) ==
  LET frame == Last(walk.stack)
      child == Children(tree, frame.node)[frame.next_child + 1]
      move == Node(tree, child).move
      moving == walk.board[move.from]
      captured == walk.board[move.to]
      report(issues, code) == Append(issues, [code |-> code, node |-> child])
      counted == [walk EXCEPT !.stack = Replaced(@, [frame EXCEPT !.next_child = @ + 1])]
  IN  IF moving = None
      THEN [counted EXCEPT !.issues = report(@, "missing_source_piece")]
      ELSE LET seen == IF moving.side = walk.side_to_move THEN counted
                       ELSE [counted EXCEPT !.issues = report(@, "wrong_side_to_move")]
           IN  IF captured # None /\ captured.side = moving.side
               THEN [seen EXCEPT !.issues = report(@, "destination_occupied_by_same_side")]
               ELSE [seen EXCEPT
                       !.board = [@ EXCEPT ![move.to] = moving, ![move.from] = None],
                       !.side_to_move = Opposite(@),
                       !.stack = Append(@, Frame(child, [from |-> move.from, to |-> move.to,
                                                         moving |-> moving,
                                                         captured |-> captured]))]

Round(walk, tree) ==
  IF walk.stack = <<>> THEN walk
  ELSE IF Last(walk.stack).next_child = Len(Children(tree, Last(walk.stack).node))
       THEN Leave(walk)
       ELSE Enter(walk, tree)

(* A node is entered at most once and left at most once. *)
ValidateState(document) ==
  LET walk[n \in Nat] == IF n = 0 THEN StartValidation
                         ELSE Round(walk[n - 1], document.tree)
  IN  walk[2 * Len(document.tree.nodes)]

-----------------------------------------------------------------------------
(* variation_graph *)

(* path_to: the ids from the root to a node. *)
PathTo(tree, id) ==
  LET up[n \in Nat] == IF n = 0 THEN <<id>>
                       ELSE LET path == up[n - 1]
                            IN  IF path[1] = Root THEN path
                                ELSE <<Node(tree, path[1]).parent>> \o path
  IN  up[Len(tree.nodes)]

(* Before another node in the tree: above it, or in an earlier variation.   *)
Precedes(tree, a, b) ==
  LET p == PathTo(tree, a)
      q == PathTo(tree, b)
  IN  a # b /\ \/ IsPrefix(p, q)
               \/ \E i \in 2 .. Len(p) \cap 2 .. Len(q) :
                    /\ SubSeq(p, 1, i - 1) = SubSeq(q, 1, i - 1)
                    /\ p[i] # q[i]
                    /\ SiblingIndex(tree, p[i]) < SiblingIndex(tree, q[i])

Pending(id, depth, index) == [id |-> id, depth |-> depth, sibling_index |-> index]

Projected(tree, item, current_path) ==
  [id |-> item.id, parent |-> Node(tree, item.id).parent, depth |-> item.depth,
   sibling_index |-> item.sibling_index,
   main_variation |-> item.id = Root \/ item.sibling_index = 0,
   on_current_path |-> item.id \in Range(current_path)]

(* The children go onto the stack in reverse. *)
PendingChildren(children, depth) ==
  Reverse([i \in DOMAIN children |-> Pending(children[i], depth, i - 1)])

(* Mutant: a walk that ends at the depth limit counts as complete. *)
BelowDepthSilent(tree, walk, item, max_depth) ==
  IF item.depth >= max_depth THEN walk
  ELSE [walk EXCEPT !.pending = @ \o PendingChildren(Children(tree, item.id), item.depth + 1)]

(* Below the depth limit nothing is listed, and what is there is missing. *)
BelowDepth(tree, walk, item, max_depth) ==
  LET children == Children(tree, item.id)
  IN  IF item.depth >= max_depth
      THEN [walk EXCEPT !.truncated = @ \/ children # <<>>]
      ELSE [walk EXCEPT !.pending = @ \o PendingChildren(children, item.depth + 1)]

ListNode(tree, walk, query, current_path) ==
  LET item == Last(walk.pending)
      listed == [walk EXCEPT !.pending = Front(@),
                             !.nodes = Append(@, Projected(tree, item, current_path))]
  IN  IF walk.pending = <<>> THEN walk
      ELSE IF Len(walk.nodes) >= query.max_nodes
           THEN [walk EXCEPT !.pending = <<>>, !.truncated = TRUE]
           ELSE BelowDepth(tree, listed, item, query.max_depth)

(* query.max_nodes is the smaller of the requested number of nodes and      *)
(* SessionOptions::max_projection_nodes.                                    *)
VariationGraph(tree, current, query) ==
  LET index == IF query.from = Root THEN 0 ELSE SiblingIndex(tree, query.from)
      walk[n \in Nat] ==
        IF n = 0
        THEN [pending |-> <<Pending(query.from, 0, index)>>, nodes |-> <<>>, truncated |-> FALSE]
        ELSE ListNode(tree, walk[n - 1], query, PathTo(tree, current))
      done == walk[Len(tree.nodes) + 1]
  IN  [nodes |-> done.nodes,
       edges |-> [i \in 1 .. Len(done.nodes) - 1 |->
                    [parent |-> done.nodes[i + 1].parent, child |-> done.nodes[i + 1].id,
                     main_variation |-> done.nodes[i + 1].main_variation]],
       truncated |-> done.truncated]
=============================================================================
