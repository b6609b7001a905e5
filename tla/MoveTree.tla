------------------------------ MODULE MoveTree ------------------------------
(***************************************************************************)
(* The tree of moves of a game document (core/game_model.cpp) and what the *)
(* editor does to it.  A tree is the storage order of its nodes and the    *)
(* next node id; a node knows its parent and its children, in order.       *)
(* Indices count from 0, as in the code.                                   *)
(***************************************************************************)
EXTENDS Integers, SequencesExt, FiniteSetsExt

CONSTANTS
  None,        (* an absent parent or move (std::nullopt)                     *)
  MaxNodeId    (* the largest value of a NodeId                               *)

ASSUME NodeIdAssumption == MaxNodeId \in Nat /\ None \notin Nat

Root == 0

(* The elements of a list at the given positions, in their order. *)
Sublist(list, positions) ==
  LET first[n \in 0 .. Len(list)] ==
        IF n = 0 THEN <<>>
        ELSE IF n \in positions THEN Append(first[n - 1], list[n])
        ELSE first[n - 1]
  IN  first[Len(list)]

Without(list, element) == Sublist(list, {i \in DOMAIN list : list[i] # element})

Ids(tree) == {node.id : node \in Range(tree.nodes)}

IndexOf(tree, id) == CHOOSE i \in DOMAIN tree.nodes : tree.nodes[i].id = id

Node(tree, id) == tree.nodes[IndexOf(tree, id)]

Update(tree, node) == [tree EXCEPT !.nodes[IndexOf(tree, node.id)] = node]

Children(tree, id) == Node(tree, id).children

(* The position of a child among its siblings. *)
SiblingIndex(tree, id) ==
  LET siblings == Children(tree, Node(tree, id).parent)
  IN  CHOOSE i \in 0 .. Len(siblings) - 1 : siblings[i + 1] = id

SetChildren(tree, id, children) ==
  Update(tree, [Node(tree, id) EXCEPT !.children = children])

(* Mutant: the next id is worked out from the nodes that are left. *)
ReindexedFromNodes(nodes, next) ==
  [nodes |-> nodes, next |-> Max({node.id : node \in Range(nodes)}) + 1]

(* rebuildIndex only ever raises the next id, to above every id in use. *)
Reindexed(nodes, next) ==
  LET highest == Max({node.id : node \in Range(nodes)})
  IN  [nodes |-> nodes,
       next  |-> IF highest = MaxNodeId THEN MaxNodeId ELSE Max({next, highest + 1})]

(* addNode appends the node to the storage; insert then moves it from the   *)
(* end of its siblings to the requested place.                              *)
CanAllocate(tree) == tree.next # MaxNodeId

NewNode(tree, parent, move) ==
  [id |-> tree.next, parent |-> parent, move |-> move,
   children |-> <<>>, annotations |-> <<>>]

AddNode(tree, parent, move, index) ==
  LET placed == SetChildren(tree, parent,
                            InsertAt(Children(tree, parent), index + 1, tree.next))
  IN  Reindexed(Append(placed.nodes, NewNode(tree, parent, move)), tree.next + 1)

(* A node and everything below it: the closure of its children. *)
Subtree(tree, id) ==
  LET below[n \in 0 .. Len(tree.nodes)] ==
        IF n = 0 THEN {id}
        ELSE LET above == below[n - 1]
             IN  above \cup UNION {Range(Children(tree, node)) : node \in above}
  IN  below[Len(tree.nodes)]

RemoveNode(tree, id) ==
  LET removed == Subtree(tree, id)
      parent  == Node(tree, id).parent
      cut     == SetChildren(tree, parent, Without(Children(tree, parent), id))
  IN  Reindexed(Sublist(cut.nodes, {i \in DOMAIN cut.nodes : cut.nodes[i].id \notin removed}),
                tree.next)

(* Mutant: a deletion keeps the root of the subtree only. *)
StoredTopOnly(tree, ids) ==
  LET i == CHOOSE j \in DOMAIN tree.nodes :
             /\ tree.nodes[j].id \in ids
             /\ \A k \in 1 .. j - 1 : tree.nodes[k].id \notin ids
  IN  <<[storage_index |-> i - 1, node |-> tree.nodes[i]]>>

(* What a deletion keeps for undo: the nodes with their storage indices, in *)
(* storage order.                                                           *)
Stored(tree, ids) ==
  Sublist([i \in DOMAIN tree.nodes |-> [storage_index |-> i - 1, node |-> tree.nodes[i]]],
          {i \in DOMAIN tree.nodes : tree.nodes[i].id \in ids})

(* Mutant: restored nodes go to the end of the storage. *)
RefillAtEnd(nodes, stored) == nodes \o [k \in DOMAIN stored |-> stored[k].node]

(* restore_subtree puts them back one by one, then links the root of the    *)
(* subtree to its parent again.                                             *)
Refill(nodes, stored) ==
  LET filled[k \in 0 .. Len(stored)] ==
        IF k = 0 THEN nodes
        ELSE InsertAt(filled[k - 1], stored[k].storage_index + 1, stored[k].node)
  IN  filled[Len(stored)]

RestoreNodes(tree, stored, id, parent, index) ==
  LET filled == Reindexed(Refill(tree.nodes, stored), tree.next)
  IN  SetChildren(filled, parent, InsertAt(Children(filled, parent), index + 1, id))

ReorderChild(tree, parent, id, index) ==
  SetChildren(tree, parent, InsertAt(Without(Children(tree, parent), id), index + 1, id))

(* validateInvariants: one root, first in storage; ids are unique; parents  *)
(* and ordered children agree, each child listed once; all is reachable.    *)
WellFormed(tree) ==
  LET nodes == tree.nodes
  IN  /\ nodes # <<>>
      /\ \A i, j \in DOMAIN nodes : nodes[i].id = nodes[j].id => i = j
      /\ \A i \in DOMAIN nodes : nodes[i].id = Root <=> i = 1
      /\ \A i \in DOMAIN nodes : nodes[i].parent = None <=> i = 1
      /\ nodes[1].move = None
      /\ \A i \in DOMAIN nodes \ {1} :
           /\ nodes[i].parent \in Ids(tree)
           /\ \E k \in DOMAIN Children(tree, nodes[i].parent) :
                Children(tree, nodes[i].parent)[k] = nodes[i].id
      /\ \A node \in Range(nodes) :
           /\ IsInjective(node.children)
           /\ \A child \in Range(node.children) :
                child \in Ids(tree) /\ Node(tree, child).parent = node.id
      /\ Subtree(tree, Root) = Ids(tree)
=============================================================================
