------------------------------- MODULE OxqTree -------------------------------
(***************************************************************************)
(* The sections of an .oxq file for the tree of moves and its annotations: *)
(* plan_tree, build_move_tree and build_annotations of core/writer.cpp,    *)
(* and the readers in core/codec/move_tree.cpp and annotation.cpp.  In the *)
(* file a node has its index for an id and its children as a chain of      *)
(* siblings, an annotation its place from 1 on.                            *)
(***************************************************************************)
EXTENDS OxqStrings

NoNode == U32Max
NoAnnotation == 0

At(nodes, index) == nodes[index + 1]

-----------------------------------------------------------------------------
(* The writer *)

(* A node, then what is below each of its children in turn. *)
Preorder(tree) ==
  LET below[id \in Ids(tree)] ==
        LET children == Children(tree, id)
        IN  <<id>> \o FlattenSeq([i \in DOMAIN children |-> below[children[i]]])
  IN  below[Root]

(* plan_tree *)
PlanTree(tree) ==
  LET order == Preorder(tree)
      index == [id \in Ids(tree) |-> (CHOOSE i \in DOMAIN order : order[i] = id) - 1]
      siblings(id) == Children(tree, Node(tree, id).parent)
      last(id) == id = Root \/ SiblingIndex(tree, id) = Len(siblings(id)) - 1
      annotations(id) == Node(tree, id).annotations
      before[i \in 1 .. Len(order)] ==
        IF i = 1 THEN 0 ELSE before[i - 1] + Len(annotations(order[i - 1]))
  IN  [order |-> order, index |-> index, ply |-> Depths(tree),
       next_sibling |-> [id \in Ids(tree) |->
                           IF last(id) THEN NoNode
                           ELSE index[siblings(id)[SiblingIndex(tree, id) + 2]]],
       first_annotation |-> [id \in Ids(tree) |->
                               IF annotations(id) = <<>> THEN NoAnnotation
                               ELSE before[index[id] + 1] + 1]]

BuildMoveTree(tree, plan) ==
  LET record(node) ==
        [parent |-> IF node.parent = None THEN NoNode ELSE plan.index[node.parent],
         first_child |-> IF node.children = <<>> THEN NoNode ELSE plan.index[node.children[1]],
         next_sibling |-> plan.next_sibling[node.id],
         first_annotation |-> plan.first_annotation[node.id],
         from |-> IF node.move = None THEN 255 ELSE node.move.from,
         to |-> IF node.move = None THEN 255 ELSE node.move.to,
         kind |-> IF node.move = None THEN 255 ELSE 0,
         move_flags |-> IF node.move = None THEN 255 ELSE 0,
         ply |-> plan.ply[node.id], flags |-> 0]
  IN  [header |-> <<1, 16, 32, 0, 0>>, count |-> Len(tree.nodes),
       size |-> 16 + 32 * Len(tree.nodes),
       nodes |-> [i \in DOMAIN plan.order |-> record(Node(tree, plan.order[i]))]]

BuildAnnotations(tree, plan, placed) ==
  LET reference(bytes) == IF bytes = None THEN NoString ELSE placed.reference[bytes]
      records(id) ==
        LET list == Node(tree, id).annotations
            number(k) == plan.first_annotation[id] + k - 1
        IN  [k \in DOMAIN list |->
               [id |-> number(k),
                next |-> IF k < Len(list) THEN number(k) + 1 ELSE NoAnnotation,
                kind |-> list[k].kind + 1, flags |-> IF list[k].before_move THEN 1 ELSE 0,
                text |-> reference(list[k].text), author |-> reference(list[k].author),
                language |-> reference(list[k].language)]]
      all == FlattenSeq([i \in DOMAIN plan.order |-> records(plan.order[i])])
  IN  [header |-> <<1, 16, 24, 0, 0>>, count |-> Len(all), size |-> 16 + 24 * Len(all),
       records |-> all]

-----------------------------------------------------------------------------
(* The reader *)

ReadableAnnotation(record, index, count, strings) ==
  /\ record.id = index
  /\ record.next <= count
  /\ record.kind \in 1 .. 2 /\ record.flags <= 1
  /\ record.text \in DOMAIN strings.text
  /\ {record.author, record.language} \subseteq DOMAIN strings.text \cup {NoString}

(* read_annotations *)
ReadAnnotations(payload, strings) ==
  LET optional(reference) == IF reference = NoString THEN None ELSE strings.text[reference]
      value(record) ==
        [kind |-> record.kind - 1, before_move |-> record.flags = 1,
         text |-> strings.text[record.text], author |-> optional(record.author),
         language |-> optional(record.language)]
  IN  IF /\ payload.header = <<1, 16, 24, 0, 0>>
         /\ payload.count <= Limits.annotations /\ payload.size = 16 + 24 * payload.count
         /\ \A i \in DOMAIN payload.records :
              ReadableAnnotation(payload.records[i], i, payload.count, strings)
      THEN [ok |-> TRUE,
            records |-> [i \in DOMAIN payload.records |->
                           [next |-> payload.records[i].next, value |-> value(payload.records[i])]]]
      ELSE Refused

(* A node on its own: its references, and whether it is like a root or like *)
(* another node.                                                            *)
ReadableNode(nodes, index, annotations) ==
  LET node == At(nodes, index)
  IN  /\ {node.parent, node.first_child, node.next_sibling}
           \subseteq 0 .. Len(nodes) - 1 \cup {NoNode}
      /\ node.first_annotation <= Len(annotations)
      /\ node.flags = 0
      /\ IF index = 0
         THEN /\ node.parent = NoNode /\ node.next_sibling = NoNode /\ node.ply = 0
              /\ {node.from, node.to, node.kind, node.move_flags} = {255}
         ELSE /\ node.parent # NoNode
              /\ node.from <= 89 /\ node.to <= 89 /\ node.from # node.to
              /\ node.kind = 0 /\ node.move_flags = 0

(* The elements that next leads to from the first on, up to the end; a walk *)
(* longer than bound goes in a circle.                                      *)
Walk(first, end, bound, next) ==
  LET step[k \in 1 .. bound + 1] ==
        IF k = 1 THEN first ELSE IF step[k - 1] = end THEN end ELSE next[step[k - 1]]
  IN  SelectSeq(step, LAMBDA x : x # end)

(* Mutant: a chain is collected from its end. *)
ChainsReversed(nodes) ==
  [parent \in 0 .. Len(nodes) - 1 |->
     Reverse(Walk(At(nodes, parent).first_child, NoNode, Len(nodes),
                  [child \in 0 .. Len(nodes) - 1 |-> At(nodes, child).next_sibling]))]

(* The children of every node. *)
Chains(nodes) ==
  [parent \in 0 .. Len(nodes) - 1 |->
     Walk(At(nodes, parent).first_child, NoNode, Len(nodes),
          [child \in 0 .. Len(nodes) - 1 |-> At(nodes, child).next_sibling])]

(* Mutant: a node may belong to the chains of two parents. *)
ChainsShared(nodes, chains) ==
  /\ \A parent \in DOMAIN chains :
       /\ IsInjective(chains[parent])
       /\ \A child \in Range(chains[parent]) :
            child # 0 /\ At(nodes, child).ply = At(nodes, parent).ply + 1
  /\ UNION {Range(chains[parent]) : parent \in DOMAIN chains} = 1 .. Len(nodes) - 1

(* Every node but the root is in one chain, that of its parent, at the next *)
(* ply.                                                                     *)
ChainsAgree(nodes, chains) ==
  /\ \A parent \in DOMAIN chains :
       /\ IsInjective(chains[parent])
       /\ \A child \in Range(chains[parent]) :
            /\ child # 0
            /\ At(nodes, child).parent = parent
            /\ At(nodes, child).ply = At(nodes, parent).ply + 1
  /\ UNION {Range(chains[parent]) : parent \in DOMAIN chains} = 1 .. Len(nodes) - 1

AnnotationChains(nodes, annotations) ==
  [index \in 0 .. Len(nodes) - 1 |->
     Walk(At(nodes, index).first_annotation, NoAnnotation, Len(annotations),
          [number \in DOMAIN annotations |-> annotations[number].next])]

(* Every annotation belongs to one node; the root has none before a move.   *)
AllOwned(owned, annotations) ==
  LET all == FlattenSeq([i \in 1 .. Cardinality(DOMAIN owned) |-> owned[i - 1]])
  IN  /\ IsInjective(all) /\ Range(all) = DOMAIN annotations
      /\ \A number \in Range(owned[0]) : ~annotations[number].value.before_move

DecodedTree(nodes, chains, owned, annotations) ==
  LET node(index) ==
        [id |-> index, children |-> chains[index],
         parent |-> IF index = 0 THEN None ELSE At(nodes, index).parent,
         move |-> IF index = 0 THEN None
                  ELSE [from |-> At(nodes, index).from, to |-> At(nodes, index).to],
         annotations |-> [k \in DOMAIN owned[index] |-> annotations[owned[index][k]].value]]
  IN  [nodes |-> [i \in DOMAIN nodes |-> node(i - 1)], next |-> Len(nodes)]

(* read_move_tree *)
ReadMoveTree(payload, annotations) ==
  LET nodes == payload.nodes
      chains == Chains(nodes)
      owned == AnnotationChains(nodes, annotations)
      tree == DecodedTree(nodes, chains, owned, annotations)
  IN  IF /\ payload.header = <<1, 16, 32, 0, 0>>
         /\ payload.count # 0 /\ payload.count <= Limits.nodes
         /\ payload.size = 16 + 32 * payload.count
         /\ \A index \in 0 .. Len(nodes) - 1 : ReadableNode(nodes, index, annotations)
         /\ ChainsAgree(nodes, chains)
         /\ Subtree(tree, Root) = Ids(tree)
         /\ \A id \in Ids(tree) : Depths(tree)[id] <= Limits.tree_depth
         /\ AllOwned(owned, annotations)
      THEN [ok |-> TRUE, value |-> tree,
            canonical_order |-> Preorder(tree) = [i \in DOMAIN nodes |-> i - 1]]
      ELSE Refused
=============================================================================
