---------------------------- MODULE EditCommands ----------------------------
(***************************************************************************)
(* The atomic commands of the editor, the compound command built of them,  *)
(* and what undo and redo do with the inverse data each of them leaves     *)
(* (EditorSession::execute, undo and redo in editor_session.cpp).          *)
(*                                                                         *)
(* A command is a record with a kind and the fields of its C++ struct.     *)
(***************************************************************************)
EXTENDS GameDocument

CONSTANT MaxDocumentNodes     (* SessionOptions::max_document_nodes            *)

(* The arguments of the commands; whether a move is one is checked later. *)
AnyMove == [from : Nat, to : Nat]

Commands ==
  [kind : {"insert"}, parent : NodeIds, move : AnyMove, index : Nat]
    \cup [kind : {"delete"}, node : NodeIds]
    \cup [kind : {"replace"}, node : NodeIds, move : AnyMove]
    \cup [kind : {"reorder"}, node : NodeIds, index : Nat]
    \cup [kind : {"annotate"}, node : NodeIds, annotations : Annotations]
    \cup [kind : {"metadata"}, metadata : Metadata]

(* The fields of a ChangeSet that say what to repaint; the lists are sets.  *)
NoChanges ==
  [inserted |-> {}, removed |-> {}, updated |-> {}, reordered_parents |-> {},
   metadata_changed |-> FALSE, selection_changed |-> FALSE]

-----------------------------------------------------------------------------
(* What a command asks for already holds: success, and nothing happens. *)
NoOp(document, c) ==
  LET tree == document.tree
  IN  \/ c.kind = "metadata" /\ c.metadata = document.metadata
      \/ /\ c.kind = "annotate"
         /\ c.node \in Ids(tree)
         /\ Node(tree, c.node).annotations = c.annotations
      \/ /\ c.kind = "replace"
         /\ c.node \in Ids(tree) \ {Root}
         /\ Node(tree, c.node).move = c.move
      \/ /\ c.kind = "reorder"
         /\ c.node \in Ids(tree) \ {Root}
         /\ SiblingIndex(tree, c.node) = c.index

(* Mutant: only the main variation is compared. *)
IsMainMove(tree, parent, move, except) ==
  LET children == Children(tree, parent)
  IN  /\ children # <<>>
      /\ children[1] \notin except
      /\ Node(tree, children[1]).move = move

HasChildMove(tree, parent, move, except) ==
  \E child \in Range(Children(tree, parent)) \ except : Node(tree, child).move = move

(* The conditions execute checks before it builds the working document. *)
Accepts(document, c) ==
  LET tree == document.tree
  IN  \/ c.kind = "metadata"
      \/ c.kind = "annotate" /\ c.node \in Ids(tree)
      \/ /\ c.kind = "insert"
         /\ Len(tree.nodes) < MaxDocumentNodes
         /\ c.parent \in Ids(tree)
         /\ ValidMove(c.move)
         /\ c.index <= Len(Children(tree, c.parent))
         /\ ~HasChildMove(tree, c.parent, c.move, {})
         /\ CanAllocate(tree)
      \/ c.kind = "delete" /\ c.node \in Ids(tree) \ {Root}
      \/ /\ c.kind = "replace"
         /\ c.node \in Ids(tree) \ {Root}
         /\ ValidMove(c.move)
         /\ ~HasChildMove(tree, Node(tree, c.node).parent, c.move, {c.node})
      \/ /\ c.kind = "reorder"
         /\ c.node \in Ids(tree) \ {Root}
         /\ c.index < Len(Children(tree, Node(tree, c.node).parent))

(* The working document. *)
After(document, c) ==
  LET tree == document.tree
      node == Node(tree, c.node)
      with(t) == [document EXCEPT !.tree = t]
  IN  CASE c.kind = "metadata" -> [document EXCEPT !.metadata = c.metadata]
        [] c.kind = "annotate" ->
             with(Update(tree, [node EXCEPT !.annotations = c.annotations]))
        [] c.kind = "insert"   -> with(AddNode(tree, c.parent, c.move, c.index))
        [] c.kind = "delete"   -> with(RemoveNode(tree, c.node))
        [] c.kind = "replace"  -> with(Update(tree, [node EXCEPT !.move = c.move]))
        [] c.kind = "reorder"  -> with(ReorderChild(tree, node.parent, c.node, c.index))

Executes(document, c) ==
  /\ Accepts(document, c)
  /\ ~NoOp(document, c)
  /\ Valid(After(document, c))

(* Mutant: deletion moves the selection only off the deleted node itself. *)
SelectionOffNodeOnly(document, current, c) ==
  CASE c.kind = "insert" -> document.tree.next
    [] c.kind = "delete" -> IF current = c.node
                            THEN Node(document.tree, c.node).parent ELSE current
    [] OTHER -> current

(* Insertion selects the new node; deletion of the selected node, or of one *)
(* above it, selects the parent of what was deleted.                        *)
SelectionAfter(document, current, c) ==
  CASE c.kind = "insert" -> document.tree.next
    [] c.kind = "delete" -> IF current \in Subtree(document.tree, c.node)
                            THEN Node(document.tree, c.node).parent ELSE current
    [] OTHER -> current

ChangesOf(document, current, c) ==
  LET tree == document.tree
      moved == current # SelectionAfter(document, current, c)
  IN  CASE c.kind = "metadata" -> [NoChanges EXCEPT !.metadata_changed = TRUE]
        [] c.kind \in {"annotate", "replace"} -> [NoChanges EXCEPT !.updated = {c.node}]
        [] c.kind = "reorder" ->
             [NoChanges EXCEPT !.reordered_parents = {Node(tree, c.node).parent}]
        [] c.kind = "insert" ->
             [NoChanges EXCEPT !.inserted = {tree.next},
                               !.reordered_parents = {c.parent},
                               !.selection_changed = moved]
        [] c.kind = "delete" ->
             [NoChanges EXCEPT !.removed = Subtree(tree, c.node),
                               !.reordered_parents = {Node(tree, c.node).parent},
                               !.selection_changed = moved]

-----------------------------------------------------------------------------
(* What the properties ask of a document and of a change set *)

(* No node has two children with the same move.                             *)
DistinctMoves(tree) ==
  \A node \in Range(tree.nodes) : \A a, b \in Range(node.children) :
    Node(tree, a).move = Node(tree, b).move => a = b

(* The change set takes the ids of one document to those of the other and   *)
(* names every node whose move, annotations or children differ.             *)
AnnouncesChanges(before, after, changes) ==
  LET old == before.tree
      new == after.tree
      kept == Ids(old) \cap Ids(new)
  IN  /\ Ids(new) = (Ids(old) \cup changes.inserted) \ changes.removed
      /\ \A id \in kept :
           <<Node(old, id).move, Node(old, id).annotations>>
             # <<Node(new, id).move, Node(new, id).annotations>>
             => id \in changes.updated
      /\ \A id \in kept : Children(old, id) # Children(new, id)
                            => id \in changes.reordered_parents
      /\ before.metadata # after.metadata => changes.metadata_changed

-----------------------------------------------------------------------------
(* The history entry of a command: the inverse data, which depends on the   *)
(* command, and the fields that the session fills in for every kind.  The   *)
(* two documents are history fields: the code does not keep them, and       *)
(* nothing but the properties reads them.                                   *)
Entry0 ==
  [kind |-> None, nodes |-> <<>>, root |-> Root, parent |-> Root, sibling_index |-> 0,
   before |-> None, after |-> None, forward_changes |-> NoChanges,
   before_current |-> Root, after_current |-> Root, before_token |-> 0, after_token |-> 0,
   before_document |-> None, after_document |-> None, cost |-> 0]

InverseOf(document, c) ==
  LET tree == document.tree
      node == Node(tree, c.node)
      index == SiblingIndex(tree, c.node)
  IN  CASE c.kind = "metadata" ->
             [Entry0 EXCEPT !.before = document.metadata, !.after = c.metadata]
        [] c.kind = "annotate" ->
             [Entry0 EXCEPT !.root = c.node,
                              !.before = node.annotations, !.after = c.annotations]
        [] c.kind = "replace" ->
             [Entry0 EXCEPT !.nodes = Stored(tree, {c.node}), !.root = c.node,
                              !.parent = node.parent, !.sibling_index = index,
                              !.before = node.move, !.after = c.move]
        [] c.kind = "reorder" ->
             [Entry0 EXCEPT !.nodes = Stored(tree, {c.node}), !.root = c.node,
                              !.parent = node.parent, !.sibling_index = index,
                              !.after = c.index]
        [] c.kind = "delete" ->
             [Entry0 EXCEPT !.nodes = Stored(tree, Subtree(tree, c.node)),
                              !.root = c.node, !.parent = node.parent,
                              !.sibling_index = index]
        [] c.kind = "insert" ->
             [Entry0 EXCEPT !.nodes = Stored(After(document, c).tree, {tree.next}),
                              !.root = tree.next, !.parent = c.parent,
                              !.sibling_index = c.index]

(* restore_subtree succeeds. *)
Restorable(tree, entry) ==
  /\ \A k \in DOMAIN entry.nodes :
       /\ entry.nodes[k].storage_index <= Len(tree.nodes) + k - 1
       /\ entry.nodes[k].node.id \notin Ids(tree)
  /\ entry.parent \in Ids(tree)
  /\ entry.sibling_index <= Len(Children(tree, entry.parent))

Removable(tree, entry) == WellFormed(tree) /\ entry.root \in Ids(tree) \ {Root}

Reorderable(tree, entry, index) ==
  /\ entry.parent \in Ids(tree)
  /\ entry.root \in Range(Children(tree, entry.parent))
  /\ index < Len(Children(tree, entry.parent))

Restored(document, entry) ==
  [document EXCEPT !.tree = RestoreNodes(@, entry.nodes, entry.root,
                                         entry.parent, entry.sibling_index)]

Removed(document, entry) == [document EXCEPT !.tree = RemoveNode(@, entry.root)]

Reordered(document, entry, index) ==
  [document EXCEPT !.tree = ReorderChild(@, entry.parent, entry.root, index)]

(* The kinds whose entry holds the value to put back, before or after. *)
PutBack(document, entry, value) ==
  LET node == Node(document.tree, entry.root)
  IN  CASE entry.kind = "metadata" -> [document EXCEPT !.metadata = value]
        [] entry.kind = "annotate" ->
             [document EXCEPT !.tree = Update(@, [node EXCEPT !.annotations = value])]
        [] entry.kind = "replace" ->
             [document EXCEPT !.tree = Update(@, [node EXCEPT !.move = value])]
        [] entry.kind = "compound" -> value

(* The steps of undo and redo before they validate what comes out. *)
CanRevert(document, entry) ==
  CASE entry.kind = "insert"  -> Removable(document.tree, entry)
    [] entry.kind = "delete"  -> Restorable(document.tree, entry)
    [] entry.kind = "reorder" -> Reorderable(document.tree, entry, entry.sibling_index)
    [] OTHER -> entry.root \in Ids(document.tree)

Reverted(document, entry) ==
  CASE entry.kind = "insert"  -> Removed(document, entry)
    [] entry.kind = "delete"  -> Restored(document, entry)
    [] entry.kind = "reorder" -> Reordered(document, entry, entry.sibling_index)
    [] OTHER -> PutBack(document, entry, entry.before)

CanReapply(document, entry) ==
  CASE entry.kind = "insert"  -> Restorable(document.tree, entry)
    [] entry.kind = "delete"  -> Removable(document.tree, entry)
    [] entry.kind = "reorder" -> Reorderable(document.tree, entry, entry.after)
    [] OTHER -> entry.root \in Ids(document.tree)

Reapplied(document, entry) ==
  CASE entry.kind = "insert"  -> Restored(document, entry)
    [] entry.kind = "delete"  -> Removed(document, entry)
    [] entry.kind = "reorder" -> Reordered(document, entry, entry.after)
    [] OTHER -> PutBack(document, entry, entry.after)

-----------------------------------------------------------------------------
(* A compound command runs on a copy of the session, each command on what   *)
(* the one before it left; the first refusal is the refusal of the whole.   *)
Merge(changes, more) ==
  [field \in DOMAIN changes |->
     IF field \in {"metadata_changed", "selection_changed"}
     THEN changes[field] \/ more[field]
     ELSE changes[field] \cup more[field]]

RunOne(run, c) ==
  IF ~run.ok \/ NoOp(run.document, c) THEN run
  ELSE IF ~Executes(run.document, c) THEN [run EXCEPT !.ok = FALSE]
  ELSE [ok |-> TRUE,
        document |-> After(run.document, c),
        current_node |-> SelectionAfter(run.document, run.current_node, c),
        changes |-> Merge(run.changes, ChangesOf(run.document, run.current_node, c))]

Run(document, current, commands) ==
  LET run[k \in 0 .. Len(commands)] ==
        IF k = 0
        THEN [ok |-> TRUE, document |-> document, current_node |-> current,
              changes |-> NoChanges]
        ELSE RunOne(run[k - 1], commands[k])
  IN  run[Len(commands)]
=============================================================================
