---------------------------- MODULE EditorSession ----------------------------
(***************************************************************************)
(* EditorSession (editor_session.cpp) with real documents: the commands of *)
(* EditCommands, the inverse data they leave on the history, undo and redo *)
(* working with that data, the position cache and the change sets that     *)
(* drive a user interface.  It implements SessionHistory, whose entries    *)
(* hold whole documents.                                                   *)
(*                                                                         *)
(* A command that is refused or asks for nothing new changes nothing and   *)
(* is a stuttering step.                                                   *)
(***************************************************************************)
EXTENDS EditCommands, HistoryStacks, TreeWalks

CONSTANTS
  InitialDocument,           (* what open_document accepted                   *)
  Moves, AnnotationLists,    (* the arguments commands are tried with         *)
  Compounds,                 (* the compound commands that are tried          *)
  MaxCompoundCommands,       (* SessionOptions::max_compound_commands         *)
  MaxPositionCacheEntries,   (* SessionOptions::max_position_cache_entries    *)
  MaxProjectedNodes,         (* the limits variation_graph is asked for, and  *)
  MaxProjectedDepth,         (* SessionOptions::max_projection_nodes          *)
  MaxRevision                (* bound of the model: no revision above it      *)

(* open_document refuses anything else; the next id is what rebuildIndex    *)
(* makes it.                                                                *)
ASSUME OpenAssumption ==
  /\ InitialDocument \in DocumentRecords
  /\ Len(InitialDocument.tree.nodes) <= MaxDocumentNodes
  /\ Valid(InitialDocument)
  /\ InitialDocument.tree = Reindexed(InitialDocument.tree.nodes, InitialDocument.tree.next)

ASSUME ArgumentsAssumption ==
  /\ Moves \subseteq AnyMove
  /\ AnnotationLists \subseteq Annotations
  /\ Compounds \subseteq Seq(Commands)

ASSUME BoundsAssumption ==
  {MaxPositionCacheEntries, MaxRevision, MaxProjectedNodes, MaxProjectedDepth} \subseteq Nat

VARIABLES
  document,
  current_node,
  revision,
  dirty,
  can_undo,
  can_redo,
  current_document_token,
  saved_document_token,
  next_document_token,
  position_cache,       (* node ids to positions, for the ids in the cache    *)
  published,            (* the ChangeSet of the last success                  *)
  checkpoint,           (* history variable: the document last marked saved   *)
  used                  (* history variable: every node id the session has had *)

tokens == <<current_document_token, saved_document_token, next_document_token>>
flags == <<dirty, can_undo, can_redo>>
vars == <<document, current_node, revision, flags, tokens, undo_history, redo_history,
          position_cache, published, checkpoint, used>>

Init ==
  /\ document = InitialDocument
  /\ current_node = Root
  /\ revision = 0
  /\ dirty = FALSE
  /\ can_undo = FALSE
  /\ can_redo = FALSE
  /\ undo_history = <<>>
  /\ redo_history = <<>>
  /\ current_document_token = 0
  /\ saved_document_token = 0
  /\ next_document_token = 1
  /\ position_cache = <<>>
  /\ published = NoChanges
  /\ checkpoint = Content(InitialDocument)
  /\ used = Ids(InitialDocument.tree)

-----------------------------------------------------------------------------
(* The position cache *)

CacheWithout(ids) == Restrict(position_cache, DOMAIN position_cache \ ids)

StoredIds(entry) == {s.node.id : s \in Range(entry.nodes)}

(* position_at: computed once and kept; a full cache is emptied first. *)
PositionAt(id) ==
  /\ MaxPositionCacheEntries # 0
  /\ id \notin DOMAIN position_cache
  /\ PositionOf(document, id) # NoPosition
  /\ LET kept == IF Cardinality(DOMAIN position_cache) >= MaxPositionCacheEntries
                 THEN <<>> ELSE position_cache
     IN  position_cache' = [node \in DOMAIN kept \cup {id} |->
                               IF node = id THEN PositionOf(document, id) ELSE kept[node]]
  /\ UNCHANGED <<document, current_node, revision, flags, tokens,
                 undo_history, redo_history, published, checkpoint, used>>

-----------------------------------------------------------------------------
(* Commands *)

(* A stand-in for the byte estimate: what the entry keeps copies of. *)
EntryCost(entry) ==
  1 + Len(entry.nodes)
    + IF entry.kind = "compound"
      THEN Len(entry.before.tree.nodes) + Len(entry.after.tree.nodes) ELSE 0

(* A new version of the document, remembered by an entry of this kind.      *)
Commit(kind, inverse, version, current, changes) ==
  /\ revision < MaxRevision
  /\ LET entry == [inverse EXCEPT !.kind = kind,
                                  !.before_current = current_node,
                                  !.after_current = current,
                                  !.before_token = current_document_token,
                                  !.after_token = next_document_token,
                                  !.before_document = Content(document),
                                  !.after_document = Content(version)]
     IN  StoreHistory([entry EXCEPT !.cost = EntryCost(entry)])
  /\ document' = version
  /\ current_node' = current
  /\ revision' = revision + 1
  /\ current_document_token' = next_document_token
  /\ next_document_token' = next_document_token + 1
  /\ dirty' = (current_document_token' # saved_document_token)
  /\ can_undo' = TRUE
  /\ can_redo' = FALSE
  /\ published' = changes
  /\ used' = used \cup Ids(version.tree)
  /\ UNCHANGED <<saved_document_token, checkpoint>>

Execute(c) ==
  /\ Executes(document, c)
  /\ Commit(c.kind, InverseOf(document, c), After(document, c),
            SelectionAfter(document, current_node, c),
            ChangesOf(document, current_node, c))
  /\ position_cache' = IF c.kind \in {"replace", "delete"}
                       THEN CacheWithout(Subtree(document.tree, c.node))
                       ELSE position_cache

InsertMove ==
  \E parent \in Ids(document.tree), move \in Moves :
    \E index \in 0 .. Len(Children(document.tree, parent)) :
      Execute([kind |-> "insert", parent |-> parent, move |-> move, index |-> index])

DeleteSubtree ==
  \E node \in Ids(document.tree) : Execute([kind |-> "delete", node |-> node])

ReplaceMove ==
  \E node \in Ids(document.tree), move \in Moves :
    Execute([kind |-> "replace", node |-> node, move |-> move])

ReorderVariation ==
  \E node \in Ids(document.tree) \ {Root} :
    \E index \in 0 .. Len(Children(document.tree, Node(document.tree, node).parent)) - 1 :
      Execute([kind |-> "reorder", node |-> node, index |-> index])

SetAnnotations ==
  \E node \in Ids(document.tree), annotations \in AnnotationLists :
    Execute([kind |-> "annotate", node |-> node, annotations |-> annotations])

SetMetadata ==
  \E metadata \in Metadata : Execute([kind |-> "metadata", metadata |-> metadata])

Compound(commands) ==
  /\ Len(commands) <= MaxCompoundCommands
  /\ LET run == Run(document, current_node, commands)
     IN  /\ run.ok
         /\ Content(run.document) # Content(document)
         /\ Commit("compound",
                   [Entry0 EXCEPT !.before = document, !.after = run.document,
                                  !.forward_changes = run.changes],
                   run.document, run.current_node,
                   [run.changes EXCEPT !.selection_changed = current_node # run.current_node])
  /\ position_cache' = <<>>

-----------------------------------------------------------------------------
(* History *)

(* What undo publishes; redo publishes the same with the roles of inserted  *)
(* and removed exchanged, for commands and compounds alike.                 *)
RevertChanges(entry) ==
  LET changes ==
        CASE entry.kind = "compound" ->
               [entry.forward_changes EXCEPT !.inserted = entry.forward_changes.removed,
                                             !.removed = entry.forward_changes.inserted]
          [] entry.kind \in {"annotate", "replace"} -> [NoChanges EXCEPT !.updated = {entry.root}]
          [] entry.kind = "metadata" -> [NoChanges EXCEPT !.metadata_changed = TRUE]
          [] entry.kind = "reorder" -> [NoChanges EXCEPT !.reordered_parents = {entry.parent}]
          [] entry.kind = "insert" ->
               [NoChanges EXCEPT !.removed = StoredIds(entry),
                                 !.reordered_parents = {entry.parent}]
          [] entry.kind = "delete" ->
               [NoChanges EXCEPT !.inserted = StoredIds(entry),
                                 !.reordered_parents = {entry.parent}]
  IN  [changes EXCEPT !.selection_changed = entry.before_current # entry.after_current]

(* Mutant: redo publishes what undo published. *)
ReapplyChangesUnswapped(entry) == RevertChanges(entry)

ReapplyChanges(entry) ==
  LET back == RevertChanges(entry)
  IN  [back EXCEPT !.inserted = back.removed, !.removed = back.inserted]

(* Mutant: taking a replacement back drops the position of its node only. *)
CacheAfterNodeOnly(entry, version, vanishing) ==
  CASE entry.kind = "compound" -> <<>>
    [] entry.kind = "replace" -> CacheWithout({entry.root})
    [] entry.kind = vanishing -> CacheWithout(StoredIds(entry))
    [] OTHER -> position_cache

(* What undo and redo leave in the cache once the document is version; an   *)
(* entry whose nodes disappear again takes their positions with it.         *)
CacheAfter(entry, version, vanishing) ==
  CASE entry.kind = "compound" -> <<>>
    [] entry.kind = "replace" -> CacheWithout(Subtree(version.tree, entry.root))
    [] entry.kind = vanishing -> CacheWithout(StoredIds(entry))
    [] OTHER -> position_cache

Restore(version, current, token, changes) ==
  /\ revision < MaxRevision
  /\ Valid(version)
  /\ document' = version
  /\ current_node' = current
  /\ revision' = revision + 1
  /\ current_document_token' = token
  /\ dirty' = (token # saved_document_token)
  /\ published' = changes
  /\ UNCHANGED <<saved_document_token, next_document_token, checkpoint, used>>

Undo ==
  /\ undo_history # <<>>
  /\ LET entry == Last(undo_history)
         version == Reverted(document, entry)
     IN  /\ CanRevert(document, entry)
         /\ Restore(version, entry.before_current, entry.before_token, RevertChanges(entry))
         /\ position_cache' = CacheAfter(entry, version, "insert")
         /\ undo_history' = Front(undo_history)
         /\ redo_history' = Append(redo_history, entry)
  /\ can_undo' = (undo_history' # <<>>)
  /\ can_redo' = TRUE

Redo ==
  /\ redo_history # <<>>
  /\ LET entry == Last(redo_history)
         version == Reapplied(document, entry)
     IN  /\ CanReapply(document, entry)
         /\ Restore(version, entry.after_current, entry.after_token, ReapplyChanges(entry))
         /\ position_cache' = CacheAfter(entry, version, "delete")
         /\ undo_history' = Append(undo_history, entry)
         /\ redo_history' = Front(redo_history)
  /\ can_undo' = TRUE
  /\ can_redo' = (redo_history' # <<>>)

Checkout(id) ==
  /\ revision < MaxRevision
  /\ id # current_node
  /\ current_node' = id
  /\ revision' = revision + 1
  /\ UNCHANGED <<document, flags, tokens, undo_history, redo_history,
                 position_cache, published, checkpoint, used>>

MarkSaved(r) ==
  /\ r = revision
  /\ saved_document_token' = current_document_token
  /\ dirty' = FALSE
  /\ checkpoint' = Content(document)
  /\ UNCHANGED <<document, current_node, revision, can_undo, can_redo,
                 current_document_token, next_document_token,
                 undo_history, redo_history, position_cache, published, used>>

ClearHistory ==
  /\ undo_history' = <<>>
  /\ redo_history' = <<>>
  /\ can_undo' = FALSE
  /\ can_redo' = FALSE
  /\ UNCHANGED <<document, current_node, revision, dirty, tokens,
                 position_cache, published, checkpoint, used>>

Next ==
  \/ InsertMove
  \/ DeleteSubtree
  \/ ReplaceMove
  \/ ReorderVariation
  \/ SetAnnotations
  \/ SetMetadata
  \/ \E commands \in Compounds : Compound(commands)
  \/ Undo
  \/ Redo
  \/ \E id \in Ids(document.tree) : Checkout(id)
  \/ \E id \in Ids(document.tree) : PositionAt(id)
  \/ \E r \in 0 .. MaxRevision : MarkSaved(r)
  \/ ClearHistory

Spec == Init /\ [][Next]_vars

-----------------------------------------------------------------------------
(* Properties *)

EntryOK(entry) ==
  /\ entry.kind \in {"insert", "delete", "replace", "reorder", "annotate", "metadata", "compound"}
  /\ {entry.before_token, entry.after_token} \subseteq 0 .. next_document_token - 1
  /\ {entry.before_current, entry.after_current, entry.root, entry.parent} \subseteq used

(* Every variable has its type. *)
TypeOK ==
  /\ WellFormed(document.tree)
  /\ document.metadata \in Metadata
  /\ current_node \in Ids(document.tree)
  /\ revision \in 0 .. MaxRevision
  /\ {dirty, can_undo, can_redo} \subseteq BOOLEAN
  /\ Range(tokens) \subseteq Nat
  /\ \A entry \in Range(undo_history) : EntryOK(entry)
  /\ \A entry \in Range(redo_history) : EntryOK(entry)
  /\ Cardinality(DOMAIN position_cache) <= MaxPositionCacheEntries
  /\ used \subseteq 0 .. MaxNodeId

(* Undo and redo never end in internal_invariant: the inverse data on top   *)
(* of each stack fits the document, and what comes out of it is valid.      *)
HistoryNeverStuck ==
  /\ undo_history # <<>> =>
       LET entry == Last(undo_history)
       IN  CanRevert(document, entry) /\ Valid(Reverted(document, entry))
  /\ redo_history # <<>> =>
       LET entry == Last(redo_history)
       IN  CanReapply(document, entry) /\ Valid(Reapplied(document, entry))

(* A cached position is the position of a node of the document as it is     *)
(* now, however the nodes above it were changed since it was computed.      *)
CacheSound ==
  \A id \in DOMAIN position_cache :
    id \in Ids(document.tree) /\ position_cache[id] = PositionOf(document, id)

(* No command, undo or redo gives two children of a node the same move.     *)
NoDuplicateMoves == DistinctMoves(document.tree)

(* A client that applies the published change set to the ids it shows has   *)
(* the ids of the document, and it learns of every node whose move,         *)
(* annotations or children changed, and of changed metadata.                *)
ChangeSetsComplete ==
  [][document' # document => AnnouncesChanges(document, document', published')]_vars

(* It also learns that the selection moved.                                 *)
SelectionAnnounced ==
  [][document' # document /\ current_node' # current_node
       => published'.selection_changed]_vars

(* A new command never gives a node an id that some node of the session had *)
(* before: only undo and redo bring ids back, with the nodes they belong to. *)
NodeIdsNeverReused ==
  [][next_document_token' # next_document_token
       => (Ids(document'.tree) \ Ids(document.tree)) \cap used = {}]_vars

ContentIds(content) == {node.id : node \in Range(content.nodes)}

(* A new command never gives a node an id that undo can still bring back    *)
(* for another node: the id of a node of an earlier version of the document *)
(* that the undo history leads to.                                          *)
NodeIdsUnambiguous ==
  [][next_document_token' # next_document_token
       => (Ids(document'.tree) \ Ids(document.tree))
            \cap UNION {ContentIds(e.before_document) : e \in Range(undo_history)} = {}]_vars

(* The positions as validate_state sees them: a move of the wrong side is   *)
(* played all the same, and below a move that cannot be played there are    *)
(* none.                                                                    *)
LenientPositions ==
  LET obstructed(at, move) ==
        \/ at.board[move.from] = None
        \/ at.board[move.to] # None /\ at.board[move.to].side = at.board[move.from].side
      at[id \in Ids(document.tree)] ==
        IF id = Root THEN InitialPosition
        ELSE LET node == Node(document.tree, id)
                 above == at[node.parent]
             IN  IF above = NoPosition \/ obstructed(above, node.move)
                 THEN NoPosition ELSE Play(above, node.move)
  IN  at

(* validate_state plays the whole tree on one board.  It gives every node   *)
(* the issues the node has on the line from the root to it, whatever was    *)
(* played and taken back beside that line, and leaves the board as it was.  *)
(* It accepts the documents whose nodes all have a position.                *)
StateValidationSound ==
  LET walk == ValidateState(document)
      at == LenientPositions
      above(id) == at[Node(document.tree, id).parent]
      has(id, code) ==
        LET move == Node(document.tree, id).move
            moving == above(id).board[move.from]
        IN  /\ above(id) # NoPosition
            /\ CASE code = "missing_source_piece" -> moving = None
                 [] code = "wrong_side_to_move" ->
                      moving # None /\ moving.side # above(id).side_to_move
                 [] code = "destination_occupied_by_same_side" ->
                      moving # None /\ at[id] = NoPosition
  IN  /\ Range(walk.issues) =
           {issue \in [code : {"missing_source_piece", "wrong_side_to_move",
                               "destination_occupied_by_same_side"},
                       node : Ids(document.tree) \ {Root}] : has(issue.node, issue.code)}
      /\ IsInjective(walk.issues)
      /\ walk.stack = <<>> /\ walk.board = InitialBoard /\ walk.side_to_move = InitialSide
      /\ walk.issues = <<>> <=>
           \A id \in Ids(document.tree) : Positions(document)[id] # NoPosition

(* A projection lists the nodes within the limits in the order of the tree, *)
(* from its first node on without a gap, each after its parent; it says     *)
(* truncated exactly when a node of the subtree is missing, and it marks    *)
(* the part of the current line that it shows.                              *)
ProjectionFaithful ==
  \A from \in Ids(document.tree), most \in 0 .. MaxProjectedNodes, deep \in 0 .. MaxProjectedDepth :
    LET tree == document.tree
        graph == VariationGraph(tree, current_node,
                                [from |-> from, max_nodes |-> most, max_depth |-> deep])
        shown == [i \in DOMAIN graph.nodes |-> graph.nodes[i].id]
        within == {id \in Subtree(tree, from) :
                     Len(PathTo(tree, id)) - Len(PathTo(tree, from)) <= deep}
    IN  /\ Range(shown) \subseteq within
        /\ \A i, j \in DOMAIN shown : i < j => Precedes(tree, shown[i], shown[j])
        /\ \A id \in within \ Range(shown) :
             /\ Len(shown) = most
             /\ \A i \in DOMAIN shown : Precedes(tree, shown[i], id)
        /\ graph.truncated <=> Range(shown) # Subtree(tree, from)
        /\ \A i \in DOMAIN graph.edges :
             /\ \E k \in 1 .. i : shown[k] = graph.edges[i].parent
             /\ graph.edges[i].child \in Range(Children(tree, graph.edges[i].parent))
        /\ \A i \in DOMAIN shown :
             graph.nodes[i].on_current_path <=> current_node \in Subtree(tree, shown[i])

(* The session implements SessionHistory: what undo and redo work out from  *)
(* the inverse data is exactly the document that was on the other side of   *)
(* the command, storage order included.                                     *)
Recorded(history) ==
  LET fields == {"before_document", "after_document", "before_current", "after_current",
                 "before_token", "after_token", "cost"}
  IN  [i \in DOMAIN history |-> Restrict(history[i], fields)]

History == INSTANCE SessionHistory WITH
  document <- Content(document),
  undo_history <- Recorded(undo_history),
  redo_history <- Recorded(redo_history),
  Documents <- {content \in Contents : Root \in ContentIds(content)},
  InitialDocument <- Content(InitialDocument),
  Nodes <- NodeIds,
  RootNode <- Root,
  NodesOf <- ContentIds,
  Costs <- 1 .. MaxHistoryBytes

RefinesSessionHistory == History!Spec
=============================================================================
