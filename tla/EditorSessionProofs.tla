------------------------- MODULE EditorSessionProofs -------------------------
(***************************************************************************)
(* Proofs about EditorSession, for every document, every board and every   *)
(* limit: undo and redo never get stuck, what they work out from the       *)
(* inverse data is what SessionHistory remembers, what a client is told of *)
(* a change is the whole change, the cache of positions holds what a       *)
(* replay would give, no node id is handed out twice, and the verdict on   *)
(* the tree that validate_state keeps is right in every reachable state.   *)
(***************************************************************************)
EXTENDS EditorSession, TreeWalksProofs, HistoryStacksProofs, FiniteSetTheorems

-----------------------------------------------------------------------------
(* Change sets only depend on the contents of the two documents, and on the *)
(* fields they are read from.                                               *)
SameFields(changes, other) ==
  /\ changes.inserted = other.inserted
  /\ changes.removed = other.removed
  /\ changes.updated = other.updated
  /\ changes.reordered_parents = other.reordered_parents
  /\ changes.metadata_changed = other.metadata_changed

(* Change sets that differ in the selection at most announce the same.      *)
LEMMA SameAnnounced ==
  ASSUME NEW d, NEW e, NEW changes, NEW other, SameFields(changes, other),
         AnnouncesChanges(d, e, changes)
  PROVE  AnnouncesChanges(d, e, other)
BY DEF AnnouncesChanges, SameFields

(* Documents with the same contents are told apart by the same changes.     *)
LEMMA AnnouncedOfContents ==
  ASSUME NEW d \in DocumentRecords, NEW e \in DocumentRecords, NEW changes,
         AnnouncesChanges(d, e, changes),
         NEW other \in DocumentRecords, Content(other) = Content(d),
         NEW next \in DocumentRecords, Content(next) = Content(e)
  PROVE  AnnouncesChanges(other, next, changes)
<1>1. /\ other.tree.nodes = d.tree.nodes /\ other.metadata = d.metadata
      /\ next.tree.nodes = e.tree.nodes /\ next.metadata = e.metadata
  BY SameContent
<1>2. /\ Ids(other.tree) = Ids(d.tree) /\ Ids(next.tree) = Ids(e.tree)
      /\ \A id : /\ Node(other.tree, id) = Node(d.tree, id)
                 /\ Node(next.tree, id) = Node(e.tree, id)
                 /\ Children(other.tree, id) = Children(d.tree, id)
                 /\ Children(next.tree, id) = Children(e.tree, id)
  BY <1>1, SameNodes
<1>3. QED
  BY <1>1, <1>2 DEF AnnouncesChanges

(* The moves of siblings are a matter of the content too.                   *)
LEMMA DistinctOfContents ==
  ASSUME NEW d \in DocumentRecords, NEW other \in DocumentRecords,
         Content(other) = Content(d), DistinctMoves(d.tree)
  PROVE  DistinctMoves(other.tree)
<1>1. other.tree.nodes = d.tree.nodes
  BY SameContent
<1>2. \A id : Node(other.tree, id) = Node(d.tree, id)
  BY <1>1, SameNodes
<1>3. QED
  BY <1>1, <1>2 DEF DistinctMoves

-----------------------------------------------------------------------------
(* What undo of a command publishes is what the command published, read     *)
(* backwards.                                                               *)
LEMMA RevertPublishes ==
  ASSUME NEW d \in DocumentRecords, Valid(d), NEW current \in Ids(d.tree),
         NEW c \in Commands, Executes(d, c),
         NEW entry \in EntryRecords, Carries(entry, InverseOf(d, c), c.kind)
  PROVE  SameFields(Swapped(ChangesOf(d, current, c)), RevertChanges(entry))
<1> DEFINE tree == d.tree
           changes == ChangesOf(d, current, c)
           back == RevertChanges(entry)
<1>1. tree \in Trees /\ WellFormed(tree)
  BY DEF Valid, Structural, DocumentRecords
<1>2. Effective(d, current, c)
  BY CommandEffect
<1>3. CASE c.kind = "metadata"
  <2>1. changes = [NoChanges EXCEPT !.metadata_changed = TRUE]
    BY <1>3 DEF ChangesOf
  <2>2. entry.kind = "metadata"
    BY <1>3 DEF Carries
  <2>3. back = [[NoChanges EXCEPT !.metadata_changed = TRUE] EXCEPT
                  !.selection_changed = entry.before_current # entry.after_current]
    BY <2>2 DEF RevertChanges
  <2>4. QED
    BY <2>1, <2>3 DEF SameFields, Swapped, NoChanges
<1>4. CASE c.kind \in {"annotate", "replace"}
  <2>1. changes = [NoChanges EXCEPT !.updated = {c.node}]
    BY <1>4 DEF ChangesOf
  <2>2. entry.kind \in {"annotate", "replace"} /\ entry.root = c.node
    BY <1>4 DEF Carries, InverseOf, Entry0
  <2>3. back = [[NoChanges EXCEPT !.updated = {entry.root}] EXCEPT
                  !.selection_changed = entry.before_current # entry.after_current]
    BY <2>2 DEF RevertChanges
  <2>4. QED
    BY <2>1, <2>2, <2>3 DEF SameFields, Swapped, NoChanges
<1>5. CASE c.kind = "reorder"
  <2>1. changes = [NoChanges EXCEPT !.reordered_parents = {Node(tree, c.node).parent}]
    BY <1>5 DEF ChangesOf
  <2>2. entry.kind = "reorder" /\ entry.parent = Node(tree, c.node).parent
    BY <1>5 DEF Carries, InverseOf, Entry0
  <2>3. back = [[NoChanges EXCEPT !.reordered_parents = {entry.parent}] EXCEPT
                  !.selection_changed = entry.before_current # entry.after_current]
    BY <2>2 DEF RevertChanges
  <2>4. QED
    BY <2>1, <2>2, <2>3 DEF SameFields, Swapped, NoChanges
<1>6. CASE c.kind = "delete"
  <2>1. /\ changes.removed = Subtree(tree, c.node) /\ changes.inserted = {}
        /\ changes.updated = {} /\ changes.reordered_parents = {Node(tree, c.node).parent}
        /\ changes.metadata_changed = FALSE
    BY <1>6 DEF ChangesOf, NoChanges
  <2>2. /\ entry.kind = "delete" /\ entry.parent = Node(tree, c.node).parent
        /\ entry.nodes = Stored(tree, Subtree(tree, c.node))
    BY <1>6 DEF Carries, InverseOf, Entry0
  <2>3. c.node \in Ids(tree)
    BY <1>6 DEF Executes, Accepts
  <2>4. Subtree(tree, c.node) \subseteq Ids(tree)
    BY <1>1, <2>3, TreeShape, SubtreeFacts
  <2>5. StoredIds(entry) = Subtree(tree, c.node)
    BY <1>1, <2>2, <2>4, StoredNodes DEF StoredIds
  <2>6. back = [[NoChanges EXCEPT !.inserted = StoredIds(entry),
                                  !.reordered_parents = {entry.parent}] EXCEPT
                  !.selection_changed = entry.before_current # entry.after_current]
    BY <2>2 DEF RevertChanges
  <2>7. /\ back.inserted = StoredIds(entry) /\ back.removed = {} /\ back.updated = {}
        /\ back.reordered_parents = {entry.parent} /\ back.metadata_changed = FALSE
    BY <2>6 DEF NoChanges
  <2>8. changes \in ChangeSets
    BY <1>2 DEF Effective
  <2> HIDE DEF changes, back
  <2>9. QED
    BY <2>1, <2>2, <2>5, <2>7, <2>8 DEF SameFields, Swapped, ChangeSets, changes, back
<1>7. CASE c.kind = "insert"
  <2>1. /\ changes.inserted = {tree.next} /\ changes.removed = {}
        /\ changes.updated = {} /\ changes.reordered_parents = {c.parent}
        /\ changes.metadata_changed = FALSE
    BY <1>7 DEF ChangesOf, NoChanges
  <2>2. /\ entry.kind = "insert" /\ entry.parent = c.parent
        /\ entry.nodes = Stored(After(d, c).tree, {tree.next})
    BY <1>7 DEF Carries, InverseOf, Entry0
  <2>3. changes \in ChangeSets /\ After(d, c).tree \in Trees
    BY <1>2 DEF Effective, DocumentRecords
  <2>4. SelectionAfter(d, current, c) = tree.next
    BY <1>7 DEF SelectionAfter
  <2>5. {tree.next} \subseteq Ids(After(d, c).tree)
    BY <1>2, <2>4 DEF Effective
  <2>6. StoredIds(entry) = {tree.next}
    <3> DEFINE t == After(d, c).tree
               ids == {tree.next}
    <3>1. t \in Trees /\ ids \subseteq Ids(t) /\ entry.nodes = Stored(t, ids)
      BY <2>2, <2>3, <2>5
    <3> HIDE DEF t, ids
    <3>2. {s.node.id : s \in Range(Stored(t, ids))} = ids
      BY <3>1, StoredNodes
    <3>3. QED
      BY <3>1, <3>2 DEF StoredIds, ids
  <2>7. back = [[NoChanges EXCEPT !.removed = StoredIds(entry),
                                  !.reordered_parents = {entry.parent}] EXCEPT
                  !.selection_changed = entry.before_current # entry.after_current]
    BY <2>2 DEF RevertChanges
  <2>8. /\ back.removed = StoredIds(entry) /\ back.inserted = {} /\ back.updated = {}
        /\ back.reordered_parents = {entry.parent} /\ back.metadata_changed = FALSE
    BY <2>7 DEF NoChanges
  <2> HIDE DEF changes, back
  <2>9. QED
    BY <2>1, <2>2, <2>3, <2>6, <2>8 DEF SameFields, Swapped, ChangeSets, changes, back
<1>8. c.kind \in {"insert", "delete", "replace", "reorder", "annotate", "metadata"}
  BY DEF Commands
<1>9. QED
  BY <1>3, <1>4, <1>5, <1>6, <1>7, <1>8

(* What undo publishes is a change set.                                     *)
LEMMA RevertTyped ==
  ASSUME NEW entry \in EntryRecords, entry.kind \in Kinds
  PROVE  RevertChanges(entry) \in ChangeSets
<1> DEFINE moved == entry.before_current # entry.after_current
<1>1. NoChanges = [inserted |-> {}, removed |-> {}, updated |-> {}, reordered_parents |-> {},
                   metadata_changed |-> FALSE, selection_changed |-> FALSE]
  BY DEF NoChanges
<1>2. entry.root \in NodeIds /\ entry.parent \in NodeIds
  BY DEF EntryRecords
<1>3. StoredIds(entry) \subseteq NodeIds
  <2>1. entry.nodes \in Seq(StoredOf(NodeRecords))
    BY DEF EntryRecords
  <2>2. \A s \in Range(entry.nodes) : s \in StoredOf(NodeRecords)
    BY <2>1, LenProperties, ElementOfSeq DEF Range
  <2>3. QED
    BY <2>2 DEF StoredIds, StoredOf, NodeRecords
<1> DEFINE told(i, r, u, p) ==
             [inserted |-> i, removed |-> r, updated |-> u, reordered_parents |-> p,
              metadata_changed |-> FALSE, selection_changed |-> moved]
<1>11. \A i, r, u, p \in SUBSET NodeIds : told(i, r, u, p) \in ChangeSets
  <2>1. moved \in BOOLEAN
    OBVIOUS
  <2> HIDE DEF moved
  <2>2. QED
    BY <2>1 DEF ChangeSets
<1>4. CASE entry.kind = "compound"
  <2>1. entry.forward_changes \in ChangeSets
    BY DEF EntryRecords
  <2>2. RevertChanges(entry) =
          [[entry.forward_changes EXCEPT !.inserted = entry.forward_changes.removed,
                                         !.removed = entry.forward_changes.inserted]
             EXCEPT !.selection_changed = moved]
    BY <1>4 DEF RevertChanges
  <2>3. QED
    BY <2>1, <2>2 DEF ChangeSets
<1>5. CASE entry.kind \in {"annotate", "replace"}
  <2>1. RevertChanges(entry) =
          [[NoChanges EXCEPT !.updated = {entry.root}]
             EXCEPT !.selection_changed = moved]
    BY <1>5 DEF RevertChanges
  <2>2. RevertChanges(entry) = told({}, {}, {entry.root}, {})
    BY <2>1, <1>1
  <2> HIDE DEF told
  <2>3. QED
    BY <2>2, <1>2, <1>11
<1>6. CASE entry.kind = "metadata"
  <2>1. RevertChanges(entry) =
          [[NoChanges EXCEPT !.metadata_changed = TRUE] EXCEPT !.selection_changed = moved]
    BY <1>6 DEF RevertChanges
  <2>2. QED
    BY <2>1, <1>1 DEF ChangeSets
<1>7. CASE entry.kind = "reorder"
  <2>1. RevertChanges(entry) =
          [[NoChanges EXCEPT !.reordered_parents = {entry.parent}]
             EXCEPT !.selection_changed = moved]
    BY <1>7 DEF RevertChanges
  <2>2. RevertChanges(entry) = told({}, {}, {}, {entry.parent})
    BY <2>1, <1>1
  <2> HIDE DEF told
  <2>3. QED
    BY <2>2, <1>2, <1>11
<1>8. CASE entry.kind = "insert"
  <2>1. RevertChanges(entry) =
          [[NoChanges EXCEPT !.removed = StoredIds(entry), !.reordered_parents = {entry.parent}]
             EXCEPT !.selection_changed = moved]
    BY <1>8 DEF RevertChanges
  <2>2. RevertChanges(entry) = told({}, StoredIds(entry), {}, {entry.parent})
    BY <2>1, <1>1
  <2> HIDE DEF told
  <2>3. QED
    BY <2>2, <1>2, <1>3, <1>11
<1>9. CASE entry.kind = "delete"
  <2>1. RevertChanges(entry) =
          [[NoChanges EXCEPT !.inserted = StoredIds(entry), !.reordered_parents = {entry.parent}]
             EXCEPT !.selection_changed = moved]
    BY <1>9 DEF RevertChanges
  <2>2. RevertChanges(entry) = told(StoredIds(entry), {}, {}, {entry.parent})
    BY <2>1, <1>1
  <2> HIDE DEF told
  <2>3. QED
    BY <2>2, <1>2, <1>3, <1>11
<1>10. QED
  BY <1>4, <1>5, <1>6, <1>7, <1>8, <1>9 DEF Kinds

(* Redo publishes it with inserted and removed exchanged, in any case.      *)
LEMMA ReapplyPublishes ==
  ASSUME NEW entry \in EntryRecords, entry.kind \in Kinds, NEW changes \in ChangeSets,
         SameFields(Swapped(changes), RevertChanges(entry))
  PROVE  SameFields(changes, ReapplyChanges(entry))
<1> DEFINE back == RevertChanges(entry)
<1>1. back \in ChangeSets
  BY RevertTyped
<1>2. ReapplyChanges(entry) = [back EXCEPT !.inserted = back.removed, !.removed = back.inserted]
  BY DEF ReapplyChanges
<1> HIDE DEF back
<1>3. QED
  BY <1>1, <1>2 DEF SameFields, Swapped, ChangeSets, back

-----------------------------------------------------------------------------
(* History entries and the documents they lie between                       *)

(* If the document came without duplicate moves, this one has none either.  *)
Clean(d) == DistinctMoves(InitialDocument.tree) => DistinctMoves(d.tree)

(* A document the session may show, and one with an unused next id.         *)
Proper(d) == d \in DocumentRecords /\ Valid(d) /\ Clean(d)

FreshNext(d) == Fresh(d.tree.next, Ids(d.tree))

(* The next id is still unused after an undo or redo of the entry.          *)
KeepsFresh(entry, from, to) ==
  \A d \in DocumentRecords : FreshNext(d) =>
    /\ Content(d) = to => FreshNext(Reverted(d, entry))
    /\ Content(d) = from => FreshNext(Reapplied(d, entry))

(* The nodes whose positions undo (when an insertion vanishes) and redo     *)
(* (when a deletion does) drop from the cache; version is what they lead to. *)
Dropped(entry, version, vanishing) ==
  CASE entry.kind = "compound" -> NodeIds
    [] entry.kind = "replace" -> Subtree(version.tree, entry.root)
    [] entry.kind = vanishing -> StoredIds(entry)
    [] OTHER -> {}

(* The entry leads from one document to another and back, tells clients     *)
(* what they have to know on both ways, and drops the positions that are    *)
(* not the same on both sides.                                              *)
Between(entry, before, after) ==
  /\ Proper(before) /\ Proper(after)
  /\ entry.before_document = Content(before)
  /\ entry.after_document = Content(after)
  /\ Undoes(entry, Content(after), Content(before))
  /\ Redoes(entry, Content(before), Content(after))
  /\ KeepsFresh(entry, Content(before), Content(after))
  /\ entry.before_current \in Ids(before.tree)
  /\ entry.after_current \in Ids(after.tree)
  /\ {entry.root, entry.parent} \subseteq Ids(before.tree) \cup Ids(after.tree)
  /\ AnnouncesChanges(after, before, RevertChanges(entry))
  /\ AnnouncesChanges(before, after, ReapplyChanges(entry))
  /\ StaysPut(after, before, Dropped(entry, before, "insert"))
  /\ StaysPut(before, after, Dropped(entry, after, "delete"))

Sound(entry) ==
  /\ entry.kind \in Kinds
  /\ entry.cost \in 1 .. MaxHistoryBytes
  /\ \E before, after \in DocumentRecords : Between(entry, before, after)

SoundEntries == {entry \in EntryRecords : Sound(entry)}

(* The nodes an entry keeps copies of. *)
LEMMA StoredIdsAre ==
  ASSUME NEW tree \in Trees, NEW ids, ids \subseteq Ids(tree),
         NEW entry, entry.nodes = Stored(tree, ids)
  PROVE  StoredIds(entry) = ids
BY StoredNodes DEF StoredIds

(* The entry of a command drops the positions of all nodes whose line the   *)
(* command touched.                                                         *)
LEMMA CommandDropped ==
  ASSUME NEW d \in DocumentRecords, Valid(d), NEW c \in Commands, Executes(d, c),
         NEW entry \in EntryRecords, Carries(entry, InverseOf(d, c), c.kind)
  PROVE  /\ StaysPut(After(d, c), d, Dropped(entry, d, "insert"))
         /\ StaysPut(d, After(d, c), Dropped(entry, After(d, c), "delete"))
<1> DEFINE tree == d.tree
           e == After(d, c)
<1>1. tree \in Trees /\ WellFormed(tree) /\ Root \in Ids(tree)
  BY TreeShape DEF Valid, Structural, DocumentRecords
<1>2. /\ StaysPut(d, e, Ids(tree) \ Untouched(tree, c))
      /\ StaysPut(e, d, Brought(tree, c))
      /\ c.kind = "replace" => Subtree(e.tree, c.node) = Subtree(tree, c.node)
  BY CommandStaysPut
<1>3. e \in DocumentRecords
  BY <1>1, CommandEffect DEF Effective
<1>4. CASE c.kind = "replace"
  <2>1. entry.kind = "replace" /\ entry.root = c.node
    BY <1>4 DEF Carries, InverseOf, Entry0
  <2>2. /\ Dropped(entry, d, "insert") = Subtree(tree, c.node)
        /\ Dropped(entry, e, "delete") = Subtree(tree, c.node)
    BY <1>2, <1>4, <2>1 DEF Dropped
  <2>3. /\ Brought(tree, c) = Subtree(tree, c.node)
        /\ Ids(tree) \ Untouched(tree, c) \subseteq Subtree(tree, c.node)
    BY <1>4 DEF Brought, Untouched
  <2> HIDE DEF e
  <2>4. QED
    BY <1>2, <2>2, <2>3 DEF StaysPut, e
<1>5. CASE c.kind = "delete"
  <2>1. entry.kind = "delete" /\ entry.nodes = Stored(tree, Subtree(tree, c.node))
    BY <1>5 DEF Carries, InverseOf, Entry0
  <2>2. c.node \in Ids(tree)
    BY <1>5 DEF Executes, Accepts
  <2>3. Subtree(tree, c.node) \subseteq Ids(tree)
    BY <1>1, <2>2, TreeShape, SubtreeFacts
  <2>4. StoredIds(entry) = Subtree(tree, c.node)
    BY <1>1, <2>1, <2>3, StoredIdsAre
  <2>5. /\ Dropped(entry, d, "insert") = {}
        /\ Dropped(entry, e, "delete") = Subtree(tree, c.node)
    BY <2>1, <2>4 DEF Dropped
  <2>6. /\ Brought(tree, c) = {}
        /\ Ids(tree) \ Untouched(tree, c) \subseteq Subtree(tree, c.node)
    BY <1>5 DEF Brought, Untouched
  <2> HIDE DEF e
  <2>7. QED
    BY <1>2, <2>5, <2>6 DEF StaysPut, e
<1>6. CASE c.kind = "insert"
  <2> DEFINE t == e.tree
             ids == {tree.next}
  <2>1. entry.kind = "insert" /\ entry.nodes = Stored(t, ids)
    BY <1>6 DEF Carries, InverseOf, Entry0
  <2>2. ids \subseteq Ids(t) /\ t \in Trees
    <3>1. SelectionAfter(d, Root, c) = tree.next
      BY <1>6 DEF SelectionAfter
    <3>2. SelectionAfter(d, Root, c) \in Ids(t)
      BY <1>1, CommandEffect DEF Effective
    <3>3. QED
      BY <1>3, <3>1, <3>2 DEF DocumentRecords
  <2> HIDE DEF t, ids
  <2>3. StoredIds(entry) = ids
    BY <2>1, <2>2, StoredIdsAre
  <2>4. Dropped(entry, d, "insert") = ids /\ Dropped(entry, e, "delete") = {}
    BY <2>1, <2>3 DEF Dropped
  <2>5. Brought(tree, c) = ids /\ Ids(tree) \ Untouched(tree, c) = {}
    BY <1>6 DEF Brought, Untouched, ids
  <2> HIDE DEF e
  <2>6. QED
    BY <1>2, <2>4, <2>5 DEF StaysPut, e
<1>7. CASE c.kind \in {"reorder", "annotate", "metadata"}
  <2>1. entry.kind = c.kind
    BY DEF Carries
  <2>2. Dropped(entry, d, "insert") = {} /\ Dropped(entry, e, "delete") = {}
    BY <1>7, <2>1 DEF Dropped
  <2>3. Brought(tree, c) = {} /\ Ids(tree) \ Untouched(tree, c) = {}
    BY <1>7 DEF Brought, Untouched
  <2> HIDE DEF e
  <2>4. QED
    BY <1>2, <2>2, <2>3 DEF StaysPut, e
<1>8. c.kind \in {"insert", "delete", "replace", "reorder", "annotate", "metadata"}
  BY DEF Commands
<1>9. QED
  BY <1>4, <1>5, <1>6, <1>7, <1>8

(* The entry of a command lies between what it found and what it left.      *)
LEMMA CommandBetween ==
  ASSUME NEW d, Proper(d), NEW current \in Ids(d.tree),
         NEW c \in Commands, Executes(d, c),
         NEW entry \in EntryRecords, Carries(entry, InverseOf(d, c), c.kind),
         entry.before_document = Content(d), entry.after_document = Content(After(d, c)),
         entry.before_current = current,
         entry.after_current = SelectionAfter(d, current, c)
  PROVE  Between(entry, d, After(d, c))
<1> DEFINE e == After(d, c)
           changes == ChangesOf(d, current, c)
<1>1. d \in DocumentRecords /\ Valid(d) /\ Clean(d)
  BY DEF Proper
<1>2. Effective(d, current, c) /\ Inverted(d, c, entry)
  BY <1>1, CommandEffect, CommandInverted
<1>3. RaisesNext(entry, Content(d), Content(e))
  BY <1>1, CommandRaisesNext
<1>4. /\ e \in DocumentRecords /\ changes \in ChangeSets
      /\ changes.inserted \subseteq {d.tree.next}
      /\ changes.inserted # {} => d.tree.next # MaxNodeId /\ d.tree.next \notin Ids(d.tree)
      /\ changes.removed \subseteq Ids(d.tree)
      /\ AnnouncesChanges(d, e, changes)
      /\ SelectionAfter(d, current, c) \in Ids(e.tree)
      /\ DistinctMoves(d.tree) => DistinctMoves(e.tree)
  BY <1>2 DEF Effective
<1>5. Valid(e)
  BY DEF Executes
<1>6. Proper(e)
  BY <1>1, <1>4, <1>5 DEF Proper, Clean
<1>7. /\ Undoes(entry, Content(e), Content(d))
      /\ Redoes(entry, Content(d), Content(e))
      /\ {entry.root, entry.parent} \subseteq Ids(d.tree) \cup Ids(e.tree)
  BY <1>2 DEF Inverted
<1> HIDE DEF changes
<1>8. AnnouncesChanges(e, d, RevertChanges(entry))
  <2>1. Balanced(Ids(d.tree), changes)
    BY <1>4 DEF Balanced
  <2> HIDE DEF e
  <2>2. AnnouncesChanges(e, d, Swapped(changes))
    BY <1>4, <2>1, AnnouncedBack
  <2>3. SameFields(Swapped(changes), RevertChanges(entry))
    BY <1>1, RevertPublishes DEF changes
  <2>4. QED
    BY <2>2, <2>3, SameAnnounced
<1>9. AnnouncesChanges(d, e, ReapplyChanges(entry))
  <2>1. SameFields(Swapped(changes), RevertChanges(entry))
    BY <1>1, RevertPublishes DEF changes
  <2>2. entry.kind \in Kinds
    BY DEF Carries, Commands, Kinds
  <2>3. SameFields(changes, ReapplyChanges(entry))
    BY <1>4, <2>1, <2>2, ReapplyPublishes
  <2> HIDE DEF e
  <2>4. QED
    BY <1>4, <2>3, SameAnnounced
<1> HIDE DEF e
<1>10. KeepsFresh(entry, Content(d), Content(e))
  <2>1. SUFFICES ASSUME NEW x \in DocumentRecords, FreshNext(x)
                 PROVE  /\ Content(x) = Content(e) => FreshNext(Reverted(x, entry))
                        /\ Content(x) = Content(d) => FreshNext(Reapplied(x, entry))
    BY DEF KeepsFresh
  <2> DEFINE ids == Ids(x.tree)
  <2>2. ids \in SUBSET NodeIds /\ Fresh(x.tree.next, ids)
    BY <2>1, IdsTyped DEF FreshNext, DocumentRecords, Trees
  <2> HIDE DEF ids
  <2>3. /\ Content(x) = Content(e) =>
             Fresh(Reverted(x, entry).tree.next, ids \cup Ids(Reverted(x, entry).tree))
        /\ Content(x) = Content(d) =>
             Fresh(Reapplied(x, entry).tree.next, ids \cup Ids(Reapplied(x, entry).tree))
    BY <1>3, <2>2 DEF RaisesNext, ids
  <2>4. QED
    BY <2>3, FreshSubset DEF FreshNext
<1>11. /\ StaysPut(e, d, Dropped(entry, d, "insert"))
       /\ StaysPut(d, e, Dropped(entry, e, "delete"))
  BY <1>1, CommandDropped DEF e
<1>12. QED
  BY <1>1, <1>4, <1>6, <1>7, <1>8, <1>9, <1>10, <1>11 DEF Between, Proper, e

(* The next id is unused after a command too.                               *)
LEMMA CommandFresh ==
  ASSUME NEW d, Proper(d), FreshNext(d), NEW current \in Ids(d.tree),
         NEW c \in Commands, Executes(d, c)
  PROVE  FreshNext(After(d, c))
<1> DEFINE ids == Ids(d.tree)
<1>1. d \in DocumentRecords /\ Valid(d)
  BY DEF Proper
<1>2. ids \in SUBSET NodeIds /\ Fresh(d.tree.next, ids)
  BY <1>1, IdsTyped DEF FreshNext, DocumentRecords, Trees
<1>3. Effective(d, current, c)
  BY <1>1, CommandEffect
<1>4. Fresh(After(d, c).tree.next, ids \cup Ids(After(d, c).tree))
  BY <1>2, <1>3 DEF Effective
<1>5. QED
  BY <1>4, FreshSubset DEF FreshNext

(* The entry of a compound lies between what it found and what it left.     *)
LEMMA CompoundBetween ==
  ASSUME NEW d, Proper(d), FreshNext(d), NEW current \in Ids(d.tree),
         NEW commands \in Seq(Commands), NEW run, run = Run(d, current, commands),
         NEW entry \in EntryRecords, entry.kind = "compound",
         entry.root = Root, entry.parent = Root,
         entry.before = d, entry.after = run.document,
         entry.forward_changes = run.changes,
         entry.before_document = Content(d), entry.after_document = Content(run.document),
         entry.before_current = current, entry.after_current = run.current_node
  PROVE  Between(entry, d, run.document) /\ FreshNext(run.document)
<1> DEFINE e == run.document
           changes == run.changes
           ids == Ids(d.tree)
<1>1. d \in DocumentRecords /\ Valid(d) /\ Clean(d)
  BY DEF Proper
<1>2. ids \in SUBSET NodeIds /\ Fresh(d.tree.next, ids)
  BY <1>1, IdsTyped DEF FreshNext, DocumentRecords, Trees
<1>3. WorkingOn(d, ids, run)
  BY <1>1, <1>2, RunWorks
<1>4. /\ e \in DocumentRecords /\ Valid(e) /\ run.current_node \in Ids(e.tree)
      /\ changes \in ChangeSets /\ AnnouncesChanges(d, e, changes)
      /\ Balanced(Ids(d.tree), changes)
      /\ DistinctMoves(d.tree) => DistinctMoves(e.tree)
      /\ Fresh(e.tree.next, ids \cup changes.inserted \cup Ids(e.tree))
  BY <1>3 DEF WorkingOn
<1>5. Proper(e)
  BY <1>1, <1>4 DEF Proper, Clean
<1>6. FreshNext(e)
  BY <1>4, FreshSubset DEF FreshNext
<1>7. \A x : Reverted(x, entry) = d /\ Reapplied(x, entry) = e
  BY DEF Reverted, Reapplied, PutBack
<1>8. \A x : /\ CanRevert(x, entry) <=> Root \in Ids(x.tree)
             /\ CanReapply(x, entry) <=> Root \in Ids(x.tree)
  BY DEF CanRevert, CanReapply
<1> HIDE DEF e, changes, ids
<1>9. \A x \in DocumentRecords : Content(x) \in {Content(d), Content(e)} => Root \in Ids(x.tree)
  <2>1. Root \in Ids(d.tree) /\ Root \in Ids(e.tree)
    BY <1>1, <1>4, TreeShape DEF Valid, Structural, DocumentRecords
  <2>2. QED
    BY <2>1, <1>1, <1>4, SameContent
<1>10. Undoes(entry, Content(e), Content(d)) /\ Redoes(entry, Content(d), Content(e))
  BY <1>1, <1>4, <1>7, <1>8, <1>9 DEF Undoes, Redoes
<1>11. KeepsFresh(entry, Content(d), Content(e))
  BY <1>6, <1>7 DEF KeepsFresh
<1>12. SameFields(Swapped(changes), RevertChanges(entry))
  <2>1. RevertChanges(entry) =
          [[changes EXCEPT !.inserted = changes.removed, !.removed = changes.inserted]
             EXCEPT !.selection_changed = entry.before_current # entry.after_current]
    BY DEF RevertChanges, changes
  <2>2. QED
    BY <2>1, <1>4 DEF SameFields, Swapped, ChangeSets
<1>13. AnnouncesChanges(e, d, RevertChanges(entry))
  <2>1. AnnouncesChanges(e, d, Swapped(changes))
    BY <1>4, AnnouncedBack
  <2>2. QED
    BY <2>1, <1>12, SameAnnounced
<1>14. AnnouncesChanges(d, e, ReapplyChanges(entry))
  <2>1. entry.kind \in Kinds
    BY DEF Kinds
  <2>2. SameFields(changes, ReapplyChanges(entry))
    BY <1>4, <1>12, <2>1, ReapplyPublishes
  <2>3. QED
    BY <1>4, <2>2, SameAnnounced
<1>15. {entry.root, entry.parent} \subseteq Ids(d.tree) \cup Ids(e.tree)
  BY <1>1, <1>9
<1>16. /\ StaysPut(e, d, Dropped(entry, d, "insert"))
       /\ StaysPut(d, e, Dropped(entry, e, "delete"))
  <2>1. Ids(d.tree) \subseteq NodeIds /\ Ids(e.tree) \subseteq NodeIds
    BY <1>1, <1>4, IdsTyped DEF DocumentRecords
  <2>2. Dropped(entry, d, "insert") = NodeIds /\ Dropped(entry, e, "delete") = NodeIds
    BY DEF Dropped
  <2>3. QED
    BY <2>1, <2>2 DEF StaysPut
<1>17. QED
  BY <1>4, <1>5, <1>6, <1>10, <1>11, <1>13, <1>14, <1>15, <1>16 DEF Between, e

(* Undo of such an entry, from the document it ended with, leads back to    *)
(* the one it began with, and redo forward again.                           *)
Leads(version, content, current, d, changes) ==
  /\ Proper(version) /\ FreshNext(version)
  /\ Content(version) = content
  /\ current \in Ids(version.tree)
  /\ AnnouncesChanges(d, version, changes)

(* Undo of a sound entry on the document after it leads to the document     *)
(* before it.                                                               *)
LEMMA EntryUndone ==
  ASSUME NEW entry \in SoundEntries, NEW d \in DocumentRecords, FreshNext(d),
         Content(d) = entry.after_document
  PROVE  /\ CanRevert(d, entry)
         /\ Leads(Reverted(d, entry), entry.before_document, entry.before_current, d,
                  RevertChanges(entry))
<1>1. PICK before, after \in DocumentRecords : Between(entry, before, after)
  BY DEF SoundEntries, Sound
<1>2. /\ Proper(before) /\ Proper(after)
      /\ entry.before_document = Content(before) /\ entry.after_document = Content(after)
      /\ Undoes(entry, Content(after), Content(before))
      /\ KeepsFresh(entry, Content(before), Content(after))
      /\ entry.before_current \in Ids(before.tree)
      /\ AnnouncesChanges(after, before, RevertChanges(entry))
  BY <1>1 DEF Between
<1> DEFINE v == Reverted(d, entry)
<1>3. /\ CanRevert(d, entry) /\ v \in DocumentRecords /\ Content(v) = Content(before)
      /\ FreshNext(v)
  BY <1>2 DEF Undoes, KeepsFresh
<1> HIDE DEF v
<1>4. /\ Valid(v) /\ Ids(v.tree) = Ids(before.tree) /\ Valid(before) /\ Clean(before)
  BY <1>2, <1>3, SameContent DEF Proper
<1>5. Clean(v)
  BY <1>3, <1>4, DistinctOfContents DEF Clean
<1>6. AnnouncesChanges(d, v, RevertChanges(entry))
  BY <1>2, <1>3, AnnouncedOfContents
<1>7. QED
  BY <1>2, <1>3, <1>4, <1>5, <1>6 DEF Leads, Proper, v

(* Redo of a sound entry on the document before it leads to the document    *)
(* after it.                                                                *)
LEMMA EntryRedone ==
  ASSUME NEW entry \in SoundEntries, NEW d \in DocumentRecords, FreshNext(d),
         Content(d) = entry.before_document
  PROVE  /\ CanReapply(d, entry)
         /\ Leads(Reapplied(d, entry), entry.after_document, entry.after_current, d,
                  ReapplyChanges(entry))
<1>1. PICK before, after \in DocumentRecords : Between(entry, before, after)
  BY DEF SoundEntries, Sound
<1>2. /\ Proper(before) /\ Proper(after)
      /\ entry.before_document = Content(before) /\ entry.after_document = Content(after)
      /\ Redoes(entry, Content(before), Content(after))
      /\ KeepsFresh(entry, Content(before), Content(after))
      /\ entry.after_current \in Ids(after.tree)
      /\ AnnouncesChanges(before, after, ReapplyChanges(entry))
  BY <1>1 DEF Between
<1> DEFINE v == Reapplied(d, entry)
<1>3. /\ CanReapply(d, entry) /\ v \in DocumentRecords /\ Content(v) = Content(after)
      /\ FreshNext(v)
  BY <1>2 DEF Redoes, KeepsFresh
<1> HIDE DEF v
<1>4. /\ Valid(v) /\ Ids(v.tree) = Ids(after.tree) /\ Valid(after) /\ Clean(after)
  BY <1>2, <1>3, SameContent DEF Proper
<1>5. Clean(v)
  BY <1>3, <1>4, DistinctOfContents DEF Clean
<1>6. AnnouncesChanges(d, v, ReapplyChanges(entry))
  BY <1>2, <1>3, AnnouncedOfContents
<1>7. QED
  BY <1>2, <1>3, <1>4, <1>5, <1>6 DEF Leads, Proper, v

(* Positions are a matter of the content.                                   *)
LEMMA StaysPutOfContents ==
  ASSUME NEW d \in DocumentRecords, NEW e \in DocumentRecords, NEW gone,
         StaysPut(d, e, gone),
         NEW other \in DocumentRecords, Content(other) = Content(d),
         NEW next \in DocumentRecords, Content(next) = Content(e)
  PROVE  StaysPut(other, next, gone)
<1>1. /\ Ids(other.tree) = Ids(d.tree) /\ Ids(next.tree) = Ids(e.tree)
      /\ Positions(other) = Positions(d) /\ Positions(next) = Positions(e)
  BY SameContent
<1>2. \A id : /\ PositionOf(other, id) = PositionOf(d, id)
              /\ PositionOf(next, id) = PositionOf(e, id)
  BY <1>1 DEF PositionOf
<1>3. QED
  BY <1>1, <1>2 DEF StaysPut

(* So are the positions an entry drops.                                     *)
LEMMA DroppedOfContents ==
  ASSUME NEW entry, NEW d \in DocumentRecords, NEW other \in DocumentRecords,
         Content(other) = Content(d), NEW vanishing
  PROVE  Dropped(entry, other, vanishing) = Dropped(entry, d, vanishing)
<1>1. other.tree.nodes = d.tree.nodes
  BY SameContent
<1>2. Subtree(other.tree, entry.root) = Subtree(d.tree, entry.root)
  BY <1>1, SameNodes
<1>3. QED
  BY <1>2 DEF Dropped

(* What undo and redo of a sound entry leave in the cache has not moved.    *)
LEMMA EntryStaysPut ==
  ASSUME NEW entry \in SoundEntries, NEW d \in DocumentRecords
  PROVE  /\ Content(d) = entry.after_document =>
              StaysPut(d, Reverted(d, entry), Dropped(entry, Reverted(d, entry), "insert"))
         /\ Content(d) = entry.before_document =>
              StaysPut(d, Reapplied(d, entry), Dropped(entry, Reapplied(d, entry), "delete"))
<1>1. PICK before, after \in DocumentRecords : Between(entry, before, after)
  BY DEF SoundEntries, Sound
<1>2. /\ entry.before_document = Content(before) /\ entry.after_document = Content(after)
      /\ Undoes(entry, Content(after), Content(before))
      /\ Redoes(entry, Content(before), Content(after))
      /\ StaysPut(after, before, Dropped(entry, before, "insert"))
      /\ StaysPut(before, after, Dropped(entry, after, "delete"))
  BY <1>1 DEF Between
<1>3. ASSUME Content(d) = entry.after_document
      PROVE  StaysPut(d, Reverted(d, entry), Dropped(entry, Reverted(d, entry), "insert"))
  <2>1. Reverted(d, entry) \in DocumentRecords /\ Content(Reverted(d, entry)) = Content(before)
    BY <1>2, <1>3 DEF Undoes
  <2>2. QED
    BY <1>2, <1>3, <2>1, StaysPutOfContents, DroppedOfContents
<1>4. ASSUME Content(d) = entry.before_document
      PROVE  StaysPut(d, Reapplied(d, entry), Dropped(entry, Reapplied(d, entry), "delete"))
  <2>1. Reapplied(d, entry) \in DocumentRecords /\ Content(Reapplied(d, entry)) = Content(after)
    BY <1>2, <1>4 DEF Redoes
  <2>2. QED
    BY <1>2, <1>4, <2>1, StaysPutOfContents, DroppedOfContents
<1>5. QED
  BY <1>3, <1>4

(* An entry knows its two documents, and its nodes are nodes of one of them. *)
LEMMA EntryContents ==
  ASSUME NEW entry \in SoundEntries
  PROVE  /\ entry.before_document \in Contents /\ entry.after_document \in Contents
         /\ Root \in ContentIds(entry.before_document)
         /\ Root \in ContentIds(entry.after_document)
         /\ entry.before_current \in ContentIds(entry.before_document)
         /\ entry.after_current \in ContentIds(entry.after_document)
         /\ {entry.root, entry.parent}
              \subseteq ContentIds(entry.before_document) \cup ContentIds(entry.after_document)
<1>1. PICK before, after \in DocumentRecords : Between(entry, before, after)
  BY DEF SoundEntries, Sound
<1>2. \A d \in DocumentRecords : ContentIds(Content(d)) = Ids(d.tree)
  BY DEF ContentIds, Content, Ids
<1>3. \A d \in DocumentRecords : Valid(d) => Root \in Ids(d.tree)
  BY TreeShape DEF Valid, Structural, DocumentRecords
<1>4. \A d \in DocumentRecords : Content(d) \in Contents
  BY ContentTyped
<1>5. QED
  BY <1>1, <1>2, <1>3, <1>4 DEF Between, Proper

-----------------------------------------------------------------------------
(* The entry that a command leaves *)

Uncosted(kind, inverse, version, current) ==
  [inverse EXCEPT !.kind = kind,
                  !.before_current = current_node,
                  !.after_current = current,
                  !.before_token = current_document_token,
                  !.after_token = next_document_token,
                  !.before_document = Content(document),
                  !.after_document = Content(version)]

Costed(entry) == [entry EXCEPT !.cost = EntryCost(entry)]

(* It holds the inverse data, both documents, selections and tokens.        *)
Records(entry, kind, inverse, version, current) ==
  /\ entry \in EntryRecords
  /\ Carries(entry, inverse, kind)
  /\ entry.forward_changes = inverse.forward_changes
  /\ entry.before_current = current_node /\ entry.after_current = current
  /\ entry.before_token = current_document_token /\ entry.after_token = next_document_token
  /\ entry.before_document = Content(document) /\ entry.after_document = Content(version)
  /\ entry.cost >= 1

Counters ==
  /\ revision \in 0 .. MaxRevision
  /\ dirty \in BOOLEAN /\ can_undo \in BOOLEAN /\ can_redo \in BOOLEAN
  /\ current_document_token \in Nat /\ saved_document_token \in Nat
  /\ next_document_token \in Nat
  /\ current_document_token < next_document_token
  /\ saved_document_token < next_document_token

Showing ==
  Proper(document) /\ FreshNext(document) /\ current_node \in Ids(document.tree)

(* The fields that a command leaves empty have their types. *)
LEMMA EmptyEntry == Entry0 \in EntryRecords
<1>1. <<>> \in Seq(StoredOf(NodeRecords)) /\ NoChanges \in ChangeSets
  BY DEF NoChanges, ChangeSets
<1>2. Root \in NodeIds /\ None \in Values /\ 0 \in Nat
  BY NodeIdAssumption DEF Root, NodeIds, Values
<1>3. QED
  BY <1>1, <1>2 DEF Entry0, EntryRecords

(* What Commit stores is the inverse data with the documents, selections    *)
(* and tokens of both sides.                                                *)
LEMMA EntryRecorded ==
  ASSUME Counters, Showing,
         NEW kind \in Kinds, NEW inverse \in EntryRecords,
         kind = "compound" => inverse.before \in DocumentRecords /\ inverse.after \in DocumentRecords,
         NEW version, Proper(version), NEW current \in Ids(version.tree)
  PROVE  Records(Costed(Uncosted(kind, inverse, version, current)),
                 kind, inverse, version, current)
<1> DEFINE e == Uncosted(kind, inverse, version, current)
<1>1. /\ document \in DocumentRecords /\ version \in DocumentRecords
      /\ current_node \in NodeIds /\ current \in NodeIds
  BY IdsTyped DEF Showing, Proper, DocumentRecords, Trees
<1>2. /\ Content(document) \in Contents /\ Content(version) \in Contents
      /\ current_document_token \in Nat /\ next_document_token \in Nat
  BY <1>1, ContentTyped DEF Counters
<1>3. e \in EntryRecords
  BY <1>1, <1>2 DEF EntryRecords, Uncosted
<1>4. /\ e.kind = kind /\ e.nodes = inverse.nodes /\ e.root = inverse.root
      /\ e.parent = inverse.parent /\ e.sibling_index = inverse.sibling_index
      /\ e.before = inverse.before /\ e.after = inverse.after
      /\ e.forward_changes = inverse.forward_changes
      /\ e.before_current = current_node /\ e.after_current = current
      /\ e.before_token = current_document_token /\ e.after_token = next_document_token
      /\ e.before_document = Content(document) /\ e.after_document = Content(version)
  BY DEF EntryRecords, Uncosted
<1> HIDE DEF e
<1>5. EntryCost(e) \in Nat /\ EntryCost(e) >= 1
  <2>1. Len(e.nodes) \in Nat
    BY <1>3, LenProperties DEF EntryRecords
  <2>2. ASSUME e.kind = "compound"
        PROVE  Len(e.before.tree.nodes) \in Nat /\ Len(e.after.tree.nodes) \in Nat
    <3>1. e.before \in DocumentRecords /\ e.after \in DocumentRecords
      BY <1>4, <2>2
    <3>2. e.before.tree.nodes \in Seq(NodeRecords) /\ e.after.tree.nodes \in Seq(NodeRecords)
      BY <3>1 DEF DocumentRecords, Trees
    <3>3. QED
      BY <3>2, LenProperties
  <2>3. CASE e.kind = "compound"
    <3>1. EntryCost(e) = 1 + Len(e.nodes) + (Len(e.before.tree.nodes) + Len(e.after.tree.nodes))
      BY <2>3 DEF EntryCost
    <3> DEFINE b == Len(e.before.tree.nodes)
               a == Len(e.after.tree.nodes)
               n == Len(e.nodes)
    <3>2. b \in Nat /\ a \in Nat /\ n \in Nat
      BY <2>1, <2>2, <2>3
    <3>3. EntryCost(e) = 1 + n + (b + a)
      BY <3>1
    <3> HIDE DEF a, b, n
    <3>4. 1 + n + (b + a) \in Nat /\ 1 + n + (b + a) >= 1
      BY <3>2
    <3>5. QED
      BY <3>3, <3>4
  <2>4. CASE e.kind # "compound"
    BY <2>1, <2>4 DEF EntryCost
  <2>5. QED
    BY <2>3, <2>4
<1>6. Costed(e) \in EntryRecords
  BY <1>3, <1>5 DEF EntryRecords, Costed
<1>7. /\ Costed(e).cost = EntryCost(e)
      /\ Costed(e).kind = e.kind /\ Costed(e).nodes = e.nodes /\ Costed(e).root = e.root
      /\ Costed(e).parent = e.parent /\ Costed(e).sibling_index = e.sibling_index
      /\ Costed(e).before = e.before /\ Costed(e).after = e.after
      /\ Costed(e).forward_changes = e.forward_changes
      /\ Costed(e).before_current = e.before_current
      /\ Costed(e).after_current = e.after_current
      /\ Costed(e).before_token = e.before_token /\ Costed(e).after_token = e.after_token
      /\ Costed(e).before_document = e.before_document
      /\ Costed(e).after_document = e.after_document
  BY <1>3 DEF EntryRecords, Costed
<1>8. QED
  BY <1>4, <1>5, <1>6, <1>7 DEF Records, Carries, e

-----------------------------------------------------------------------------
(* Next ids and the documents the history leads to                          *)

(* Undo and redo of the entry leave a next id above the ids of the          *)
(* documents they came from and went to, and above those of the set.  A     *)
(* compound brings back the next id of a document it keeps; the others only *)
(* raise the one they find.                                                 *)
Steady(entry, ids) ==
  IF entry.kind = "compound"
  THEN /\ Fresh(entry.before.tree.next, ids \cup ContentIds(entry.before_document))
       /\ Fresh(entry.after.tree.next,
                ids \cup ContentIds(entry.before_document)
                    \cup ContentIds(entry.after_document))
  ELSE RaisesNext(entry, entry.before_document, entry.after_document)

(* A next id above some ids: the new version has one above these and its    *)
(* own, its new nodes have none of these, and undo and redo of its entry    *)
(* keep it so.                                                              *)
GrowsFresh(entry, d, e) ==
  \A ids \in SUBSET NodeIds : Ids(d.tree) \subseteq ids /\ Fresh(d.tree.next, ids) =>
    /\ Fresh(e.tree.next, ids \cup Ids(e.tree))
    /\ (Ids(e.tree) \ Ids(d.tree)) \cap ids = {}
    /\ Steady(entry, ids)

(* What a session shows is known by its content.                            *)
LEMMA ContentIdsAre ==
  ASSUME NEW d
  PROVE  ContentIds(Content(d)) = Ids(d.tree)
BY DEF ContentIds, Content, Ids

(* An entry that is steady for some ids is steady for fewer.                *)
LEMMA SteadySubset ==
  ASSUME NEW entry, NEW ids, NEW fewer, fewer \subseteq ids, Steady(entry, ids)
  PROVE  Steady(entry, fewer)
<1> DEFINE b == ContentIds(entry.before_document)
           a == ContentIds(entry.after_document)
<1>1. fewer \cup b \subseteq ids \cup b /\ fewer \cup b \cup a \subseteq ids \cup b \cup a
  OBVIOUS
<1> HIDE DEF a, b
<1>2. \A next : /\ Fresh(next, ids \cup b) => Fresh(next, fewer \cup b)
                /\ Fresh(next, ids \cup b \cup a) => Fresh(next, fewer \cup b \cup a)
  BY <1>1, FreshSubset
<1>3. QED
  BY <1>2 DEF Steady, a, b

(* A command allocates from the next id, if it allocates at all.            *)
LEMMA CommandGrows ==
  ASSUME NEW d \in DocumentRecords, Valid(d), NEW c \in Commands, Executes(d, c),
         NEW entry, Carries(entry, InverseOf(d, c), c.kind),
         entry.before_document = Content(d), entry.after_document = Content(After(d, c))
  PROVE  GrowsFresh(entry, d, After(d, c))
<1> DEFINE e == After(d, c)
           changes == ChangesOf(d, Root, c)
<1>1. Root \in Ids(d.tree)
  BY TreeShape DEF Valid, Structural, DocumentRecords
<1>2. Effective(d, Root, c) /\ RaisesNext(entry, Content(d), Content(e))
  BY <1>1, CommandEffect, CommandRaisesNext
<1>3. /\ changes.inserted \subseteq {d.tree.next}
      /\ changes.inserted # {} => d.tree.next # MaxNodeId
      /\ AnnouncesChanges(d, e, changes)
      /\ \A ids \in SUBSET NodeIds : Ids(d.tree) \subseteq ids /\ Fresh(d.tree.next, ids) =>
           Fresh(e.tree.next, ids \cup Ids(e.tree))
  BY <1>2 DEF Effective
<1> HIDE DEF changes
<1>4. Ids(e.tree) \ Ids(d.tree) \subseteq changes.inserted
  BY <1>3 DEF AnnouncesChanges
<1>5. d.tree.next \in Nat
  BY DEF DocumentRecords, Trees, NodeIds
<1>6. ASSUME NEW ids \in SUBSET NodeIds, Fresh(d.tree.next, ids)
      PROVE  (Ids(e.tree) \ Ids(d.tree)) \cap ids = {}
  <2>1. d.tree.next # MaxNodeId => d.tree.next \notin ids
    BY <1>5, <1>6 DEF Fresh
  <2>2. QED
    BY <1>3, <1>4, <2>1
<1>7. \A ids : Steady(entry, ids)
  BY <1>2 DEF Steady, Carries, Commands
<1>8. QED
  BY <1>3, <1>6, <1>7 DEF GrowsFresh, e

(* A compound allocates from the next id too, and keeps both documents.     *)
LEMMA CompoundGrows ==
  ASSUME NEW d \in DocumentRecords, Valid(d), NEW current \in Ids(d.tree),
         NEW commands \in Seq(Commands), NEW run, run = Run(d, current, commands),
         NEW entry, entry.kind = "compound",
         entry.before = d, entry.after = run.document,
         entry.before_document = Content(d), entry.after_document = Content(run.document)
  PROVE  GrowsFresh(entry, d, run.document)
<1> DEFINE e == run.document
           changes == run.changes
<1>1. SUFFICES ASSUME NEW ids \in SUBSET NodeIds, Ids(d.tree) \subseteq ids,
                      Fresh(d.tree.next, ids)
               PROVE  /\ Fresh(e.tree.next, ids \cup Ids(e.tree))
                      /\ (Ids(e.tree) \ Ids(d.tree)) \cap ids = {}
                      /\ Steady(entry, ids)
  BY DEF GrowsFresh
<1>2. WorkingOn(d, ids, run)
  BY <1>1, RunWorks
<1>3. /\ AnnouncesChanges(d, e, changes)
      /\ changes.inserted \cap ids = {}
      /\ Fresh(e.tree.next, ids \cup changes.inserted \cup Ids(e.tree))
  BY <1>2 DEF WorkingOn
<1>4. /\ ContentIds(entry.before_document) = Ids(d.tree)
      /\ ContentIds(entry.after_document) = Ids(e.tree)
  BY ContentIdsAre
<1> HIDE DEF e, changes
<1>5. Ids(e.tree) \subseteq Ids(d.tree) \cup changes.inserted
  BY <1>3 DEF AnnouncesChanges
<1>6. Fresh(e.tree.next, ids \cup Ids(e.tree))
  BY <1>3, FreshSubset
<1>7. ids \cup Ids(d.tree) = ids /\ ids \cup Ids(d.tree) \cup Ids(e.tree) = ids \cup Ids(e.tree)
  BY <1>1
<1>8. Steady(entry, ids)
  BY <1>1, <1>4, <1>6, <1>7 DEF Steady, e
<1>9. QED
  BY <1>3, <1>5, <1>6, <1>8

(* Undo of a steady entry: the next id stays above the ids of the set.      *)
LEMMA SteadyUndone ==
  ASSUME NEW entry \in SoundEntries, NEW ids \in SUBSET NodeIds, Steady(entry, ids),
         NEW d \in DocumentRecords, Content(d) = entry.after_document,
         Fresh(d.tree.next, ids \cup ContentIds(entry.before_document) \cup Ids(d.tree))
  PROVE  Fresh(Reverted(d, entry).tree.next, ids \cup Ids(Reverted(d, entry).tree))
<1> DEFINE v == Reverted(d, entry)
<1>1. PICK before, after \in DocumentRecords : Between(entry, before, after)
  BY DEF SoundEntries, Sound
<1>2. v \in DocumentRecords /\ Content(v) = entry.before_document
  BY <1>1 DEF Between, Undoes
<1>3. /\ Ids(v.tree) = ContentIds(entry.before_document)
      /\ Ids(d.tree) \subseteq NodeIds /\ Ids(v.tree) \subseteq NodeIds
  BY <1>2, ContentIdsAre, IdsTyped DEF DocumentRecords
<1>4. CASE entry.kind = "compound"
  <2>1. v = entry.before
    BY <1>4 DEF Reverted, PutBack
  <2>2. Fresh(entry.before.tree.next, ids \cup ContentIds(entry.before_document))
    BY <1>4 DEF Steady
  <2> HIDE DEF v
  <2>3. QED
    BY <1>3, <2>1, <2>2 DEF v
<1>5. CASE entry.kind # "compound"
  <2> HIDE DEF v
  <2> DEFINE all == ids \cup ContentIds(entry.before_document) \cup Ids(d.tree)
  <2>1. RaisesNext(entry, entry.before_document, entry.after_document)
    BY <1>5 DEF Steady
  <2>2. all \in SUBSET NodeIds /\ Ids(d.tree) \subseteq all /\ Fresh(d.tree.next, all)
    BY <1>3
  <2> HIDE DEF all
  <2>3. Fresh(v.tree.next, all \cup Ids(v.tree))
    BY <2>1, <2>2 DEF RaisesNext, v
  <2>4. ids \cup Ids(v.tree) \subseteq all \cup Ids(v.tree)
    BY DEF all
  <2>5. QED
    BY <2>3, <2>4, FreshSubset DEF v
<1>6. QED
  BY <1>4, <1>5

(* Redo of a steady entry: it stays above those of the document before it   *)
(* as well.                                                                 *)
LEMMA SteadyRedone ==
  ASSUME NEW entry \in SoundEntries, NEW ids \in SUBSET NodeIds, Steady(entry, ids),
         NEW d \in DocumentRecords, Content(d) = entry.before_document,
         Fresh(d.tree.next, ids \cup Ids(d.tree))
  PROVE  Fresh(Reapplied(d, entry).tree.next,
               ids \cup ContentIds(entry.before_document) \cup Ids(Reapplied(d, entry).tree))
<1> DEFINE v == Reapplied(d, entry)
<1>1. PICK before, after \in DocumentRecords : Between(entry, before, after)
  BY DEF SoundEntries, Sound
<1>2. v \in DocumentRecords /\ Content(v) = entry.after_document
  BY <1>1 DEF Between, Redoes
<1>3. /\ Ids(v.tree) = ContentIds(entry.after_document)
      /\ Ids(d.tree) = ContentIds(entry.before_document)
      /\ Ids(d.tree) \subseteq NodeIds
  BY <1>2, ContentIdsAre, IdsTyped DEF DocumentRecords
<1>4. CASE entry.kind = "compound"
  <2>1. v = entry.after
    BY <1>4 DEF Reapplied, PutBack
  <2>2. Fresh(entry.after.tree.next, ids \cup ContentIds(entry.before_document)
                                        \cup ContentIds(entry.after_document))
    BY <1>4 DEF Steady
  <2> HIDE DEF v
  <2>3. QED
    BY <1>3, <2>1, <2>2 DEF v
<1>5. CASE entry.kind # "compound"
  <2> HIDE DEF v
  <2> DEFINE all == ids \cup Ids(d.tree)
  <2>1. RaisesNext(entry, entry.before_document, entry.after_document)
    BY <1>5 DEF Steady
  <2>2. all \in SUBSET NodeIds /\ Ids(d.tree) \subseteq all /\ Fresh(d.tree.next, all)
    BY <1>3
  <2> HIDE DEF all
  <2>3. Fresh(v.tree.next, all \cup Ids(v.tree))
    BY <2>1, <2>2 DEF RaisesNext, v
  <2>4. QED
    BY <1>3, <2>3 DEF v, all
<1>6. QED
  BY <1>4, <1>5

-----------------------------------------------------------------------------
(* What each action does, in the terms of the history                       *)

(* A new version of the document, and a sound entry that leads to it.       *)
EditStep ==
  \E entry \in SoundEntries :
    /\ StoreHistory(entry)
    /\ Leads(document', entry.after_document, entry.after_current, document, published')
    /\ Content(document') # Content(document)
    /\ entry.before_document = Content(document)
    /\ entry.before_current = current_node /\ entry.after_current = current_node'
    /\ entry.before_token = current_document_token /\ entry.after_token = next_document_token
    /\ DOMAIN position_cache' \subseteq DOMAIN position_cache
    /\ CacheSound => CacheSound'
    /\ GrowsFresh(entry, document, document')
    /\ revision < MaxRevision /\ revision' = revision + 1
    /\ current_document_token' = next_document_token
    /\ next_document_token' = next_document_token + 1
    /\ dirty' = (current_document_token' # saved_document_token)
    /\ can_undo' = TRUE /\ can_redo' = FALSE
    /\ used' = used \cup Ids(document'.tree)
    /\ UNCHANGED <<saved_document_token, checkpoint>>

(* What is left of the cache without the positions of some nodes.           *)
LeftOf(cache, gone) ==
  /\ DOMAIN cache \subseteq DOMAIN position_cache \ gone
  /\ \A id \in DOMAIN cache : cache[id] = position_cache[id]

(* Fewer positions are left in the cache.                                   *)
LEMMA CacheShrinks ==
  ASSUME NEW ids
  PROVE  LeftOf(CacheWithout(ids), ids)
BY DEF LeftOf, CacheWithout, Restrict

(* A cache without the positions of the nodes that moved is still sound.    *)
LEMMA CacheStillSound ==
  ASSUME NEW gone, StaysPut(document, document', gone), LeftOf(position_cache', gone),
         CacheSound
  PROVE  CacheSound'
BY DEF CacheSound, LeftOf, StaysPut

(* A commit whose entry is sound is an EditStep. *)
LEMMA CommitStep ==
  ASSUME Counters, Showing, NEW kind \in Kinds, NEW inverse \in EntryRecords,
         kind = "compound" => inverse.before \in DocumentRecords /\ inverse.after \in DocumentRecords,
         NEW version, NEW current, NEW changes,
         Commit(kind, inverse, version, current, changes),
         FreshNext(version), Content(version) # Content(document),
         AnnouncesChanges(document, version, changes),
         Proper(version), current \in Ids(version.tree),
         \A entry : Records(entry, kind, inverse, version, current) =>
           Between(entry, document, version) /\ GrowsFresh(entry, document, version),
         DOMAIN position_cache' \subseteq DOMAIN position_cache,
         CacheSound => CacheSound'
  PROVE  EditStep
<1> DEFINE entry == Costed(Uncosted(kind, inverse, version, current))
<1>1. StoreHistory(entry)
  BY DEF Commit, Costed, Uncosted
<1>2. Records(entry, kind, inverse, version, current)
  BY EntryRecorded
<1> HIDE DEF entry
<1>3. entry.cost \in 1 .. MaxHistoryBytes
  BY <1>1, <1>2, HistoryLimitsAssumption DEF StoreHistory, Records, EntryRecords
<1>4. entry.kind \in Kinds /\ entry \in EntryRecords
  BY <1>2 DEF Records, Carries
<1>5. document \in DocumentRecords /\ version \in DocumentRecords
  BY DEF Showing, Proper
<1>6. entry \in SoundEntries
  BY <1>2, <1>3, <1>4, <1>5 DEF SoundEntries, Sound
<1>7. /\ document' = version /\ current_node' = current /\ published' = changes
      /\ revision < MaxRevision /\ revision' = revision + 1
      /\ current_document_token' = next_document_token
      /\ next_document_token' = next_document_token + 1
      /\ dirty' = (current_document_token' # saved_document_token)
      /\ can_undo' = TRUE /\ can_redo' = FALSE
      /\ used' = used \cup Ids(version.tree)
      /\ UNCHANGED <<saved_document_token, checkpoint>>
  BY DEF Commit
<1>8. /\ entry.after_document = Content(version) /\ entry.after_current = current
      /\ entry.before_document = Content(document) /\ entry.before_current = current_node
      /\ entry.before_token = current_document_token /\ entry.after_token = next_document_token
  BY <1>2 DEF Records
<1>9. Leads(document', entry.after_document, entry.after_current, document, published')
  BY <1>7, <1>8 DEF Leads
<1>10. GrowsFresh(entry, document, document')
  BY <1>2, <1>7
<1>11. QED
  BY <1>1, <1>6, <1>7, <1>8, <1>9, <1>10 DEF EditStep

(* Every atomic command is such a step,                                     *)
LEMMA ExecuteStep ==
  ASSUME Counters, Showing, NEW c \in Commands, Execute(c)
  PROVE  EditStep
<1> DEFINE version == After(document, c)
           current == SelectionAfter(document, current_node, c)
           changes == ChangesOf(document, current_node, c)
           inverse == InverseOf(document, c)
<1>1. /\ Proper(document) /\ document \in DocumentRecords /\ Valid(document)
      /\ FreshNext(document) /\ current_node \in Ids(document.tree) /\ Executes(document, c)
  BY DEF Showing, Proper, Execute
<1>2. Commit(c.kind, inverse, version, current, changes)
  BY DEF Execute
<1>3. c.kind \in Kinds /\ c.kind # "compound"
  BY DEF Commands, Kinds
<1>4. inverse \in EntryRecords
  BY <1>1, InverseTyped
<1>5. Effective(document, current_node, c)
  BY <1>1, CommandEffect
<1>6. /\ version \in DocumentRecords /\ AnnouncesChanges(document, version, changes)
      /\ current \in Ids(version.tree)
      /\ DistinctMoves(document.tree) => DistinctMoves(version.tree)
  BY <1>5 DEF Effective
<1>7. Proper(version) /\ FreshNext(version)
  <2>1. FreshNext(version)
    BY <1>1, CommandFresh
  <2>2. Valid(version)
    BY <1>1 DEF Executes
  <2>3. Clean(version)
    BY <1>1, <1>6 DEF Proper, Clean
  <2>4. QED
    BY <1>6, <2>1, <2>2, <2>3 DEF Proper
<1>8. ASSUME NEW entry, Records(entry, c.kind, inverse, version, current)
      PROVE  Between(entry, document, version) /\ GrowsFresh(entry, document, version)
  <2>1. /\ entry \in EntryRecords /\ Carries(entry, inverse, c.kind)
        /\ entry.before_document = Content(document) /\ entry.after_document = Content(version)
        /\ entry.before_current = current_node /\ entry.after_current = current
    BY <1>8 DEF Records
  <2>2. QED
    BY <1>1, <2>1, CommandBetween, CommandGrows
<1>9. Content(version) # Content(document)
  <2> DEFINE entry == Costed(Uncosted(c.kind, inverse, version, current))
  <2>1. Records(entry, c.kind, inverse, version, current)
    BY <1>3, <1>4, <1>6, <1>7, EntryRecorded
  <2> HIDE DEF entry
  <2>2. Carries(entry, inverse, c.kind)
    BY <2>1 DEF Records
  <2>3. Inverted(document, c, entry)
    BY <1>1, <2>2, CommandInverted
  <2>4. QED
    BY <2>3 DEF Inverted
<1> DEFINE gone == Ids(document.tree) \ Untouched(document.tree, c)
<1>10. LeftOf(position_cache', gone)
  <2>1. CASE c.kind \in {"replace", "delete"}
    <3>1. /\ position_cache' = CacheWithout(Subtree(document.tree, c.node))
          /\ gone \subseteq Subtree(document.tree, c.node)
      BY <2>1 DEF Execute, Untouched
    <3> HIDE DEF gone
    <3>2. QED
      BY <3>1, CacheShrinks DEF LeftOf
  <2>2. CASE c.kind \notin {"replace", "delete"}
    <3>1. position_cache' = position_cache /\ gone = {}
      BY <2>2 DEF Execute, Untouched
    <3>2. QED
      BY <3>1 DEF LeftOf
  <2>3. QED
    BY <2>1, <2>2
<1>11. DOMAIN position_cache' \subseteq DOMAIN position_cache
  BY <1>10 DEF LeftOf
<1>12. CacheSound => CacheSound'
  <2>1. StaysPut(document, version, gone)
    BY <1>1, CommandStaysPut
  <2>2. document' = version
    BY <1>2 DEF Commit
  <2> HIDE DEF version, gone
  <2>3. QED
    BY <1>10, <2>1, <2>2, CacheStillSound
<1> HIDE DEF version, current, changes, inverse
<1>13. QED
  BY <1>2, <1>3, <1>4, <1>6, <1>7, <1>8, <1>9, <1>11, <1>12, CommitStep

(* and so is a compound command.                                            *)
LEMMA CompoundStep ==
  ASSUME Counters, Showing, NEW commands \in Compounds, Compound(commands)
  PROVE  EditStep
<1> DEFINE run == Run(document, current_node, commands)
           version == run.document
           current == run.current_node
           inverse == [Entry0 EXCEPT !.before = document, !.after = run.document,
                                     !.forward_changes = run.changes]
           changes == [run.changes EXCEPT !.selection_changed = current_node # run.current_node]
           ids == Ids(document.tree)
<1>1. /\ Proper(document) /\ document \in DocumentRecords /\ Valid(document)
      /\ FreshNext(document) /\ current_node \in Ids(document.tree)
      /\ commands \in Seq(Commands)
  BY ArgumentsAssumption DEF Showing, Proper
<1>2. /\ Commit("compound", inverse, version, current, changes)
      /\ Content(version) # Content(document)
      /\ position_cache' = <<>>
  BY DEF Compound
<1>3. WorkingOn(document, ids, run)
  <2>1. ids \in SUBSET NodeIds /\ Fresh(document.tree.next, ids)
    BY <1>1, IdsTyped DEF FreshNext, DocumentRecords, Trees
  <2>2. QED
    BY <1>1, <2>1, RunWorks
<1> HIDE DEF run
<1>4. /\ version \in DocumentRecords /\ Valid(version) /\ current \in Ids(version.tree)
      /\ run.changes \in ChangeSets /\ AnnouncesChanges(document, version, run.changes)
      /\ DistinctMoves(document.tree) => DistinctMoves(version.tree)
  BY <1>3 DEF WorkingOn
<1>5. AnnouncesChanges(document, version, changes)
  <2>1. SameFields(run.changes, changes)
    BY <1>4 DEF SameFields, ChangeSets
  <2>2. QED
    BY <1>4, <2>1, SameAnnounced
<1>6. inverse \in EntryRecords
  <2>1. Entry0 \in EntryRecords
    BY EmptyEntry
  <2>2. document \in Values /\ run.document \in Values
    BY <1>1, <1>4 DEF Values
  <2>3. QED
    BY <2>1, <2>2, <1>4 DEF EntryRecords
<1>7. /\ inverse.before = document /\ inverse.after = version
      /\ inverse.forward_changes = run.changes /\ inverse.root = Root /\ inverse.parent = Root
  BY DEF Entry0
<1> HIDE DEF version, current, inverse, changes
<1>8. Proper(version)
  BY <1>1, <1>4 DEF Proper, Clean
<1>9. ASSUME NEW entry, Records(entry, "compound", inverse, version, current)
      PROVE  /\ Between(entry, document, version) /\ FreshNext(version)
             /\ GrowsFresh(entry, document, version)
  <2>1. /\ entry \in EntryRecords /\ entry.kind = "compound"
        /\ entry.root = Root /\ entry.parent = Root
        /\ entry.before = document /\ entry.after = version
        /\ entry.forward_changes = run.changes
        /\ entry.before_document = Content(document) /\ entry.after_document = Content(version)
        /\ entry.before_current = current_node /\ entry.after_current = current
    BY <1>7, <1>9 DEF Records, Carries
  <2>2. Between(entry, document, run.document) /\ FreshNext(run.document)
    BY <1>1, <2>1, CompoundBetween DEF run, version, current
  <2>3. GrowsFresh(entry, document, run.document)
    BY <1>1, <2>1, CompoundGrows DEF run, version, current
  <2>4. QED
    BY <2>2, <2>3 DEF version
<1>10. "compound" \in Kinds /\ document \in DocumentRecords /\ version \in DocumentRecords
  BY <1>1, <1>8 DEF Kinds, Proper
<1>11. Records(Costed(Uncosted("compound", inverse, version, current)),
               "compound", inverse, version, current)
  BY <1>4, <1>6, <1>7, <1>8, <1>10, EntryRecorded DEF version, current
<1>12. FreshNext(version)
  BY <1>9, <1>11
<1>13. DOMAIN position_cache' \subseteq DOMAIN position_cache /\ CacheSound'
  <2>1. DOMAIN position_cache' = {}
    BY <1>2
  <2>2. QED
    BY <2>1 DEF CacheSound
<1>14. current \in Ids(version.tree)
  BY <1>4 DEF version, current
<1>15. QED
  BY <1>2, <1>5, <1>6, <1>7, <1>8, <1>9, <1>10, <1>12, <1>13, <1>14, CommitStep

(* A version the history holds is shown again, with its selection and token. *)
RestoresVersion(content, current, token) ==
  /\ Leads(document', content, current, document, published')
  /\ current_node' = current
  /\ current_document_token' = token
  /\ dirty' = (token # saved_document_token)
  /\ DOMAIN position_cache' \subseteq DOMAIN position_cache
  /\ CacheSound => CacheSound'
  /\ revision < MaxRevision /\ revision' = revision + 1
  /\ UNCHANGED <<saved_document_token, next_document_token, checkpoint, used>>

(* Both stacks hold sound entries.                                          *)
Stacks == undo_history \in Seq(SoundEntries) /\ redo_history \in Seq(SoundEntries)

(* They form one line of documents through the one that is shown.           *)
Line ==
  /\ \A i \in 1 .. Len(undo_history) - 1 :
       undo_history[i + 1].before_document = undo_history[i].after_document
  /\ \A i \in 1 .. Len(redo_history) - 1 :
       redo_history[i].before_document = redo_history[i + 1].after_document
  /\ undo_history # <<>> => Last(undo_history).after_document = Content(document)
  /\ redo_history # <<>> => Last(redo_history).before_document = Content(document)

(* What undo and redo leave in the cache was in it, and the entry does not  *)
(* drop it.                                                                 *)
LEMMA CacheAfterShrinks ==
  ASSUME NEW entry, entry.kind \in Kinds, NEW version,
         NEW vanishing \in {"insert", "delete"}
  PROVE  LeftOf(CacheAfter(entry, version, vanishing), Dropped(entry, version, vanishing))
<1>1. CASE entry.kind = "compound"
  <2>1. CacheAfter(entry, version, vanishing) = <<>>
    BY <1>1 DEF CacheAfter
  <2>2. QED
    BY <2>1 DEF LeftOf
<1>2. CASE entry.kind = "replace"
  <2>1. /\ CacheAfter(entry, version, vanishing) = CacheWithout(Subtree(version.tree, entry.root))
        /\ Dropped(entry, version, vanishing) = Subtree(version.tree, entry.root)
    BY <1>2 DEF CacheAfter, Dropped
  <2>2. QED
    BY <2>1, CacheShrinks
<1>3. CASE entry.kind = vanishing
  <2>1. /\ CacheAfter(entry, version, vanishing) = CacheWithout(StoredIds(entry))
        /\ Dropped(entry, version, vanishing) = StoredIds(entry)
    BY <1>3 DEF CacheAfter, Dropped
  <2>2. QED
    BY <2>1, CacheShrinks
<1>4. CASE entry.kind \notin {"compound", "replace", vanishing}
  <2>1. /\ CacheAfter(entry, version, vanishing) = position_cache
        /\ Dropped(entry, version, vanishing) = {}
    BY <1>4 DEF CacheAfter, Dropped
  <2>2. QED
    BY <2>1 DEF LeftOf
<1>5. QED
  BY <1>1, <1>2, <1>3, <1>4

UndoStep(entry) ==
  /\ undo_history # <<>> /\ entry = Last(undo_history)
  /\ undo_history' = Front(undo_history)
  /\ redo_history' = Append(redo_history, entry)
  /\ RestoresVersion(entry.before_document, entry.before_current, entry.before_token)
  /\ document' = Reverted(document, entry)
  /\ can_undo' = (undo_history' # <<>>)
  /\ can_redo' = TRUE

RedoStep(entry) ==
  /\ redo_history # <<>> /\ entry = Last(redo_history)
  /\ undo_history' = Append(undo_history, entry)
  /\ redo_history' = Front(redo_history)
  /\ RestoresVersion(entry.after_document, entry.after_current, entry.after_token)
  /\ document' = Reapplied(document, entry)
  /\ can_undo' = TRUE
  /\ can_redo' = (redo_history' # <<>>)

(* What is on top of the stacks can be undone and redone.                   *)
LEMMA TopEntries ==
  ASSUME Showing, Stacks, Line
  PROVE  /\ undo_history # <<>> =>
              /\ Last(undo_history) \in SoundEntries
              /\ CanRevert(document, Last(undo_history))
              /\ Leads(Reverted(document, Last(undo_history)),
                       Last(undo_history).before_document, Last(undo_history).before_current,
                       document, RevertChanges(Last(undo_history)))
         /\ redo_history # <<>> =>
              /\ Last(redo_history) \in SoundEntries
              /\ CanReapply(document, Last(redo_history))
              /\ Leads(Reapplied(document, Last(redo_history)),
                       Last(redo_history).after_document, Last(redo_history).after_current,
                       document, ReapplyChanges(Last(redo_history)))
<1>1. document \in DocumentRecords /\ FreshNext(document)
  BY DEF Showing, Proper
<1>2. /\ undo_history # <<>> => Last(undo_history) \in SoundEntries
      /\ redo_history # <<>> => Last(redo_history) \in SoundEntries
  BY PopElements DEF Stacks
<1>3. /\ undo_history # <<>> => Content(document) = Last(undo_history).after_document
      /\ redo_history # <<>> => Content(document) = Last(redo_history).before_document
  BY DEF Line
<1>4. QED
  BY <1>1, <1>2, <1>3, EntryUndone, EntryRedone

(* Undo applies the sound entry on top of the undo stack. *)
LEMMA UndoIsStep ==
  ASSUME Showing, Stacks, Line, Undo
  PROVE  \E entry \in SoundEntries : UndoStep(entry)
<1> DEFINE entry == Last(undo_history)
           version == Reverted(document, entry)
<1>1. /\ undo_history # <<>>
      /\ Restore(version, entry.before_current, entry.before_token, RevertChanges(entry))
      /\ position_cache' = CacheAfter(entry, version, "insert")
      /\ undo_history' = Front(undo_history)
      /\ redo_history' = Append(redo_history, entry)
      /\ can_undo' = (undo_history' # <<>>)
      /\ can_redo' = TRUE
  BY DEF Undo
<1>2. /\ entry \in SoundEntries
      /\ Leads(version, entry.before_document, entry.before_current, document,
               RevertChanges(entry))
  BY <1>1, TopEntries
<1>3. entry.kind \in Kinds
  BY <1>2 DEF SoundEntries, Sound
<1>a. StaysPut(document, version, Dropped(entry, version, "insert"))
  <2>1. document \in DocumentRecords /\ Content(document) = entry.after_document
    BY <1>1 DEF Showing, Proper, Line
  <2>2. QED
    BY <1>2, <2>1, EntryStaysPut
<1>c. document' = version
  BY <1>1 DEF Restore
<1> HIDE DEF version
<1>b. LeftOf(position_cache', Dropped(entry, version, "insert"))
  BY <1>1, <1>3, CacheAfterShrinks
<1>4. /\ DOMAIN position_cache' \subseteq DOMAIN position_cache
      /\ CacheSound => CacheSound'
  <2>1. CacheSound => CacheSound'
    BY <1>a, <1>b, <1>c, CacheStillSound
  <2>2. QED
    BY <1>b, <2>1 DEF LeftOf
<1>d. document' = Reverted(document, entry)
  BY <1>c DEF version
<1> HIDE DEF entry
<1>5. RestoresVersion(entry.before_document, entry.before_current, entry.before_token)
  BY <1>1, <1>2, <1>4 DEF Restore, RestoresVersion
<1>6. QED
  BY <1>1, <1>2, <1>5, <1>d DEF UndoStep, entry

(* Redo applies the sound entry on top of the redo stack. *)
LEMMA RedoIsStep ==
  ASSUME Showing, Stacks, Line, Redo
  PROVE  \E entry \in SoundEntries : RedoStep(entry)
<1> DEFINE entry == Last(redo_history)
           version == Reapplied(document, entry)
<1>1. /\ redo_history # <<>>
      /\ Restore(version, entry.after_current, entry.after_token, ReapplyChanges(entry))
      /\ position_cache' = CacheAfter(entry, version, "delete")
      /\ undo_history' = Append(undo_history, entry)
      /\ redo_history' = Front(redo_history)
      /\ can_undo' = TRUE
      /\ can_redo' = (redo_history' # <<>>)
  BY DEF Redo
<1>2. /\ entry \in SoundEntries
      /\ Leads(version, entry.after_document, entry.after_current, document,
               ReapplyChanges(entry))
  BY <1>1, TopEntries
<1>3. entry.kind \in Kinds
  BY <1>2 DEF SoundEntries, Sound
<1>a. StaysPut(document, version, Dropped(entry, version, "delete"))
  <2>1. document \in DocumentRecords /\ Content(document) = entry.before_document
    BY <1>1 DEF Showing, Proper, Line
  <2>2. QED
    BY <1>2, <2>1, EntryStaysPut
<1>c. document' = version
  BY <1>1 DEF Restore
<1> HIDE DEF version
<1>b. LeftOf(position_cache', Dropped(entry, version, "delete"))
  BY <1>1, <1>3, CacheAfterShrinks
<1>4. /\ DOMAIN position_cache' \subseteq DOMAIN position_cache
      /\ CacheSound => CacheSound'
  <2>1. CacheSound => CacheSound'
    BY <1>a, <1>b, <1>c, CacheStillSound
  <2>2. QED
    BY <1>b, <2>1 DEF LeftOf
<1>d. document' = Reapplied(document, entry)
  BY <1>c DEF version
<1> HIDE DEF entry
<1>5. RestoresVersion(entry.after_document, entry.after_current, entry.after_token)
  BY <1>1, <1>2, <1>4 DEF Restore, RestoresVersion
<1>6. QED
  BY <1>1, <1>2, <1>5, <1>d DEF RedoStep, entry

-----------------------------------------------------------------------------
(* The inductive invariant                                                  *)

(* Every entry's tokens are given out, and its nodes are nodes the session  *)
(* has had.                                                                 *)
Known(entry) ==
  /\ entry.before_token < next_document_token
  /\ entry.after_token < next_document_token
  /\ ContentIds(entry.before_document) \cup ContentIds(entry.after_document) \subseteq used

Remembered ==
  /\ used \subseteq NodeIds
  /\ Ids(document.tree) \subseteq used
  /\ \A entry \in Range(undo_history) \cup Range(redo_history) : Known(entry)

CacheBounded ==
  /\ IsFiniteSet(DOMAIN position_cache)
  /\ Cardinality(DOMAIN position_cache) <= MaxPositionCacheEntries

IInv == Counters /\ Showing /\ Stacks /\ Line /\ Remembered /\ CacheBounded

(* The invariant holds when a document is opened. *)
LEMMA InitIInv == Init => IInv
<1> SUFFICES ASSUME Init
             PROVE  IInv
  OBVIOUS
<1> USE DEF Init
<1>1. Counters
  <2>1. dirty \in BOOLEAN /\ can_undo \in BOOLEAN /\ can_redo \in BOOLEAN
    OBVIOUS
  <2>2. revision \in 0 .. MaxRevision
    BY BoundsAssumption
  <2>3. current_document_token = 0 /\ saved_document_token = 0 /\ next_document_token = 1
    OBVIOUS
  <2>4. QED
    BY <2>1, <2>2, <2>3 DEF Counters
<1>2. /\ document = InitialDocument /\ InitialDocument \in DocumentRecords
      /\ Valid(InitialDocument)
  BY OpenAssumption
<1>3. FreshNext(InitialDocument)
  <2> DEFINE t == InitialDocument.tree
             none == {}
  <2>1. t = Reindexed(t.nodes, t.next) /\ t.nodes \in Seq(NodeRecords) /\ t.next \in NodeIds
    BY OpenAssumption, <1>2 DEF DocumentRecords, Trees
  <2>2. t.nodes # <<>>
    BY <1>2 DEF Valid, Structural, WellFormed
  <2>3. Fresh(t.next, none) /\ none \in SUBSET NodeIds /\ none \subseteq Nat
    BY DEF Fresh
  <2> HIDE DEF t, none
  <2>4. Fresh(Reindexed(t.nodes, t.next).next, none \cup Ids(Reindexed(t.nodes, t.next)))
    BY <2>1, <2>2, <2>3, FreshKept
  <2>5. Fresh(t.next, none \cup Ids(t))
    BY <2>1, <2>4
  <2>6. QED
    BY <2>5, FreshSubset DEF FreshNext, t
<1>4. Root \in Ids(InitialDocument.tree) /\ Ids(InitialDocument.tree) \subseteq NodeIds
  BY <1>2, TreeShape, IdsTyped DEF Valid, Structural, DocumentRecords, Trees
<1>5. Showing
  BY <1>2, <1>3, <1>4 DEF Showing, Proper, Clean
<1>6. /\ undo_history = <<>> /\ redo_history = <<>>
      /\ Stacks /\ Range(undo_history) = {} /\ Range(redo_history) = {}
  BY EmptySeq DEF Stacks, Range
<1>7. Line
  BY <1>6, EmptySeq DEF Line
<1>8. Remembered
  BY <1>4, <1>6 DEF Remembered
<1>9. CacheBounded
  <2>1. DOMAIN position_cache = {}
    OBVIOUS
  <2>2. QED
    BY <2>1, FS_EmptySet, BoundsAssumption DEF CacheBounded
<1>10. QED
  BY <1>1, <1>5, <1>6, <1>7, <1>8, <1>9 DEF IInv

(* Every command is an edit step.                                           *)
LEMMA CommandsEdit ==
  ASSUME Counters, Showing,
         \/ InsertMove \/ DeleteSubtree \/ ReplaceMove \/ ReorderVariation
         \/ SetAnnotations \/ SetMetadata \/ \E commands \in Compounds : Compound(commands)
  PROVE  EditStep
<1>1. /\ Ids(document.tree) \subseteq NodeIds
      /\ \A id \in Ids(document.tree) : Len(Children(document.tree, id)) \in Nat
      /\ \A id \in Ids(document.tree) \ {Root} :
           Node(document.tree, id).parent \in Ids(document.tree)
  <2>1. document.tree \in Trees /\ WellFormed(document.tree)
    BY DEF Showing, Proper, Valid, Structural, DocumentRecords
  <2>2. \A id \in Ids(document.tree) : Children(document.tree, id) \in Seq(NodeIds)
    BY <2>1, TreeShape
  <2>3. QED
    BY <2>1, <2>2, IdsTyped, TreeShape, LenProperties DEF Trees
<1>2. Moves \subseteq AnyMove /\ AnnotationLists \subseteq Annotations
  BY ArgumentsAssumption
<1>3. CASE InsertMove
  <2>a. PICK parent \in Ids(document.tree), move \in Moves :
          \E index \in 0 .. Len(Children(document.tree, parent)) :
            Execute([kind |-> "insert", parent |-> parent, move |-> move, index |-> index])
    BY <1>3 DEF InsertMove
  <2>1. PICK index \in 0 .. Len(Children(document.tree, parent)) :
          Execute([kind |-> "insert", parent |-> parent, move |-> move, index |-> index])
    BY <2>a
  <2>2. [kind |-> "insert", parent |-> parent, move |-> move, index |-> index] \in Commands
    BY <1>1, <1>2 DEF Commands
  <2>3. QED
    BY <2>1, <2>2, ExecuteStep
<1>4. CASE DeleteSubtree
  <2>1. PICK node \in Ids(document.tree) : Execute([kind |-> "delete", node |-> node])
    BY <1>4 DEF DeleteSubtree
  <2>2. [kind |-> "delete", node |-> node] \in Commands
    BY <1>1 DEF Commands
  <2>3. QED
    BY <2>1, <2>2, ExecuteStep
<1>5. CASE ReplaceMove
  <2>1. PICK node \in Ids(document.tree), move \in Moves :
          Execute([kind |-> "replace", node |-> node, move |-> move])
    BY <1>5 DEF ReplaceMove
  <2>2. [kind |-> "replace", node |-> node, move |-> move] \in Commands
    BY <1>1, <1>2 DEF Commands
  <2>3. QED
    BY <2>1, <2>2, ExecuteStep
<1>6. CASE ReorderVariation
  <2>a. PICK node \in Ids(document.tree) \ {Root} :
          \E index \in 0 .. Len(Children(document.tree, Node(document.tree, node).parent)) - 1 :
            Execute([kind |-> "reorder", node |-> node, index |-> index])
    BY <1>6 DEF ReorderVariation
  <2>1. PICK index \in 0 .. Len(Children(document.tree, Node(document.tree, node).parent)) - 1 :
          Execute([kind |-> "reorder", node |-> node, index |-> index])
    BY <2>a
  <2>2. [kind |-> "reorder", node |-> node, index |-> index] \in Commands
    BY <1>1 DEF Commands
  <2>3. QED
    BY <2>1, <2>2, ExecuteStep
<1>7. CASE SetAnnotations
  <2>1. PICK node \in Ids(document.tree), annotations \in AnnotationLists :
          Execute([kind |-> "annotate", node |-> node, annotations |-> annotations])
    BY <1>7 DEF SetAnnotations
  <2>2. [kind |-> "annotate", node |-> node, annotations |-> annotations] \in Commands
    BY <1>1, <1>2 DEF Commands
  <2>3. QED
    BY <2>1, <2>2, ExecuteStep
<1>8. CASE SetMetadata
  <2>1. PICK metadata \in Metadata : Execute([kind |-> "metadata", metadata |-> metadata])
    BY <1>8 DEF SetMetadata
  <2>2. [kind |-> "metadata", metadata |-> metadata] \in Commands
    BY DEF Commands
  <2>3. QED
    BY <2>1, <2>2, ExecuteStep
<1>9. CASE \E commands \in Compounds : Compound(commands)
  BY <1>9, CompoundStep
<1>10. QED
  BY <1>3, <1>4, <1>5, <1>6, <1>7, <1>8, <1>9

(* Smaller caches stay within their bound.                                  *)
LEMMA BoundKept ==
  ASSUME CacheBounded, DOMAIN position_cache' \subseteq DOMAIN position_cache
  PROVE  CacheBounded'
<1> DEFINE D == DOMAIN position_cache
           E == DOMAIN position_cache'
<1>1. IsFiniteSet(D) /\ Cardinality(D) <= MaxPositionCacheEntries
  BY DEF CacheBounded
<1>2. E \subseteq D
  OBVIOUS
<1> HIDE DEF D, E
<1>3. IsFiniteSet(E) /\ Cardinality(E) <= Cardinality(D)
  BY <1>1, <1>2, FS_Subset
<1>4. Cardinality(E) \in Nat /\ Cardinality(D) \in Nat
  BY <1>1, <1>3, FS_CardinalityType
<1>5. Cardinality(E) <= MaxPositionCacheEntries
  BY <1>1, <1>3, <1>4, BoundsAssumption
<1>6. QED
  BY <1>3, <1>5 DEF CacheBounded, E

(* A command, atomic or compound, keeps the invariant. *)
LEMMA EditKeeps ==
  ASSUME IInv, EditStep
  PROVE  IInv'
<1>1. PICK e \in SoundEntries :
        /\ StoreHistory(e)
        /\ Leads(document', e.after_document, e.after_current, document, published')
        /\ e.before_document = Content(document)
        /\ e.before_current = current_node /\ e.after_current = current_node'
        /\ e.before_token = current_document_token /\ e.after_token = next_document_token
        /\ DOMAIN position_cache' \subseteq DOMAIN position_cache
        /\ revision < MaxRevision /\ revision' = revision + 1
        /\ current_document_token' = next_document_token
        /\ next_document_token' = next_document_token + 1
        /\ dirty' = (current_document_token' # saved_document_token)
        /\ can_undo' = TRUE /\ can_redo' = FALSE
        /\ used' = used \cup Ids(document'.tree)
        /\ saved_document_token' = saved_document_token
  BY DEF EditStep
<1>2. Counters /\ Showing /\ Stacks /\ Line /\ Remembered /\ CacheBounded
  BY DEF IInv
<1>3. Counters'
  <2>1. dirty' \in BOOLEAN /\ can_undo' \in BOOLEAN /\ can_redo' \in BOOLEAN
    BY <1>1
  <2>2. revision' \in 0 .. MaxRevision
    BY <1>1, <1>2, BoundsAssumption DEF Counters
  <2>3. /\ current_document_token' \in Nat /\ saved_document_token' \in Nat
        /\ next_document_token' \in Nat
        /\ current_document_token' < next_document_token'
        /\ saved_document_token' < next_document_token'
    BY <1>1, <1>2 DEF Counters
  <2>4. QED
    BY <2>1, <2>2, <2>3 DEF Counters
<1>4. /\ Proper(document') /\ FreshNext(document')
      /\ Content(document') = e.after_document /\ current_node' \in Ids(document'.tree)
  BY <1>1 DEF Leads
<1>5. Showing'
  BY <1>4 DEF Showing
<1>6. PICK k \in 1 .. Len(undo_history) + 1 :
        /\ undo_history' \in Seq(SoundEntries)
        /\ undo_history' # <<>>
        /\ Last(undo_history') = e
        /\ Len(undo_history') = Len(undo_history) + 2 - k
        /\ undo_history'[Len(undo_history')] = e
        /\ \A i \in 1 .. Len(undo_history') - 1 :
             undo_history'[i] = undo_history[i + k - 1]
        /\ Range(undo_history') \subseteq Range(undo_history) \cup {e}
        /\ redo_history' = <<>>
  <2>1. undo_history \in Seq(SoundEntries) /\ StoreHistory(e)
    BY <1>1, <1>2 DEF Stacks
  <2>2. QED
    BY <2>1, StoreStacks
<1>7. Stacks'
  BY <1>6, EmptySeq DEF Stacks
<1>8. Line'
  <2>1. Len(undo_history) \in Nat
    BY <1>2, LenProperties DEF Stacks
  <2>2. ASSUME NEW i \in 1 .. Len(undo_history') - 1
        PROVE  undo_history'[i + 1].before_document = undo_history'[i].after_document
    <3>1. undo_history'[i] = undo_history[i + k - 1]
      BY <1>6
    <3>2. CASE i = Len(undo_history') - 1
      <4>1. i + 1 = Len(undo_history') /\ i + k - 1 = Len(undo_history)
            /\ Len(undo_history) # 0
        BY <1>6, <2>1, <3>2
      <4>2. undo_history'[i + 1] = e /\ undo_history # <<>>
        BY <1>6, <4>1, EmptySeq
      <4>3. undo_history[Len(undo_history)].after_document = Content(document)
        BY <1>2, <4>2 DEF Line, Last
      <4>4. QED
        BY <1>1, <3>1, <4>1, <4>2, <4>3
    <3>3. CASE i # Len(undo_history') - 1
      <4>1. /\ i + 1 \in 1 .. Len(undo_history') - 1
            /\ i + k - 1 \in 1 .. Len(undo_history) - 1
            /\ (i + 1) + k - 1 = (i + k - 1) + 1
        <5> DEFINE n == Len(undo_history)
                   m == Len(undo_history')
        <5>1. m = n + 2 - k /\ n \in Nat /\ k \in 1 .. n + 1 /\ i \in 1 .. m - 1 /\ i # m - 1
          BY <1>6, <2>1, <3>3
        <5> HIDE DEF m, n
        <5>2. QED
          BY <5>1 DEF m, n
      <4>2. undo_history'[i + 1] = undo_history[(i + 1) + k - 1]
        BY <1>6, <4>1
      <4>3. undo_history[(i + k - 1) + 1].before_document
              = undo_history[i + k - 1].after_document
        BY <1>2, <4>1 DEF Line
      <4>4. QED
        BY <3>1, <4>1, <4>2, <4>3
    <3>4. QED
      BY <3>2, <3>3
  <2>3. \A i \in 1 .. Len(redo_history') - 1 :
          redo_history'[i].before_document = redo_history'[i + 1].after_document
    BY <1>6, EmptySeq
  <2>4. QED
    BY <1>4, <1>6, <2>2, <2>3 DEF Line
<1>9. Remembered'
  <2>1. Ids(document'.tree) \subseteq NodeIds
    BY <1>4, IdsTyped DEF Proper, DocumentRecords, Trees
  <2>2. ASSUME NEW entry \in Range(undo_history') \cup Range(redo_history')
        PROVE  Known(entry)'
    <3>1. Range(redo_history') = {}
      BY <1>6, EmptySeq DEF Range
    <3>2. CASE entry = e
      <4>1. /\ ContentIds(e.before_document) = Ids(document.tree)
            /\ ContentIds(e.after_document) = Ids(document'.tree)
        BY <1>1, <1>4, ContentIdsAre
      <4>2. QED
        BY <1>1, <1>2, <3>2, <4>1 DEF Known, Remembered, Counters
    <3>3. CASE entry \in Range(undo_history)
      <4>1. Known(entry) /\ entry \in SoundEntries
        <5>1. entry \in SoundEntries
          BY <1>2, <3>3, LenProperties, ElementOfSeq DEF Stacks, Range
        <5>2. QED
          BY <5>1, <1>2, <3>3 DEF Remembered
      <4>2. entry.before_token \in Nat /\ entry.after_token \in Nat
        BY <4>1 DEF SoundEntries, EntryRecords
      <4>3. QED
        BY <1>1, <1>2, <4>1, <4>2 DEF Known, Counters
    <3>4. QED
      BY <1>6, <3>1, <3>2, <3>3
  <2>3. QED
    BY <1>1, <1>2, <2>1, <2>2 DEF Remembered
<1>10. CacheBounded'
  BY <1>1, <1>2, BoundKept
<1>11. QED
  BY <1>3, <1>5, <1>7, <1>8, <1>9, <1>10 DEF IInv

(* What undo and redo have in common.                                       *)
LEMMA RestoreKeeps ==
  ASSUME IInv, NEW entry \in SoundEntries, Known(entry),
         NEW content \in {entry.before_document, entry.after_document}, NEW current,
         NEW token \in {entry.before_token, entry.after_token},
         RestoresVersion(content, current, token),
         can_undo' \in BOOLEAN, can_redo' \in BOOLEAN,
         Range(undo_history') \cup Range(redo_history')
           \subseteq Range(undo_history) \cup Range(redo_history)
  PROVE  Counters' /\ Showing' /\ Remembered' /\ CacheBounded' /\ Content(document') = content
<1>1. /\ Leads(document', content, current, document, published')
      /\ current_node' = current
      /\ current_document_token' = token
      /\ dirty' = (token # saved_document_token)
      /\ DOMAIN position_cache' \subseteq DOMAIN position_cache
      /\ revision < MaxRevision /\ revision' = revision + 1
      /\ saved_document_token' = saved_document_token
      /\ next_document_token' = next_document_token
      /\ used' = used
  BY DEF RestoresVersion
<1>2. Counters /\ Showing /\ Remembered /\ CacheBounded
  BY DEF IInv
<1>3. Counters'
  <2>1. dirty' \in BOOLEAN
    BY <1>1
  <2>2. revision' \in 0 .. MaxRevision
    BY <1>1, <1>2, BoundsAssumption DEF Counters
  <2>3. token \in Nat /\ token < next_document_token
    BY DEF Known, SoundEntries, EntryRecords
  <2>4. QED
    BY <1>1, <1>2, <2>1, <2>2, <2>3 DEF Counters
<1>4. /\ Proper(document') /\ FreshNext(document')
      /\ Content(document') = content /\ current_node' \in Ids(document'.tree)
  BY <1>1 DEF Leads
<1>5. Showing'
  BY <1>4 DEF Showing
<1>6. Remembered'
  <2>1. Ids(document'.tree) \subseteq used'
    <3>1. Ids(document'.tree) = ContentIds(content)
      BY <1>4, ContentIdsAre
    <3>2. QED
      BY <3>1, <1>1 DEF Known
  <2>2. \A e : Known(e) => Known(e)'
    BY <1>1 DEF Known
  <2>3. QED
    BY <1>1, <1>2, <2>1, <2>2 DEF Remembered
<1>7. CacheBounded'
  BY <1>1, <1>2, BoundKept
<1>8. QED
  BY <1>3, <1>4, <1>5, <1>6, <1>7

(* Undo keeps the invariant: its entry moves to the redo stack. *)
LEMMA UndoKeeps ==
  ASSUME IInv, NEW entry \in SoundEntries, UndoStep(entry)
  PROVE  IInv'
<1> DEFINE n == Len(undo_history)
           m == Len(redo_history)
<1>1. /\ undo_history # <<>> /\ entry = Last(undo_history)
      /\ undo_history' = Front(undo_history)
      /\ redo_history' = Append(redo_history, entry)
      /\ RestoresVersion(entry.before_document, entry.before_current, entry.before_token)
      /\ can_undo' = (undo_history' # <<>>)
      /\ can_redo' = TRUE
  BY DEF UndoStep
<1>2. /\ undo_history \in Seq(SoundEntries) /\ redo_history \in Seq(SoundEntries)
      /\ Line /\ Remembered
  BY DEF IInv, Stacks
<1>3. /\ n \in Nat \ {0} /\ m \in Nat
      /\ entry \in Range(undo_history) /\ entry = undo_history[n]
  BY <1>1, <1>2, PopElements, EmptySeq, LenProperties DEF Last
<1>4. /\ undo_history' \in Seq(SoundEntries) /\ Len(undo_history') = n - 1
      /\ \A i \in 1 .. n - 1 : undo_history'[i] = undo_history[i]
      /\ Range(undo_history') \subseteq Range(undo_history)
  BY <1>1, <1>2, PopElements
<1>5. /\ redo_history' \in Seq(SoundEntries) /\ Len(redo_history') = m + 1
      /\ \A i \in 1 .. m : redo_history'[i] = redo_history[i]
      /\ Last(redo_history') = entry
      /\ Range(redo_history') = Range(redo_history) \cup {entry}
  BY <1>1, <1>2, PushElements
<1>6. redo_history'[m + 1] = entry
  BY <1>5 DEF Last
<1>7. /\ Counters' /\ Showing' /\ Remembered' /\ CacheBounded'
      /\ Content(document') = entry.before_document
  <2>1. Known(entry)
    BY <1>2, <1>3 DEF Remembered
  <2>2. can_undo' \in BOOLEAN /\ can_redo' \in BOOLEAN
    BY <1>1
  <2>3. Range(undo_history') \cup Range(redo_history')
          \subseteq Range(undo_history) \cup Range(redo_history)
    BY <1>3, <1>4, <1>5
  <2>4. QED
    BY <1>1, <2>1, <2>2, <2>3, RestoreKeeps
<1>8. entry.after_document = Content(document)
  BY <1>1, <1>2 DEF Line
<1>9. Line'
  <2>1. ASSUME NEW i \in 1 .. Len(undo_history') - 1
        PROVE  undo_history'[i + 1].before_document = undo_history'[i].after_document
    <3>1. i \in 1 .. n - 1 /\ i + 1 \in 1 .. n - 1
      BY <1>3, <1>4
    <3>2. QED
      BY <3>1, <1>2, <1>4 DEF Line
  <2>2. ASSUME NEW i \in 1 .. Len(redo_history') - 1
        PROVE  redo_history'[i].before_document = redo_history'[i + 1].after_document
    <3>1. i \in 1 .. m
      BY <1>3, <1>5
    <3>2. CASE i = m
      <4>1. redo_history # <<>> /\ Last(redo_history) = redo_history[m]
        BY <1>2, <3>1, <3>2, EmptySeq DEF Last
      <4>2. redo_history[m].before_document = Content(document)
        BY <4>1, <1>2 DEF Line
      <4>3. QED
        BY <1>5, <1>6, <1>8, <3>1, <3>2, <4>2
    <3>3. CASE i # m
      <4>1. i \in 1 .. m - 1 /\ i + 1 \in 1 .. m
        BY <1>3, <3>1, <3>3
      <4>2. QED
        BY <4>1, <3>1, <1>2, <1>5 DEF Line
    <3>4. QED
      BY <3>2, <3>3
  <2>3. undo_history' # <<>> => Last(undo_history').after_document = Content(document')
    <3> SUFFICES ASSUME undo_history' # <<>>
                 PROVE  Last(undo_history').after_document = Content(document')
      OBVIOUS
    <3>1. n - 1 \in 1 .. n - 1
      BY <1>3, <1>4, EmptySeq
    <3>2. Last(undo_history') = undo_history[n - 1]
      BY <3>1, <1>4 DEF Last
    <3>3. undo_history[n - 1 + 1].before_document = undo_history[n - 1].after_document
      BY <3>1, <1>2 DEF Line
    <3>4. n - 1 + 1 = n
      BY <1>3
    <3>5. QED
      BY <3>2, <3>3, <3>4, <1>3, <1>7
  <2>4. redo_history' # <<>> => Last(redo_history').before_document = Content(document')
    BY <1>5, <1>7
  <2>5. QED
    BY <2>1, <2>2, <2>3, <2>4 DEF Line
<1>10. Stacks'
  BY <1>4, <1>5 DEF Stacks
<1>11. QED
  BY <1>7, <1>9, <1>10 DEF IInv

(* Redo keeps the invariant: its entry moves to the undo stack. *)
LEMMA RedoKeeps ==
  ASSUME IInv, NEW entry \in SoundEntries, RedoStep(entry)
  PROVE  IInv'
<1> DEFINE n == Len(undo_history)
           m == Len(redo_history)
<1>1. /\ redo_history # <<>> /\ entry = Last(redo_history)
      /\ undo_history' = Append(undo_history, entry)
      /\ redo_history' = Front(redo_history)
      /\ RestoresVersion(entry.after_document, entry.after_current, entry.after_token)
      /\ can_undo' = TRUE
      /\ can_redo' = (redo_history' # <<>>)
  BY DEF RedoStep
<1>2. /\ undo_history \in Seq(SoundEntries) /\ redo_history \in Seq(SoundEntries)
      /\ Line /\ Remembered
  BY DEF IInv, Stacks
<1>3. /\ m \in Nat \ {0} /\ n \in Nat
      /\ entry \in Range(redo_history) /\ entry = redo_history[m]
  BY <1>1, <1>2, PopElements, EmptySeq, LenProperties DEF Last
<1>4. /\ redo_history' \in Seq(SoundEntries) /\ Len(redo_history') = m - 1
      /\ \A i \in 1 .. m - 1 : redo_history'[i] = redo_history[i]
      /\ Range(redo_history') \subseteq Range(redo_history)
  BY <1>1, <1>2, PopElements
<1>5. /\ undo_history' \in Seq(SoundEntries) /\ Len(undo_history') = n + 1
      /\ \A i \in 1 .. n : undo_history'[i] = undo_history[i]
      /\ Last(undo_history') = entry
      /\ Range(undo_history') = Range(undo_history) \cup {entry}
  BY <1>1, <1>2, PushElements
<1>6. undo_history'[n + 1] = entry
  BY <1>5 DEF Last
<1>7. /\ Counters' /\ Showing' /\ Remembered' /\ CacheBounded'
      /\ Content(document') = entry.after_document
  <2>1. Known(entry)
    BY <1>2, <1>3 DEF Remembered
  <2>2. can_undo' \in BOOLEAN /\ can_redo' \in BOOLEAN
    BY <1>1
  <2>3. Range(undo_history') \cup Range(redo_history')
          \subseteq Range(undo_history) \cup Range(redo_history)
    BY <1>3, <1>4, <1>5
  <2>4. QED
    BY <1>1, <2>1, <2>2, <2>3, RestoreKeeps
<1>8. entry.before_document = Content(document)
  BY <1>1, <1>2 DEF Line
<1>9. Line'
  <2>1. ASSUME NEW i \in 1 .. Len(redo_history') - 1
        PROVE  redo_history'[i].before_document = redo_history'[i + 1].after_document
    <3>1. i \in 1 .. m - 1 /\ i + 1 \in 1 .. m - 1
      BY <1>3, <1>4
    <3>2. QED
      BY <3>1, <1>2, <1>4 DEF Line
  <2>2. ASSUME NEW i \in 1 .. Len(undo_history') - 1
        PROVE  undo_history'[i + 1].before_document = undo_history'[i].after_document
    <3>1. i \in 1 .. n
      BY <1>3, <1>5
    <3>2. CASE i = n
      <4>1. undo_history # <<>> /\ Last(undo_history) = undo_history[n]
        BY <1>2, <3>1, <3>2, EmptySeq DEF Last
      <4>2. undo_history[n].after_document = Content(document)
        BY <4>1, <1>2 DEF Line
      <4>3. QED
        BY <1>5, <1>6, <1>8, <3>1, <3>2, <4>2
    <3>3. CASE i # n
      <4>1. i \in 1 .. n - 1 /\ i + 1 \in 1 .. n
        BY <1>3, <3>1, <3>3
      <4>2. QED
        BY <4>1, <3>1, <1>2, <1>5 DEF Line
    <3>4. QED
      BY <3>2, <3>3
  <2>3. redo_history' # <<>> => Last(redo_history').before_document = Content(document')
    <3> SUFFICES ASSUME redo_history' # <<>>
                 PROVE  Last(redo_history').before_document = Content(document')
      OBVIOUS
    <3>1. m - 1 \in 1 .. m - 1
      BY <1>3, <1>4, EmptySeq
    <3>2. Last(redo_history') = redo_history[m - 1]
      BY <3>1, <1>4 DEF Last
    <3>3. redo_history[m - 1].before_document = redo_history[m - 1 + 1].after_document
      BY <3>1, <1>2 DEF Line
    <3>4. m - 1 + 1 = m
      BY <1>3
    <3>5. QED
      BY <3>2, <3>3, <3>4, <1>3, <1>7
  <2>4. undo_history' # <<>> => Last(undo_history').after_document = Content(document')
    BY <1>5, <1>7
  <2>5. QED
    BY <2>1, <2>2, <2>3, <2>4 DEF Line
<1>10. Stacks'
  BY <1>4, <1>5 DEF Stacks
<1>11. QED
  BY <1>7, <1>9, <1>10 DEF IInv

(* A position is only added to a cache that has room for it.                *)
LEMMA PositionAtBounded ==
  ASSUME CacheBounded, NEW id, PositionAt(id)
  PROVE  CacheBounded'
<1> DEFINE kept == IF Cardinality(DOMAIN position_cache) >= MaxPositionCacheEntries
                   THEN <<>> ELSE position_cache
           D == DOMAIN position_cache
           E == DOMAIN kept
<1>1. /\ MaxPositionCacheEntries # 0 /\ id \notin D
      /\ DOMAIN position_cache' = E \cup {id}
  BY DEF PositionAt
<1>2. IsFiniteSet(D) /\ Cardinality(D) \in Nat /\ Cardinality(D) <= MaxPositionCacheEntries
  BY FS_CardinalityType DEF CacheBounded
<1>3. IsFiniteSet(E) /\ Cardinality(E) \in Nat /\ Cardinality(E) < MaxPositionCacheEntries
  <2>1. CASE Cardinality(D) >= MaxPositionCacheEntries
    <3>1. E = {}
      BY <2>1
    <3> HIDE DEF E
    <3>2. IsFiniteSet(E) /\ Cardinality(E) = 0
      BY <3>1, FS_EmptySet
    <3>3. QED
      BY <3>2, <1>1, BoundsAssumption
  <2>2. CASE ~(Cardinality(D) >= MaxPositionCacheEntries)
    <3>1. E = D
      BY <2>2
    <3> HIDE DEF E, D
    <3>2. QED
      BY <3>1, <2>2, <1>2, BoundsAssumption
  <2>3. QED
    BY <2>1, <2>2
<1>4. id \notin E
  BY <1>1
<1> HIDE DEF E
<1>5. IsFiniteSet(E \cup {id}) /\ Cardinality(E \cup {id}) = Cardinality(E) + 1
  BY <1>3, <1>4, FS_AddElement
<1>6. Cardinality(E \cup {id}) <= MaxPositionCacheEntries
  BY <1>3, <1>5, BoundsAssumption
<1>7. QED
  BY <1>1, <1>5, <1>6 DEF CacheBounded

(* Every operation of the session keeps the invariant.                      *)
LEMMA NextIInv == IInv /\ [Next]_vars => IInv'
<1> SUFFICES ASSUME IInv, [Next]_vars
             PROVE  IInv'
  OBVIOUS
<1>0. Counters /\ Showing /\ Stacks /\ Line /\ Remembered /\ CacheBounded
  BY DEF IInv
<1>1. CASE \/ InsertMove \/ DeleteSubtree \/ ReplaceMove \/ ReorderVariation
           \/ SetAnnotations \/ SetMetadata \/ \E commands \in Compounds : Compound(commands)
  BY <1>0, <1>1, CommandsEdit, EditKeeps
<1>2. CASE Undo
  BY <1>0, <1>2, UndoIsStep, UndoKeeps
<1>3. CASE Redo
  BY <1>0, <1>3, RedoIsStep, RedoKeeps
<1>4. CASE \E id \in Ids(document.tree) : Checkout(id)
  <2>1. PICK id \in Ids(document.tree) : Checkout(id)
    BY <1>4
  <2>2. /\ current_node' \in Ids(document.tree)
        /\ revision < MaxRevision /\ revision' = revision + 1
        /\ UNCHANGED <<document, flags, tokens, undo_history, redo_history,
                       position_cache, published, checkpoint, used>>
    BY <2>1 DEF Checkout
  <2>3. Counters'
    <3>1. revision' \in 0 .. MaxRevision
      BY <1>0, <2>2, BoundsAssumption DEF Counters
    <3>2. QED
      BY <1>0, <2>2, <3>1 DEF Counters, flags, tokens
  <2>4. Showing' /\ Stacks' /\ Line'
    BY <1>0, <2>2 DEF Showing, Stacks, Line
  <2>5. Remembered' /\ CacheBounded'
    BY <1>0, <2>2 DEF Remembered, Known, CacheBounded, tokens
  <2>6. QED
    BY <2>3, <2>4, <2>5 DEF IInv
<1>5. CASE \E id \in Ids(document.tree) : PositionAt(id)
  <2>1. PICK id \in Ids(document.tree) : PositionAt(id)
    BY <1>5
  <2>2. UNCHANGED <<document, current_node, revision, flags, tokens,
                    undo_history, redo_history, published, checkpoint, used>>
    BY <2>1 DEF PositionAt
  <2>3. Counters'
    BY <1>0, <2>2 DEF Counters, flags, tokens
  <2>4. Showing' /\ Stacks' /\ Line'
    BY <1>0, <2>2 DEF Showing, Stacks, Line
  <2>5. Remembered'
    BY <1>0, <2>2 DEF Remembered, Known, tokens
  <2>6. CacheBounded'
    BY <1>0, <2>1, PositionAtBounded
  <2>7. QED
    BY <2>3, <2>4, <2>5, <2>6 DEF IInv
<1>6. CASE \E r \in 0 .. MaxRevision : MarkSaved(r)
  <2>1. /\ saved_document_token' = current_document_token
        /\ dirty' = FALSE
        /\ UNCHANGED <<document, current_node, revision, can_undo, can_redo,
                       current_document_token, next_document_token,
                       undo_history, redo_history, position_cache, published, used>>
    BY <1>6 DEF MarkSaved
  <2>2. Counters'
    <3>1. dirty' \in BOOLEAN
      BY <2>1
    <3>2. QED
      BY <1>0, <2>1, <3>1 DEF Counters
  <2>3. Showing' /\ Stacks' /\ Line'
    BY <1>0, <2>1 DEF Showing, Stacks, Line
  <2>4. Remembered' /\ CacheBounded'
    BY <1>0, <2>1 DEF Remembered, Known, CacheBounded
  <2>5. QED
    BY <2>2, <2>3, <2>4 DEF IInv
<1>7. CASE ClearHistory
  <2>1. /\ undo_history' = <<>> /\ redo_history' = <<>>
        /\ can_undo' = FALSE /\ can_redo' = FALSE
        /\ UNCHANGED <<document, current_node, revision, dirty, tokens,
                       position_cache, published, checkpoint, used>>
    BY <1>7 DEF ClearHistory
  <2>2. Counters'
    <3>1. can_undo' \in BOOLEAN /\ can_redo' \in BOOLEAN
      BY <2>1
    <3>2. QED
      BY <1>0, <2>1, <3>1 DEF Counters, tokens
  <2>3. Showing'
    BY <1>0, <2>1 DEF Showing
  <2>4. Stacks' /\ Line' /\ Range(undo_history') = {} /\ Range(redo_history') = {}
    BY <2>1, EmptySeq DEF Stacks, Line, Range
  <2>5. Remembered' /\ CacheBounded'
    BY <1>0, <2>1, <2>4 DEF Remembered, CacheBounded
  <2>6. QED
    BY <2>2, <2>3, <2>4, <2>5 DEF IInv
<1>8. CASE UNCHANGED vars
  <2>1. /\ UNCHANGED <<document, current_node, revision, undo_history, redo_history>>
        /\ UNCHANGED <<position_cache, published, checkpoint, used>>
        /\ UNCHANGED flags /\ UNCHANGED tokens
    BY <1>8 DEF vars
  <2>2. Counters'
    BY <1>0, <2>1 DEF Counters, flags, tokens
  <2>3. Showing' /\ Stacks' /\ Line'
    BY <1>0, <2>1 DEF Showing, Stacks, Line
  <2>4. Remembered' /\ CacheBounded'
    BY <1>0, <2>1 DEF Remembered, Known, CacheBounded, tokens
  <2>5. QED
    BY <2>2, <2>3, <2>4 DEF IInv
<1>9. QED
  BY <1>1, <1>2, <1>3, <1>4, <1>5, <1>6, <1>7, <1>8 DEF Next

(* The inductive invariant of a session with real documents: every entry of *)
(* both stacks is sound, they form one line of documents through the        *)
(* current one (EditorSession::execute, undo and redo).                     *)
THEOREM SessionInvariant == Spec => []IInv
BY InitIInv, NextIInv, PTL DEF Spec

-----------------------------------------------------------------------------
(* What follows for every session *)

(* The invariant implies the types. *)
LEMMA TypeFromInvariant == IInv => TypeOK
<1> SUFFICES ASSUME IInv
             PROVE  TypeOK
  OBVIOUS
<1>1. Counters /\ Showing /\ Stacks /\ Remembered /\ CacheBounded
  BY DEF IInv
<1>2. /\ WellFormed(document.tree) /\ document.metadata \in Metadata
      /\ current_node \in Ids(document.tree)
  BY <1>1 DEF Showing, Proper, Valid, Structural, DocumentRecords
<1>3. Range(tokens) \subseteq Nat
  <2>1. /\ current_document_token \in Nat /\ saved_document_token \in Nat
        /\ next_document_token \in Nat
    BY <1>1 DEF Counters
  <2>2. tokens \in Seq(Nat)
    BY <2>1 DEF tokens
  <2>3. QED
    BY <2>2, LenProperties, ElementOfSeq DEF Range
<1>4. ASSUME NEW entry \in Range(undo_history) \cup Range(redo_history)
      PROVE  EntryOK(entry)
  <2>1. entry \in SoundEntries
    BY <1>1, LenProperties, ElementOfSeq DEF Stacks, Range
  <2>2. Known(entry)
    BY <1>1 DEF Remembered
  <2>3. /\ entry.kind \in Kinds
        /\ entry.before_token \in Nat /\ entry.after_token \in Nat
    BY <2>1 DEF SoundEntries, Sound, EntryRecords
  <2>4. next_document_token \in Nat
    BY <1>1 DEF Counters
  <2>5. {entry.before_token, entry.after_token} \subseteq 0 .. next_document_token - 1
    BY <2>2, <2>3, <2>4 DEF Known
  <2>6. {entry.before_current, entry.after_current, entry.root, entry.parent} \subseteq used
    BY <2>1, <2>2, EntryContents DEF Known
  <2>7. QED
    BY <2>3, <2>5, <2>6 DEF EntryOK, Kinds
<1>5. {dirty, can_undo, can_redo} \subseteq BOOLEAN
  BY <1>1 DEF Counters
<1>6. revision \in 0 .. MaxRevision /\ used \subseteq 0 .. MaxNodeId
  BY <1>1 DEF Counters, Remembered, NodeIds
<1>7. Cardinality(DOMAIN position_cache) <= MaxPositionCacheEntries
  BY <1>1 DEF CacheBounded
<1>8. QED
  BY <1>2, <1>3, <1>4, <1>5, <1>6, <1>7 DEF TypeOK

(* Whatever commands, undo and redo do, the tree stays well formed, the     *)
(* selection is a node of it, the entries name nodes the session has had    *)
(* and the cache stays within its bound.                                    *)
THEOREM SessionTyped == Spec => []TypeOK
BY SessionInvariant, TypeFromInvariant, PTL

(* An empty cache is sound.                                                 *)
LEMMA InitCache == Init => CacheSound
BY DEF Init, CacheSound

(* No step leaves a position in the cache that has changed.                 *)
LEMMA NextCache == IInv /\ CacheSound /\ [Next]_vars => CacheSound'
<1> SUFFICES ASSUME IInv, CacheSound, [Next]_vars
             PROVE  CacheSound'
  OBVIOUS
<1>0. Counters /\ Showing /\ Stacks /\ Line
  BY DEF IInv
<1>1. CASE \/ InsertMove \/ DeleteSubtree \/ ReplaceMove \/ ReorderVariation
           \/ SetAnnotations \/ SetMetadata \/ \E commands \in Compounds : Compound(commands)
  <2>1. EditStep
    BY <1>0, <1>1, CommandsEdit
  <2>2. QED
    BY <2>1 DEF EditStep
<1>2. CASE Undo
  BY <1>0, <1>2, UndoIsStep DEF UndoStep, RestoresVersion
<1>3. CASE Redo
  BY <1>0, <1>3, RedoIsStep DEF RedoStep, RestoresVersion
<1>4. CASE \E id \in Ids(document.tree) : PositionAt(id)
  <2>1. PICK id \in Ids(document.tree) : PositionAt(id)
    BY <1>4
  <2> DEFINE kept == IF Cardinality(DOMAIN position_cache) >= MaxPositionCacheEntries
                     THEN <<>> ELSE position_cache
  <2>2. /\ position_cache' = [node \in DOMAIN kept \cup {id} |->
                                 IF node = id THEN PositionOf(document, id) ELSE kept[node]]
        /\ document' = document
    BY <2>1 DEF PositionAt
  <2>3. \A node \in DOMAIN kept :
          node \in Ids(document.tree) /\ kept[node] = PositionOf(document, node)
    BY DEF CacheSound
  <2> HIDE DEF kept
  <2>4. QED
    BY <2>2, <2>3 DEF CacheSound
<1>5. CASE \/ \E id \in Ids(document.tree) : Checkout(id)
           \/ \E r \in 0 .. MaxRevision : MarkSaved(r)
           \/ ClearHistory
           \/ UNCHANGED vars
  <2>1. UNCHANGED <<document, position_cache>>
    BY <1>5 DEF Checkout, MarkSaved, ClearHistory, vars
  <2>2. QED
    BY <2>1 DEF CacheSound
<1>6. QED
  BY <1>1, <1>2, <1>3, <1>4, <1>5 DEF Next

(* position_at never returns a stale position: whatever commands, undo and  *)
(* redo changed above a node since its position was computed, a position    *)
(* that is still in the cache is the one compute_position would find now.   *)
THEOREM CachedPositionsTrue == Spec => []CacheSound
BY InitCache, NextCache, SessionInvariant, PTL DEF Spec

(* LenientPositions are the positions that validate_state sees.             *)
LEMMA LenientReplay ==
  ASSUME document \in DocumentRecords, WellFormed(document.tree)
  PROVE  Replays("lenient", LenientPositions, document.tree, Ids(document.tree))
<1> DEFINE tree == document.tree
           obstructed(at, move) ==
             \/ at.board[move.from] = None
             \/ at.board[move.to] # None /\ at.board[move.to].side = at.board[move.from].side
           Is(g) == g = [id \in Ids(tree) |->
                           IF id = Root THEN InitialPosition
                           ELSE LET node == Node(tree, id)
                                    above == g[node.parent]
                                IN  IF above = NoPosition \/ obstructed(above, node.move)
                                    THEN NoPosition ELSE Play(above, node.move)]
           at == CHOOSE g : Is(g)
<1>1. tree \in Trees /\ WellFormed(tree) /\ Root \in Ids(tree)
  BY TreeShape DEF DocumentRecords
<1>2. PICK g : Replays("lenient", g, tree, Ids(tree))
  BY <1>1, ReplayExists
<1>3. \A position, move : obstructed(position, move) <=> Obstructed(position, move)
  BY DEF Obstructed
<1>4. LenientPositions = at
  BY DEF LenientPositions
<1> HIDE DEF obstructed
<1>5. Is(g)
  <2> DEFINE body(id) == IF id = Root THEN InitialPosition
                         ELSE Following("lenient", g[Node(tree, id).parent], Node(tree, id).move)
  <2>1. \A id \in Ids(tree) : g[id] = body(id)
    BY <1>1, <1>2 DEF Replays
  <2>2. g = [id \in Ids(tree) |-> g[id]]
    BY <1>2 DEF Replays
  <2>3. g = [id \in Ids(tree) |-> body(id)]
    <3> HIDE DEF body, tree
    <3>1. QED
      BY <2>1, <2>2
  <2>4. QED
    BY <2>3, <1>3 DEF Following, Allowed
<1>6. Is(at)
  BY <1>5
<1> HIDE DEF at
<1>7. \A id \in Ids(tree) \ {Root} :
         at[id] = Following("lenient", at[Node(tree, id).parent], Node(tree, id).move)
  BY <1>3, <1>6 DEF Following, Allowed
<1>8. at = [id \in Ids(tree) |-> at[id]] /\ at[Root] = InitialPosition
  BY <1>1, <1>6
<1>9. \A id \in Ids(tree) \ {Root} : Node(tree, id).parent \in Ids(tree)
  BY <1>1, TreeShape
<1>10. QED
  BY <1>4, <1>7, <1>8, <1>9 DEF Replays

(* What validate_state reports is right for every valid document.           *)
LEMMA ReportsFromInvariant == IInv => StateValidationSound
<1> SUFFICES ASSUME IInv
             PROVE  StateValidationSound
  OBVIOUS
<1> DEFINE at == LenientPositions
           w == ValidateState(document)
<1>1. document \in DocumentRecords /\ Structural(document) /\ WellFormed(document.tree)
  BY DEF IInv, Showing, Proper, Valid, Structural
<1>2. Replays("lenient", at, document.tree, Ids(document.tree))
  BY <1>1, LenientReplay
<1> HIDE DEF at
<1>3. /\ Range(w.issues) =
           {issue \in [code : Codes, node : Ids(document.tree) \ {Root}] :
              Has(at, document.tree, issue.node, issue.code)}
      /\ IsInjective(w.issues)
      /\ w.stack = <<>> /\ w.board = InitialBoard /\ w.side_to_move = InitialSide
      /\ w.issues = <<>> <=>
           \A id \in Ids(document.tree) : Positions(document)[id] # NoPosition
  BY <1>1, <1>2, ValidationReports
<1>4. QED
  BY <1>3 DEF StateValidationSound, at, Has, Codes

(* validate_state, with one board that it plays on and takes back on, finds *)
(* for every node what replaying the line to it alone would find, reports   *)
(* each issue once, ends with the board as it began, and accepts exactly    *)
(* the documents in which every node has a position.                        *)
THEOREM ValidationSound == Spec => []StateValidationSound
BY SessionInvariant, ReportsFromInvariant, PTL

(* Every document of a session is one that variation_graph can be asked of.  *)
LEMMA ListsFromInvariant == IInv => ProjectionFaithful
<1> SUFFICES ASSUME IInv,
                    NEW from \in Ids(document.tree),
                    NEW most \in 0 .. MaxProjectedNodes, NEW deep \in 0 .. MaxProjectedDepth
             PROVE  LET tree == document.tree
                        graph == VariationGraph(tree, current_node,
                                   [from |-> from, max_nodes |-> most, max_depth |-> deep])
                        shown == [i \in DOMAIN graph.nodes |-> graph.nodes[i].id]
                        within == {id \in Subtree(tree, from) :
                                     Len(PathTo(tree, id)) - Len(PathTo(tree, from)) <= deep}
                    IN  /\ Range(shown) \subseteq within
                        /\ \A i, j \in DOMAIN shown : i < j => Precedes(tree, shown[i], shown[j])
                        /\ \A id \in within \ Range(shown) :
                             /\ Len(shown) = most
                             /\ \A i \in DOMAIN shown : Precedes(tree, shown[i], id)
                        /\ graph.truncated <=> Range(shown) # Subtree(tree, from)
                        /\ \A i \in DOMAIN graph.edges :
                             /\ \E k \in 1 .. i : shown[k] = graph.edges[i].parent
                             /\ graph.edges[i].child \in
                                  Range(Children(tree, graph.edges[i].parent))
                        /\ \A i \in DOMAIN shown :
                             graph.nodes[i].on_current_path <=>
                               current_node \in Subtree(tree, shown[i])
  BY DEF ProjectionFaithful
<1> DEFINE tree == document.tree
           query == [from |-> from, max_nodes |-> most, max_depth |-> deep]
<1>1. document \in DocumentRecords /\ WellFormed(tree) /\ current_node \in Ids(tree)
  BY DEF IInv, Showing, Proper, Valid, Structural
<1>2. most \in Nat /\ deep \in Nat
  BY BoundsAssumption
<1>3. query.from = from /\ query.max_nodes = most /\ query.max_depth = deep
  OBVIOUS
<1>4. Answerable(tree, query)
  BY <1>1, <1>2, <1>3 DEF Answerable, DocumentRecords
<1>5. Within(tree, query) = {id \in Subtree(tree, from) :
                               Len(PathTo(tree, id)) - Len(PathTo(tree, from)) <= deep}
  BY <1>3 DEF Within
<1> HIDE DEF query
<1> DEFINE graph == VariationGraph(tree, current_node, query)
           shown == [i \in DOMAIN graph.nodes |-> graph.nodes[i].id]
           within == Within(tree, query)
<1>6. /\ Range(shown) \subseteq within
      /\ \A i, j \in DOMAIN shown : i < j => Precedes(tree, shown[i], shown[j])
      /\ \A id \in within \ Range(shown) :
           /\ Len(shown) = query.max_nodes
           /\ \A i \in DOMAIN shown : Precedes(tree, shown[i], id)
      /\ graph.truncated <=> Range(shown) # Subtree(tree, query.from)
      /\ \A i \in DOMAIN graph.edges :
           /\ \E k \in 1 .. i : shown[k] = graph.edges[i].parent
           /\ graph.edges[i].child \in Range(Children(tree, graph.edges[i].parent))
      /\ \A i \in DOMAIN shown :
           graph.nodes[i].on_current_path <=> current_node \in Subtree(tree, shown[i])
  BY <1>1, <1>4, ProjectionLists
<1>7. QED
  BY <1>3, <1>5, <1>6 DEF query

(* A projection lists the nodes within the limits in the order of the tree, *)
(* from its first node on without a gap, each after its parent; it says     *)
(* truncated exactly when a node of the subtree is missing, and it marks    *)
(* the part of the current line that it shows.                              *)
THEOREM ProjectionsFaithful == Spec => []ProjectionFaithful
BY SessionInvariant, ListsFromInvariant, PTL

(* A sound entry on top of a stack that ends at the document can be         *)
(* applied.                                                                 *)
LEMMA NeverStuck == IInv => HistoryNeverStuck
<1> SUFFICES ASSUME IInv
             PROVE  HistoryNeverStuck
  OBVIOUS
<1>1. Showing /\ Stacks /\ Line
  BY DEF IInv
<1>2. \A version, content, current, changes :
        Leads(version, content, current, document, changes) => Valid(version)
  BY DEF Leads, Proper
<1>3. QED
  BY <1>1, <1>2, TopEntries DEF HistoryNeverStuck

(* Undo and redo never end in internal_invariant: from every state the      *)
(* session can reach, the inverse data on top of each stack fits the        *)
(* document and gives a valid one, for every tree, board, policy and limit. *)
THEOREM UndoNeverStuck == Spec => []HistoryNeverStuck
BY SessionInvariant, NeverStuck, PTL

(* The documents of a session all descend from the first by commands that   *)
(* keep moves distinct.                                                     *)
LEMMA DistinctKept ==
  ASSUME DistinctMoves(InitialDocument.tree)
  PROVE  IInv => NoDuplicateMoves
BY DEF IInv, Showing, Proper, Clean, NoDuplicateMoves

(* A document opened without two equal moves under one node never gets any, *)
(* by commands, undo or redo.                                               *)
THEOREM MovesStayDistinct ==
  ASSUME DistinctMoves(InitialDocument.tree)
  PROVE  Spec => []NoDuplicateMoves
<1>1. IInv => NoDuplicateMoves
  BY DistinctKept
<1>2. QED
  BY <1>1, SessionInvariant, PTL

(* Every step that changes the document publishes what changed. *)
LEMMA ChangesAnnounced ==
  IInv /\ [Next]_vars
    => (document' # document => AnnouncesChanges(document, document', published'))
<1> SUFFICES ASSUME IInv, [Next]_vars, document' # document
             PROVE  AnnouncesChanges(document, document', published')
  OBVIOUS
<1>0. Counters /\ Showing /\ Stacks /\ Line
  BY DEF IInv
<1>1. CASE \/ InsertMove \/ DeleteSubtree \/ ReplaceMove \/ ReorderVariation
           \/ SetAnnotations \/ SetMetadata \/ \E commands \in Compounds : Compound(commands)
  BY <1>0, <1>1, CommandsEdit DEF EditStep, Leads
<1>2. CASE Undo
  BY <1>0, <1>2, UndoIsStep DEF UndoStep, RestoresVersion, Leads
<1>3. CASE Redo
  BY <1>0, <1>3, RedoIsStep DEF RedoStep, RestoresVersion, Leads
<1>4. CASE \/ \E id \in Ids(document.tree) : Checkout(id)
           \/ \E id \in Ids(document.tree) : PositionAt(id)
           \/ \E r \in 0 .. MaxRevision : MarkSaved(r)
           \/ ClearHistory
           \/ UNCHANGED vars
  BY <1>4 DEF Checkout, PositionAt, MarkSaved, ClearHistory, vars
<1>5. QED
  BY <1>1, <1>2, <1>3, <1>4 DEF Next

(* A client that applies the change sets it is given always has the ids of  *)
(* the document, and it learns of every node that differs, after commands,  *)
(* compounds, undo and redo alike.                                          *)
THEOREM ClientsInformed == Spec => ChangeSetsComplete
<1>1. IInv /\ [Next]_vars
        => [document' # document => AnnouncesChanges(document, document', published')]_vars
  BY ChangesAnnounced
<1>2. QED
  BY <1>1, SessionInvariant, PTL DEF Spec, ChangeSetsComplete

-----------------------------------------------------------------------------
(* Node ids the history can bring back                                      *)

(* The ids of the documents before the first k entries, and before the      *)
(* entries after them.                                                      *)
Past(history, k) == UNION {ContentIds(history[i].before_document) : i \in 1 .. k}
Ahead(history, k) ==
  UNION {ContentIds(history[i].before_document) : i \in k + 1 .. Len(history)}

(* The next id is above the ids of every document that undo leads to, and   *)
(* it will be in all of them: every entry is steady for the ids of the      *)
(* documents before it.                                                     *)
NextUnused ==
  LET before == Past(undo_history, Len(undo_history))
  IN  /\ Fresh(document.tree.next, before \cup Ids(document.tree))
      /\ \A k \in 1 .. Len(undo_history) :
           Steady(undo_history[k], Past(undo_history, k - 1))
      /\ \A k \in 1 .. Len(redo_history) :
           Steady(redo_history[k], before \cup Ahead(redo_history, k))

(* Histories that agree on some entries have the same documents before them. *)
LEMMA PastAgrees ==
  ASSUME NEW h, NEW g, NEW k, \A i \in 1 .. k : h[i] = g[i]
  PROVE  Past(h, k) = Past(g, k)
BY DEF Past

(* Ids of documents are ids of nodes.                                       *)
LEMMA PastTyped ==
  ASSUME NEW h \in Seq(SoundEntries), NEW k, k \in 0 .. Len(h)
  PROVE  Past(h, k) \subseteq NodeIds /\ Ahead(h, k) \subseteq NodeIds
<1>1. Len(h) \in Nat
  BY LenProperties
<1>2. ASSUME NEW i \in 1 .. Len(h)
      PROVE  ContentIds(h[i].before_document) \subseteq NodeIds
  <2>1. h[i] \in SoundEntries
    BY ElementOfSeq
  <2>2. PICK d \in DocumentRecords : Content(d) = h[i].before_document
    BY <2>1 DEF SoundEntries, Sound, Between
  <2>3. Ids(d.tree) \subseteq NodeIds
    BY IdsTyped DEF DocumentRecords
  <2>4. QED
    BY <2>2, <2>3, ContentIdsAre
<1>3. 1 .. k \subseteq 1 .. Len(h) /\ k + 1 .. Len(h) \subseteq 1 .. Len(h)
  BY <1>1
<1>4. QED
  BY <1>2, <1>3 DEF Past, Ahead

(* One more document.                                                       *)
LEMMA PastGrows ==
  ASSUME NEW h, NEW n \in Nat
  PROVE  Past(h, n + 1) = Past(h, n) \cup ContentIds(h[n + 1].before_document)
<1>1. 1 .. n + 1 = 1 .. n \cup {n + 1}
  OBVIOUS
<1>2. QED
  BY <1>1 DEF Past

(* An entry on top of a stack is ahead of all that are below it.            *)
LEMMA AheadGrows ==
  ASSUME NEW h, NEW g, NEW n \in Nat, Len(h) = n + 1, Len(g) = n,
         \A i \in 1 .. n : h[i] = g[i]
  PROVE  /\ Ahead(h, n + 1) = {}
         /\ \A k \in 1 .. n :
              Ahead(h, k) = Ahead(g, k) \cup ContentIds(h[n + 1].before_document)
<1>1. n + 1 + 1 .. n + 1 = {}
  OBVIOUS
<1>2. ASSUME NEW k \in 1 .. n
      PROVE  Ahead(h, k) = Ahead(g, k) \cup ContentIds(h[n + 1].before_document)
  <2>1. k + 1 .. n + 1 = k + 1 .. n \cup {n + 1} /\ k + 1 .. n \subseteq 1 .. n
    OBVIOUS
  <2>2. QED
    BY <2>1 DEF Ahead
<1>3. QED
  BY <1>1, <1>2 DEF Ahead

(* What open_document accepted has no history.                              *)
LEMMA InitUnused == Init => NextUnused
<1> SUFFICES ASSUME Init
             PROVE  NextUnused
  OBVIOUS
<1>1. undo_history = <<>> /\ redo_history = <<>>
  BY DEF Init
<1>2. Len(undo_history) = 0 /\ Len(redo_history) = 0 /\ Past(undo_history, 0) = {}
  BY <1>1, EmptySeq DEF Past
<1>3. Fresh(document.tree.next, Past(undo_history, 0) \cup Ids(document.tree))
  <2>1. Fresh(document.tree.next, Ids(document.tree))
    BY InitIInv DEF IInv, Showing, FreshNext
  <2>2. QED
    BY <2>1, <1>2
<1>4. 1 .. Len(undo_history) = {} /\ 1 .. Len(redo_history) = {}
  BY <1>2
<1>5. QED
  BY <1>2, <1>3, <1>4 DEF NextUnused

(* A command gives its new nodes ids that undo cannot bring back, and       *)
(* leaves a next id above all of them.                                      *)
LEMMA EditUnused ==
  ASSUME IInv, NextUnused, EditStep
  PROVE  /\ NextUnused'
         /\ (Ids(document'.tree) \ Ids(document.tree))
              \cap Past(undo_history, Len(undo_history)) = {}
<1> DEFINE n == Len(undo_history)
           m == Len(undo_history')
           ids == Past(undo_history, n) \cup Ids(document.tree)
<1>1. PICK e \in SoundEntries :
        /\ StoreHistory(e)
        /\ e.before_document = Content(document)
        /\ GrowsFresh(e, document, document')
  BY DEF EditStep
<1>2. /\ undo_history \in Seq(SoundEntries) /\ n \in Nat
      /\ document \in DocumentRecords
  BY LenProperties DEF IInv, Stacks, Showing, Proper
<1>3. PICK j \in 1 .. n + 1 :
        /\ undo_history' \in Seq(SoundEntries)
        /\ m = n + 2 - j
        /\ undo_history'[m] = e
        /\ \A i \in 1 .. m - 1 : undo_history'[i] = undo_history[i + j - 1]
        /\ redo_history' = <<>>
  BY <1>1, <1>2, StoreStacks
<1>4. /\ Fresh(document.tree.next, ids)
      /\ \A k \in 1 .. n : Steady(undo_history[k], Past(undo_history, k - 1))
  BY DEF NextUnused
<1>5. ids \in SUBSET NodeIds /\ Ids(document.tree) \subseteq ids
  <2>1. Past(undo_history, n) \subseteq NodeIds
    BY <1>2, PastTyped
  <2>2. Ids(document.tree) \subseteq NodeIds
    BY <1>2, IdsTyped DEF DocumentRecords
  <2>3. QED
    BY <2>1, <2>2
<1>6. /\ Fresh(document'.tree.next, ids \cup Ids(document'.tree))
      /\ (Ids(document'.tree) \ Ids(document.tree)) \cap ids = {}
      /\ Steady(e, ids)
  BY <1>1, <1>4, <1>5 DEF GrowsFresh
<1>7. ContentIds(e.before_document) = Ids(document.tree)
  BY <1>1, ContentIdsAre
<1>8. m \in Nat \ {0} /\ m - 1 \in Nat
  BY <1>2, <1>3
<1>9. ASSUME NEW k \in 0 .. m - 1
      PROVE  Past(undo_history', k) \subseteq Past(undo_history, k + j - 1)
  <2>1. \A i \in 1 .. k : /\ i + j - 1 \in 1 .. k + j - 1
                          /\ undo_history'[i] = undo_history[i + j - 1]
    BY <1>2, <1>3, <1>8
  <2>2. QED
    BY <2>1 DEF Past
<1>10. Past(undo_history', m - 1) \subseteq ids /\ Past(undo_history', m) \subseteq ids
  <2>1. m - 1 \in 0 .. m - 1 /\ m - 1 + j - 1 = n /\ m - 1 + 1 = m
    BY <1>2, <1>3, <1>8
  <2>2. Past(undo_history', m - 1) \subseteq Past(undo_history, n)
    BY <2>1, <1>9
  <2>3. Past(undo_history', m)
          = Past(undo_history', m - 1) \cup ContentIds(undo_history'[m].before_document)
    BY <2>1, <1>8, PastGrows
  <2>4. QED
    BY <2>2, <2>3, <1>3, <1>7
<1>11. Fresh(document'.tree.next, Past(undo_history', m) \cup Ids(document'.tree))
  BY <1>6, <1>10, FreshSubset
<1>12. ASSUME NEW k \in 1 .. m
       PROVE  Steady(undo_history'[k], Past(undo_history', k - 1))
  <2>1. CASE k = m
    BY <2>1, <1>3, <1>6, <1>10, SteadySubset
  <2>2. CASE k # m
    <3>1. /\ k \in 1 .. m - 1 /\ k - 1 \in 0 .. m - 1
          /\ k + j - 1 \in 1 .. n /\ k - 1 + j - 1 = k + j - 1 - 1
      BY <1>2, <1>3, <1>8, <2>2
    <3>2. Steady(undo_history[k + j - 1], Past(undo_history, k + j - 1 - 1))
      BY <1>4, <3>1
    <3>3. Past(undo_history', k - 1) \subseteq Past(undo_history, k + j - 1 - 1)
      BY <1>9, <3>1
    <3>4. QED
      BY <3>1, <3>2, <3>3, <1>3, SteadySubset
  <2>3. QED
    BY <2>1, <2>2
<1>13. Len(redo_history') = 0
  BY <1>3, EmptySeq
<1>14. NextUnused'
  BY <1>11, <1>12, <1>13 DEF NextUnused
<1>15. QED
  BY <1>6, <1>14

(* Undo: the document before the entry is no longer behind the one that is  *)
(* shown, it is that one.                                                   *)
LEMMA UndoUnused ==
  ASSUME IInv, NextUnused, NEW entry \in SoundEntries, UndoStep(entry)
  PROVE  NextUnused'
<1> DEFINE n == Len(undo_history) - 1
           m == Len(redo_history)
           before == Past(undo_history, n)
<1>1. /\ undo_history # <<>> /\ entry = Last(undo_history)
      /\ undo_history' = Front(undo_history)
      /\ redo_history' = Append(redo_history, entry)
      /\ document' = Reverted(document, entry)
  BY DEF UndoStep
<1>2. /\ undo_history \in Seq(SoundEntries) /\ redo_history \in Seq(SoundEntries)
      /\ document \in DocumentRecords /\ entry.after_document = Content(document)
  BY <1>1 DEF IInv, Stacks, Showing, Proper, Line
<1>3. /\ Len(undo_history) = n + 1 /\ n \in Nat /\ m \in Nat
      /\ entry = undo_history[n + 1]
  <2>1. Len(undo_history) \in Nat \ {0} /\ m \in Nat
    BY <1>1, <1>2, EmptySeq, LenProperties
  <2>2. entry = undo_history[Len(undo_history)]
    BY <1>1 DEF Last
  <2>3. QED
    BY <2>1, <2>2
<1>4. Len(undo_history') = n /\ \A i \in 1 .. n : undo_history'[i] = undo_history[i]
  BY <1>1, <1>2, PopElements
<1>5. /\ Len(redo_history') = m + 1 /\ Last(redo_history') = entry
      /\ \A i \in 1 .. m : redo_history'[i] = redo_history[i]
  BY <1>1, <1>2, PushElements
<1>6. redo_history'[m + 1] = entry
  BY <1>5 DEF Last
<1> HIDE DEF n, m
<1>7. Past(undo_history, n + 1) = before \cup ContentIds(entry.before_document)
  BY <1>3, PastGrows
<1>8. /\ Fresh(document.tree.next, Past(undo_history, n + 1) \cup Ids(document.tree))
      /\ \A k \in 1 .. n + 1 : Steady(undo_history[k], Past(undo_history, k - 1))
      /\ \A k \in 1 .. m :
           Steady(redo_history[k], Past(undo_history, n + 1) \cup Ahead(redo_history, k))
  BY <1>3 DEF NextUnused, m
<1>9. Steady(entry, before)
  <2>1. n + 1 \in 1 .. n + 1 /\ n + 1 - 1 = n
    BY <1>3
  <2>2. QED
    BY <2>1, <1>3, <1>8
<1>10. ASSUME NEW k \in 0 .. n
       PROVE  Past(undo_history', k) = Past(undo_history, k)
  <2>1. \A i \in 1 .. k : undo_history'[i] = undo_history[i]
    BY <1>3, <1>4
  <2>2. QED
    BY <2>1, PastAgrees
<1>11. Past(undo_history', n) = before
  BY <1>3, <1>10
<1>12. Fresh(document'.tree.next, before \cup Ids(document'.tree))
  <2>1. before \in SUBSET NodeIds
    <3>1. n \in 0 .. Len(undo_history)
      BY <1>3
    <3>2. QED
      BY <3>1, <1>2, PastTyped
  <2>2. Fresh(document.tree.next,
              before \cup ContentIds(entry.before_document) \cup Ids(document.tree))
    BY <1>7, <1>8
  <2> HIDE DEF before
  <2>3. QED
    BY <2>1, <2>2, <1>1, <1>2, <1>9, SteadyUndone
<1>13. \A k \in 1 .. n : Steady(undo_history'[k], Past(undo_history', k - 1))
  <2> TAKE k \in 1 .. n
  <2>1. k \in 1 .. n + 1 /\ k - 1 \in 0 .. n
    BY <1>3
  <2>2. QED
    BY <2>1, <1>4, <1>8, <1>10
<1>14. ASSUME NEW k \in 1 .. m + 1
       PROVE  Steady(redo_history'[k], before \cup Ahead(redo_history', k))
  <2>1. /\ Ahead(redo_history', m + 1) = {}
        /\ \A i \in 1 .. m :
             Ahead(redo_history', i)
               = Ahead(redo_history, i) \cup ContentIds(redo_history'[m + 1].before_document)
    <3>1. Len(redo_history) = m
      BY DEF m
    <3>2. QED
      BY <3>1, <1>3, <1>5, AheadGrows
  <2>2. CASE k = m + 1
    BY <2>1, <2>2, <1>6, <1>9
  <2>3. CASE k # m + 1
    <3>1. k \in 1 .. m
      BY <1>3, <2>3
    <3>2. before \cup Ahead(redo_history', k)
            = Past(undo_history, n + 1) \cup Ahead(redo_history, k)
      BY <2>1, <3>1, <1>6, <1>7
    <3>3. QED
      BY <3>1, <3>2, <1>5, <1>8
  <2>4. QED
    BY <2>2, <2>3
<1>15. QED
  BY <1>4, <1>5, <1>11, <1>12, <1>13, <1>14 DEF NextUnused

(* Redo: the document that was shown is behind the one that is.             *)
LEMMA RedoUnused ==
  ASSUME IInv, NextUnused, NEW entry \in SoundEntries, RedoStep(entry)
  PROVE  NextUnused'
<1> DEFINE n == Len(undo_history)
           m == Len(redo_history) - 1
           before == Past(undo_history, n)
<1>1. /\ redo_history # <<>> /\ entry = Last(redo_history)
      /\ undo_history' = Append(undo_history, entry)
      /\ redo_history' = Front(redo_history)
      /\ document' = Reapplied(document, entry)
  BY DEF RedoStep
<1>2. /\ undo_history \in Seq(SoundEntries) /\ redo_history \in Seq(SoundEntries)
      /\ document \in DocumentRecords /\ entry.before_document = Content(document)
  BY <1>1 DEF IInv, Stacks, Showing, Proper, Line
<1>3. /\ Len(redo_history) = m + 1 /\ n \in Nat /\ m \in Nat
      /\ entry = redo_history[m + 1]
  <2>1. Len(redo_history) \in Nat \ {0} /\ n \in Nat
    BY <1>1, <1>2, EmptySeq, LenProperties
  <2>2. entry = redo_history[Len(redo_history)]
    BY <1>1 DEF Last
  <2>3. QED
    BY <2>1, <2>2
<1>4. Len(redo_history') = m /\ \A i \in 1 .. m : redo_history'[i] = redo_history[i]
  BY <1>1, <1>2, PopElements
<1>5. /\ Len(undo_history') = n + 1 /\ Last(undo_history') = entry
      /\ \A i \in 1 .. n : undo_history'[i] = undo_history[i]
  BY <1>1, <1>2, PushElements
<1>6. undo_history'[n + 1] = entry
  BY <1>5 DEF Last
<1>a. before \in SUBSET NodeIds
  BY <1>2, <1>3, PastTyped
<1> HIDE DEF m
<1>7. /\ Fresh(document.tree.next, before \cup Ids(document.tree))
      /\ \A k \in 1 .. n : Steady(undo_history[k], Past(undo_history, k - 1))
      /\ \A k \in 1 .. m + 1 : Steady(redo_history[k], before \cup Ahead(redo_history, k))
  BY <1>3 DEF NextUnused
<1> HIDE DEF n
<1>8. /\ Ahead(redo_history, m + 1) = {}
      /\ \A k \in 1 .. m :
           Ahead(redo_history, k)
             = Ahead(redo_history', k) \cup ContentIds(entry.before_document)
  <2>1. \A i \in 1 .. m : redo_history[i] = redo_history'[i]
    BY <1>4
  <2>2. QED
    BY <2>1, <1>3, <1>4, AheadGrows
<1>9. Steady(entry, before)
  <2>1. m + 1 \in 1 .. m + 1
    BY <1>3
  <2>2. Steady(entry, before \cup {})
    BY <2>1, <1>3, <1>7, <1>8
  <2>3. QED
    BY <2>2
<1>10. ASSUME NEW k \in 0 .. n
       PROVE  Past(undo_history', k) = Past(undo_history, k)
  <2>1. \A i \in 1 .. k : undo_history'[i] = undo_history[i]
    BY <1>3, <1>5
  <2>2. QED
    BY <2>1, PastAgrees
<1>11. Past(undo_history', n + 1) = before \cup ContentIds(entry.before_document)
  <2>1. Past(undo_history', n) = before
    BY <1>3, <1>10
  <2>2. QED
    BY <2>1, <1>3, <1>6, PastGrows
<1>12. Fresh(document'.tree.next, Past(undo_history', n + 1) \cup Ids(document'.tree))
  <2> HIDE DEF before
  <2>1. Fresh(document'.tree.next,
              before \cup ContentIds(entry.before_document) \cup Ids(document'.tree))
    BY <1>a, <1>1, <1>2, <1>7, <1>9, SteadyRedone
  <2>2. QED
    BY <2>1, <1>11
<1>13. ASSUME NEW k \in 1 .. n + 1
       PROVE  Steady(undo_history'[k], Past(undo_history', k - 1))
  <2>1. k - 1 \in 0 .. n
    BY <1>3
  <2>2. CASE k = n + 1
    <3>1. k - 1 = n
      BY <2>2, <1>3
    <3>2. QED
      BY <2>1, <2>2, <3>1, <1>6, <1>9, <1>10
  <2>3. CASE k # n + 1
    <3>1. k \in 1 .. n
      BY <1>3, <2>3
    <3>2. QED
      BY <2>1, <3>1, <1>5, <1>7, <1>10
  <2>4. QED
    BY <2>2, <2>3
<1>14. \A k \in 1 .. m :
         Steady(redo_history'[k], Past(undo_history', n + 1) \cup Ahead(redo_history', k))
  <2> TAKE k \in 1 .. m
  <2>1. k \in 1 .. m + 1
    BY <1>3
  <2>2. Past(undo_history', n + 1) \cup Ahead(redo_history', k)
          = before \cup Ahead(redo_history, k)
    BY <1>8, <1>11
  <2>3. QED
    BY <2>1, <2>2, <1>4, <1>7
<1>15. QED
  BY <1>4, <1>5, <1>12, <1>13, <1>14 DEF NextUnused

(* Every operation keeps the next id above what undo can bring back.        *)
LEMMA NextKeepsUnused == IInv /\ NextUnused /\ [Next]_vars => NextUnused'
<1> SUFFICES ASSUME IInv, NextUnused, [Next]_vars
             PROVE  NextUnused'
  OBVIOUS
<1>0. Counters /\ Showing /\ Stacks /\ Line
  BY DEF IInv
<1>1. CASE \/ InsertMove \/ DeleteSubtree \/ ReplaceMove \/ ReorderVariation
           \/ SetAnnotations \/ SetMetadata \/ \E commands \in Compounds : Compound(commands)
  BY <1>0, <1>1, CommandsEdit, EditUnused
<1>2. CASE Undo
  BY <1>0, <1>2, UndoIsStep, UndoUnused
<1>3. CASE Redo
  BY <1>0, <1>3, RedoIsStep, RedoUnused
<1>4. CASE \/ \E id \in Ids(document.tree) : Checkout(id)
           \/ \E id \in Ids(document.tree) : PositionAt(id)
           \/ \E r \in 0 .. MaxRevision : MarkSaved(r)
           \/ UNCHANGED vars
  <2>1. UNCHANGED <<document, undo_history, redo_history>>
    BY <1>4 DEF Checkout, PositionAt, MarkSaved, vars
  <2>2. QED
    BY <2>1 DEF NextUnused
<1>5. CASE ClearHistory
  <2>1. document' = document /\ undo_history' = <<>> /\ redo_history' = <<>>
    BY <1>5 DEF ClearHistory
  <2>2. /\ Len(undo_history') = 0 /\ Len(redo_history') = 0
        /\ Past(undo_history', 0) = {}
    BY <2>1, EmptySeq DEF Past
  <2>3. Fresh(document'.tree.next, Past(undo_history', 0) \cup Ids(document'.tree))
    <3>1. Fresh(document.tree.next, Ids(document.tree))
      BY <1>0 DEF Showing, FreshNext
    <3>2. QED
      BY <3>1, <2>1, <2>2
  <2>4. 1 .. Len(undo_history') = {} /\ 1 .. Len(redo_history') = {}
    BY <2>2
  <2>5. QED
    BY <2>2, <2>3, <2>4 DEF NextUnused
<1>6. QED
  BY <1>1, <1>2, <1>3, <1>4, <1>5 DEF Next

(* The next id of a session: undo and redo bring back documents, and with a *)
(* compound their next id too, but never one that a document of the undo    *)
(* history has in use (EditorSession::undo and redo, rebuildIndex).         *)
THEOREM NextIdUnused == Spec => []NextUnused
BY InitUnused, NextKeepsUnused, SessionInvariant, PTL DEF Spec

(* Only commands take a token, and the nodes they make have unused ids.     *)
LEMMA NewNodesUnambiguous ==
  IInv /\ NextUnused /\ [Next]_vars
    => (next_document_token' # next_document_token
          => (Ids(document'.tree) \ Ids(document.tree))
               \cap UNION {ContentIds(e.before_document) : e \in Range(undo_history)} = {})
<1> SUFFICES ASSUME IInv, NextUnused, [Next]_vars, next_document_token' # next_document_token
             PROVE  (Ids(document'.tree) \ Ids(document.tree))
                      \cap UNION {ContentIds(e.before_document) : e \in Range(undo_history)} = {}
  OBVIOUS
<1>0. Counters /\ Showing /\ Stacks /\ Line
  BY DEF IInv
<1>1. UNION {ContentIds(e.before_document) : e \in Range(undo_history)}
        = Past(undo_history, Len(undo_history))
  BY <1>0, LenProperties DEF Stacks, Past, Range
<1>2. CASE \/ InsertMove \/ DeleteSubtree \/ ReplaceMove \/ ReorderVariation
           \/ SetAnnotations \/ SetMetadata \/ \E commands \in Compounds : Compound(commands)
  BY <1>0, <1>1, <1>2, CommandsEdit, EditUnused
<1>3. CASE Undo
  BY <1>0, <1>3, UndoIsStep DEF UndoStep, RestoresVersion
<1>4. CASE Redo
  BY <1>0, <1>4, RedoIsStep DEF RedoStep, RestoresVersion
<1>5. CASE \/ \E id \in Ids(document.tree) : Checkout(id)
           \/ \E id \in Ids(document.tree) : PositionAt(id)
           \/ \E r \in 0 .. MaxRevision : MarkSaved(r)
           \/ ClearHistory
           \/ UNCHANGED vars
  BY <1>5 DEF Checkout, PositionAt, MarkSaved, ClearHistory, vars, tokens
<1>6. QED
  BY <1>2, <1>3, <1>4, <1>5 DEF Next

(* However far undo can still go back, through compounds too, no document   *)
(* on the way has a node with the id that a new command gives to a node of  *)
(* its own (MoveTree::allocateNodeId after EditorSession::undo and redo).          *)
THEOREM IdsStayUnambiguous == Spec => NodeIdsUnambiguous
<1>1. IInv /\ NextUnused /\ [Next]_vars
        => [next_document_token' # next_document_token
              => (Ids(document'.tree) \ Ids(document.tree))
                   \cap UNION {ContentIds(e.before_document) : e \in Range(undo_history)}
                   = {}]_vars
  BY NewNodesUnambiguous
<1>2. QED
  BY <1>1, SessionInvariant, NextIdUnused, PTL DEF Spec, NodeIdsUnambiguous

-----------------------------------------------------------------------------
(* The history as SessionHistory sees it                                    *)

(* An entry without the inverse data.                                       *)
RecordOf(entry) ==
  [before_document |-> entry.before_document, after_document |-> entry.after_document,
   before_current |-> entry.before_current, after_current |-> entry.after_current,
   before_token |-> entry.before_token, after_token |-> entry.after_token,
   cost |-> entry.cost]

RecordedEntries == {RecordOf(entry) : entry \in SoundEntries}

Versioned == {content \in Contents : Root \in ContentIds(content)}

(* What is recorded of a stack, entry by entry.                             *)
LEMMA RecordedStack ==
  ASSUME NEW h \in Seq(SoundEntries)
  PROVE  /\ Recorded(h) \in Seq(RecordedEntries)
         /\ Len(Recorded(h)) = Len(h)
         /\ \A i \in 1 .. Len(h) : Recorded(h)[i] = RecordOf(h[i])
<1> DEFINE fields == {"before_document", "after_document", "before_current", "after_current",
                      "before_token", "after_token", "cost"}
           r == Recorded(h)
           n == Len(h)
<1>1. n \in Nat /\ DOMAIN h = 1 .. n /\ \A i \in 1 .. n : h[i] \in SoundEntries
  BY LenProperties, ElementOfSeq
<1>2. ASSUME NEW entry \in SoundEntries
      PROVE  Restrict(entry, fields) = RecordOf(entry)
  <2>1. Restrict(entry, fields) = [field \in fields |-> entry[field]]
    BY DEF Restrict
  <2>2. QED
    BY <2>1 DEF RecordOf
<1>3. r = [i \in 1 .. n |-> Restrict(h[i], fields)]
  BY <1>1 DEF Recorded
<1> HIDE DEF fields, n
<1>4. r = [i \in 1 .. n |-> RecordOf(h[i])]
  BY <1>1, <1>2, <1>3
<1>5. \A i \in 1 .. n : RecordOf(h[i]) \in RecordedEntries
  BY <1>1 DEF RecordedEntries
<1> HIDE DEF r
<1>6. \A i \in 1 .. n : r[i] = RecordOf(h[i]) /\ r[i] \in RecordedEntries
  BY <1>4, <1>5
<1>7. r \in [1 .. n -> RecordedEntries]
  BY <1>4, <1>6
<1>8. r \in Seq(RecordedEntries) /\ Len(r) = n
  BY <1>1, <1>7
<1>9. QED
  BY <1>6, <1>8 DEF r, n

(* Pushing, dropping old entries and popping show in what is recorded.      *)
LEMMA RecordedPush ==
  ASSUME NEW h \in Seq(SoundEntries), NEW e \in SoundEntries
  PROVE  Recorded(Append(h, e)) = Append(Recorded(h), RecordOf(e))
<1> DEFINE a == Append(h, e)
           r == Recorded(a)
           s == Append(Recorded(h), RecordOf(e))
<1>1. /\ a \in Seq(SoundEntries) /\ Len(a) = Len(h) + 1 /\ Len(h) \in Nat
      /\ \A i \in 1 .. Len(h) : a[i] = h[i]
      /\ a[Len(h) + 1] = e
  BY AppendProperties, LenProperties
<1> HIDE DEF a
<1>2. /\ r \in Seq(RecordedEntries) /\ Len(r) = Len(a)
      /\ \A i \in 1 .. Len(a) : r[i] = RecordOf(a[i])
  BY <1>1, RecordedStack
<1>3. /\ Recorded(h) \in Seq(RecordedEntries) /\ Len(Recorded(h)) = Len(h)
      /\ \A i \in 1 .. Len(h) : Recorded(h)[i] = RecordOf(h[i])
  BY RecordedStack
<1>4. RecordOf(e) \in RecordedEntries
  BY DEF RecordedEntries
<1>5. /\ s \in Seq(RecordedEntries) /\ Len(s) = Len(h) + 1
      /\ \A i \in 1 .. Len(h) : s[i] = Recorded(h)[i]
      /\ s[Len(h) + 1] = RecordOf(e)
  BY <1>3, <1>4, AppendProperties
<1> HIDE DEF r, s
<1>6. ASSUME NEW i \in 1 .. Len(h) + 1
      PROVE  r[i] = s[i]
  <2>1. CASE i = Len(h) + 1
    BY <1>1, <1>2, <1>5, <2>1
  <2>2. CASE i \in 1 .. Len(h)
    BY <1>1, <1>2, <1>3, <1>5, <2>2
  <2>3. QED
    BY <1>1, <2>1, <2>2
<1>7. r = s
  BY <1>1, <1>2, <1>5, <1>6, SeqEqual
<1>8. QED
  BY <1>7 DEF r, s, a

(* Trimming a stack and forgetting its inverse data commute. *)
LEMMA RecordedTrim ==
  ASSUME NEW h \in Seq(SoundEntries), NEW k \in 1 .. Len(h)
  PROVE  /\ SubSeq(h, k, Len(h)) \in Seq(SoundEntries)
         /\ Recorded(SubSeq(h, k, Len(h))) = SubSeq(Recorded(h), k, Len(h))
<1> DEFINE n == Len(h)
           a == SubSeq(h, k, n)
           r == Recorded(a)
           s == SubSeq(Recorded(h), k, n)
<1>1. /\ a \in Seq(SoundEntries) /\ Len(a) = n - k + 1 /\ n \in Nat
      /\ \A i \in 1 .. Len(a) : a[i] = h[i + k - 1]
  BY TrimElements, LenProperties
<1> HIDE DEF a
<1>2. /\ r \in Seq(RecordedEntries) /\ Len(r) = Len(a)
      /\ \A i \in 1 .. Len(a) : r[i] = RecordOf(a[i])
  BY <1>1, RecordedStack
<1>3. /\ Recorded(h) \in Seq(RecordedEntries) /\ Len(Recorded(h)) = n
      /\ \A i \in 1 .. n : Recorded(h)[i] = RecordOf(h[i])
  BY RecordedStack
<1>4. /\ s \in Seq(RecordedEntries) /\ Len(s) = n - k + 1
      /\ \A i \in 1 .. Len(s) : s[i] = Recorded(h)[i + k - 1]
  <2> DEFINE w == Recorded(h)
  <2>1. w \in Seq(RecordedEntries) /\ Len(w) = n /\ k \in 1 .. Len(w)
    BY <1>3
  <2> HIDE DEF w, n
  <2>2. /\ SubSeq(w, k, Len(w)) \in Seq(RecordedEntries)
        /\ Len(SubSeq(w, k, Len(w))) = Len(w) - k + 1
        /\ \A i \in 1 .. Len(SubSeq(w, k, Len(w))) : SubSeq(w, k, Len(w))[i] = w[i + k - 1]
    BY <2>1, TrimElements
  <2>3. QED
    BY <2>1, <2>2 DEF w
<1> HIDE DEF r, s
<1>5. ASSUME NEW i \in 1 .. n - k + 1
      PROVE  r[i] = s[i]
  <2>1. i + k - 1 \in 1 .. n
    BY <1>1
  <2>2. QED
    BY <2>1, <1>1, <1>2, <1>3, <1>4
<1>6. r = s
  BY <1>1, <1>2, <1>4, <1>5, SeqEqual
<1>7. QED
  BY <1>1, <1>6 DEF r, s, a

(* Popping a stack and forgetting its inverse data commute. *)
LEMMA RecordedPop ==
  ASSUME NEW h \in Seq(SoundEntries), h # <<>>
  PROVE  /\ Recorded(h) # <<>>
         /\ Last(Recorded(h)) = RecordOf(Last(h))
         /\ Recorded(Front(h)) = Front(Recorded(h))
<1> DEFINE n == Len(h)
           a == Front(h)
           r == Recorded(a)
           w == Recorded(h)
           s == Front(w)
<1>1. n \in Nat \ {0}
  BY LenProperties, EmptySeq
<1>2. /\ a \in Seq(SoundEntries) /\ Len(a) = n - 1
      /\ \A i \in 1 .. n - 1 : a[i] = h[i]
  BY PopElements
<1>3. /\ w \in Seq(RecordedEntries) /\ Len(w) = n
      /\ \A i \in 1 .. n : w[i] = RecordOf(h[i])
  BY RecordedStack
<1> HIDE DEF w, a
<1>4. w # <<>> /\ Last(w) = RecordOf(Last(h))
  <2>1. w # <<>> /\ n \in 1 .. n
    BY <1>1, <1>3, EmptySeq
  <2>2. QED
    BY <2>1, <1>3 DEF Last
<1>5. /\ s \in Seq(RecordedEntries) /\ Len(s) = n - 1
      /\ \A i \in 1 .. n - 1 : s[i] = w[i]
  BY <1>3, <1>4, PopElements
<1>6. /\ r \in Seq(RecordedEntries) /\ Len(r) = n - 1
      /\ \A i \in 1 .. n - 1 : r[i] = RecordOf(a[i])
  BY <1>2, RecordedStack
<1> HIDE DEF r, s
<1>7. \A i \in 1 .. n - 1 : r[i] = s[i]
  BY <1>1, <1>2, <1>3, <1>5, <1>6
<1>8. r = s
  BY <1>1, <1>5, <1>6, <1>7, SeqEqual
<1>9. QED
  BY <1>4, <1>8 DEF r, s, a, w

(* The limits are the same for both.                                        *)
LEMMA RecordedLimits ==
  ASSUME NEW h \in Seq(SoundEntries)
  PROVE  History!WithinLimits(Recorded(h)) <=> WithinLimits(h)
<1> DEFINE w == Recorded(h)
<1>1. /\ w \in Seq(RecordedEntries) /\ Len(w) = Len(h)
      /\ \A i \in 1 .. Len(h) : w[i] = RecordOf(h[i])
  BY RecordedStack
<1>2. \A e \in SoundEntries : e.cost \in Nat /\ RecordOf(e).cost = e.cost
  BY DEF SoundEntries, EntryRecords, RecordOf
<1>3. \A e \in RecordedEntries : e.cost \in Nat
  BY <1>2 DEF RecordedEntries
<1>4. \A i \in 1 .. Len(h) : h[i].cost = w[i].cost
  BY <1>1, <1>2, LenProperties, ElementOfSeq
<1> HIDE DEF w
<1>5. Len(h) <= Len(w)
  BY <1>1, LenProperties
<1>6. Bytes(w) = Bytes(h)
  BY <1>1, <1>2, <1>3, <1>4, <1>5, BytesPrefix
<1>7. History!Bytes(w) = Bytes(w)
  BY DEF History!Bytes, Bytes
<1>8. QED
  BY <1>1, <1>6, <1>7 DEF History!WithinLimits, WithinLimits, w

(* store_history trims what is recorded at the same place.                  *)
LEMMA StoreRefines ==
  ASSUME Stacks, NEW e \in SoundEntries, StoreHistory(e)
  PROVE  History!StoreHistory(RecordOf(e))
<1> DEFINE next == Append(undo_history, e)
           n == Len(next)
           w == Recorded(next)
<1>1. /\ MaxHistoryEntries # 0 /\ e.cost <= MaxHistoryBytes /\ redo_history' = <<>>
  BY DEF StoreHistory
<1>2. PICK k \in 1 .. n : TrimPoint(next, k) /\ undo_history' = SubSeq(next, k, n)
  BY DEF StoreHistory
<1>3. next \in Seq(SoundEntries) /\ w = Append(Recorded(undo_history), RecordOf(e))
  BY AppendProperties, RecordedPush DEF Stacks
<1> HIDE DEF next
<1>4. Len(w) = n /\ n \in Nat
  BY <1>3, RecordedStack, LenProperties
<1>5. Recorded(undo_history') = SubSeq(w, k, Len(w))
  BY <1>2, <1>3, <1>4, RecordedTrim
<1>6. \A j \in 1 .. n :
        History!WithinLimits(SubSeq(w, j, Len(w))) <=> WithinLimits(SubSeq(next, j, n))
  <2> TAKE j \in 1 .. n
  <2>1. /\ SubSeq(next, j, n) \in Seq(SoundEntries)
        /\ Recorded(SubSeq(next, j, n)) = SubSeq(w, j, Len(w))
    BY <1>3, <1>4, RecordedTrim
  <2>2. QED
    BY <2>1, RecordedLimits
<1> HIDE DEF w
<1>7. History!TrimPoint(w, k)
  <2>1. /\ k = n \/ WithinLimits(SubSeq(next, k, n))
        /\ \A j \in 1 .. k - 1 : ~WithinLimits(SubSeq(next, j, n))
    BY <1>2 DEF TrimPoint
  <2>2. \A j \in 1 .. k - 1 : j \in 1 .. n
    BY <1>4
  <2>3. QED
    BY <2>1, <2>2, <1>4, <1>6 DEF History!TrimPoint
<1>8. Recorded(redo_history') = <<>>
  BY <1>1 DEF Recorded
<1>9. RecordOf(e).cost = e.cost
  BY DEF RecordOf
<1>10. k \in 1 .. Len(w)
  BY <1>4
<1>11. \E j \in 1 .. Len(w) :
         History!TrimPoint(w, j) /\ Recorded(undo_history') = SubSeq(w, j, Len(w))
  BY <1>5, <1>7, <1>10
<1>12. QED
  BY <1>1, <1>3, <1>8, <1>9, <1>11 DEF History!StoreHistory

(* What is shown is a document of SessionHistory.                           *)
LEMMA ShownContent ==
  ASSUME NEW d, Proper(d)
  PROVE  Content(d) \in Versioned /\ ContentIds(Content(d)) = Ids(d.tree)
<1>1. d \in DocumentRecords /\ Valid(d)
  BY DEF Proper
<1>2. Root \in Ids(d.tree)
  BY <1>1, TreeShape DEF Valid, Structural, DocumentRecords
<1>3. QED
  BY <1>1, <1>2, ContentIdsAre, ContentTyped DEF Versioned

(* A command is an Execute of SessionHistory. *)
LEMMA EditRefines ==
  ASSUME IInv, EditStep
  PROVE  History!Execute
<1>1. PICK e \in SoundEntries :
        /\ StoreHistory(e)
        /\ Leads(document', e.after_document, e.after_current, document, published')
        /\ Content(document') # Content(document)
        /\ e.before_document = Content(document)
        /\ e.before_current = current_node /\ e.after_current = current_node'
        /\ e.before_token = current_document_token /\ e.after_token = next_document_token
        /\ revision < MaxRevision /\ revision' = revision + 1
        /\ current_document_token' = next_document_token
        /\ next_document_token' = next_document_token + 1
        /\ dirty' = (current_document_token' # saved_document_token)
        /\ can_undo' = TRUE /\ can_redo' = FALSE
        /\ saved_document_token' = saved_document_token
        /\ checkpoint' = checkpoint
  BY DEF EditStep
<1>2. /\ Proper(document') /\ Content(document') = e.after_document
      /\ e.after_current \in Ids(document'.tree)
  BY <1>1 DEF Leads
<1>3. /\ Content(document') \in Versioned \ {Content(document)}
      /\ current_node' \in ContentIds(Content(document'))
  BY <1>1, <1>2, ShownContent
<1>4. History!StoreHistory(RecordOf(e))
  BY <1>1, StoreRefines DEF IInv
<1>5. RecordOf(e) = [before_document |-> Content(document),
                     after_document  |-> Content(document'),
                     before_current  |-> current_node,
                     after_current   |-> current_node',
                     before_token    |-> current_document_token,
                     after_token     |-> next_document_token,
                     cost            |-> e.cost]
  BY <1>1, <1>2 DEF RecordOf
<1>6. e.cost \in 1 .. MaxHistoryBytes
  BY DEF SoundEntries, Sound
<1>7. \E cost \in 1 .. MaxHistoryBytes :
        History!StoreHistory([before_document |-> Content(document),
                              after_document  |-> Content(document'),
                              before_current  |-> current_node,
                              after_current   |-> current_node',
                              before_token    |-> current_document_token,
                              after_token     |-> next_document_token,
                              cost            |-> cost])
  BY <1>4, <1>5, <1>6
<1>8. QED
  BY <1>1, <1>3, <1>7 DEF History!Execute, Versioned

(* Undo restores the document that SessionHistory remembers. *)
LEMMA UndoRefines ==
  ASSUME IInv, NEW e \in SoundEntries, UndoStep(e)
  PROVE  History!Undo
<1>1. /\ undo_history # <<>> /\ e = Last(undo_history)
      /\ undo_history' = Front(undo_history)
      /\ redo_history' = Append(redo_history, e)
      /\ RestoresVersion(e.before_document, e.before_current, e.before_token)
      /\ can_undo' = (undo_history' # <<>>)
      /\ can_redo' = TRUE
  BY DEF UndoStep
<1>2. undo_history \in Seq(SoundEntries) /\ redo_history \in Seq(SoundEntries)
  BY DEF IInv, Stacks
<1>3. /\ Recorded(undo_history) # <<>> /\ Last(Recorded(undo_history)) = RecordOf(e)
      /\ Recorded(undo_history') = Front(Recorded(undo_history))
      /\ Recorded(redo_history') = Append(Recorded(redo_history), RecordOf(e))
  BY <1>1, <1>2, RecordedPop, RecordedPush
<1>4. /\ Content(document') = e.before_document /\ current_node' = e.before_current
      /\ current_document_token' = e.before_token
      /\ dirty' = (e.before_token # saved_document_token)
      /\ revision < MaxRevision /\ revision' = revision + 1
      /\ UNCHANGED <<saved_document_token, next_document_token, checkpoint>>
  BY <1>1 DEF RestoresVersion, Leads
<1>5. Recorded(undo_history') # <<>> <=> undo_history' # <<>>
  <2>1. undo_history' \in Seq(SoundEntries)
    BY <1>1, <1>2, PopElements
  <2>2. Recorded(undo_history') \in Seq(RecordedEntries)
        /\ Len(Recorded(undo_history')) = Len(undo_history')
    BY <2>1, RecordedStack
  <2>3. QED
    BY <2>1, <2>2, EmptySeq
<1>6. /\ RecordOf(e).before_document = e.before_document
      /\ RecordOf(e).before_current = e.before_current
      /\ RecordOf(e).before_token = e.before_token
  BY DEF RecordOf
<1>7. History!Restore(RecordOf(e).before_document, RecordOf(e).before_current,
                      RecordOf(e).before_token)
  BY <1>4, <1>6 DEF History!Restore
<1>8. can_undo' = (Recorded(undo_history') # <<>>)
  BY <1>1, <1>5
<1>a. \A s : History!Front(s) = Front(s) /\ History!Last(s) = Last(s)
  BY DEF History!Front, History!Last, Front, Last
<1>9. QED
  BY <1>1, <1>3, <1>4, <1>7, <1>8, <1>a DEF History!Undo

(* Redo restores the document that SessionHistory remembers. *)
LEMMA RedoRefines ==
  ASSUME IInv, NEW e \in SoundEntries, RedoStep(e)
  PROVE  History!Redo
<1>1. /\ redo_history # <<>> /\ e = Last(redo_history)
      /\ undo_history' = Append(undo_history, e)
      /\ redo_history' = Front(redo_history)
      /\ RestoresVersion(e.after_document, e.after_current, e.after_token)
      /\ can_undo' = TRUE
      /\ can_redo' = (redo_history' # <<>>)
  BY DEF RedoStep
<1>2. undo_history \in Seq(SoundEntries) /\ redo_history \in Seq(SoundEntries)
  BY DEF IInv, Stacks
<1>3. /\ Recorded(redo_history) # <<>> /\ Last(Recorded(redo_history)) = RecordOf(e)
      /\ Recorded(redo_history') = Front(Recorded(redo_history))
      /\ Recorded(undo_history') = Append(Recorded(undo_history), RecordOf(e))
  BY <1>1, <1>2, RecordedPop, RecordedPush
<1>4. /\ Content(document') = e.after_document /\ current_node' = e.after_current
      /\ current_document_token' = e.after_token
      /\ dirty' = (e.after_token # saved_document_token)
      /\ revision < MaxRevision /\ revision' = revision + 1
      /\ UNCHANGED <<saved_document_token, next_document_token, checkpoint>>
  BY <1>1 DEF RestoresVersion, Leads
<1>5. Recorded(redo_history') # <<>> <=> redo_history' # <<>>
  <2>1. redo_history' \in Seq(SoundEntries)
    BY <1>1, <1>2, PopElements
  <2>2. Recorded(redo_history') \in Seq(RecordedEntries)
        /\ Len(Recorded(redo_history')) = Len(redo_history')
    BY <2>1, RecordedStack
  <2>3. QED
    BY <2>1, <2>2, EmptySeq
<1>6. /\ RecordOf(e).after_document = e.after_document
      /\ RecordOf(e).after_current = e.after_current
      /\ RecordOf(e).after_token = e.after_token
  BY DEF RecordOf
<1>7. History!Restore(RecordOf(e).after_document, RecordOf(e).after_current,
                      RecordOf(e).after_token)
  BY <1>4, <1>6 DEF History!Restore
<1>8. can_redo' = (Recorded(redo_history') # <<>>)
  BY <1>1, <1>5
<1>a. \A s : History!Front(s) = Front(s) /\ History!Last(s) = Last(s)
  BY DEF History!Front, History!Last, Front, Last
<1>9. QED
  BY <1>1, <1>3, <1>4, <1>7, <1>8, <1>a DEF History!Redo

(* An opened session is an initial state of SessionHistory. *)
LEMMA InitRefines == Init => History!Init
<1> SUFFICES ASSUME Init
             PROVE  History!Init
  OBVIOUS
<1>1. Recorded(undo_history) = <<>> /\ Recorded(redo_history) = <<>>
  BY DEF Init, Recorded
<1>2. QED
  BY <1>1 DEF Init, History!Init

(* Every step is a step of SessionHistory or changes nothing it knows of. *)
LEMMA NextRefines == IInv /\ [Next]_vars => [History!Next]_History!vars
<1> SUFFICES ASSUME IInv, [Next]_vars
             PROVE  History!Next \/ UNCHANGED History!vars
  OBVIOUS
<1>0. Counters /\ Showing /\ Stacks /\ Line
  BY DEF IInv
<1>1. CASE \/ InsertMove \/ DeleteSubtree \/ ReplaceMove \/ ReorderVariation
           \/ SetAnnotations \/ SetMetadata \/ \E commands \in Compounds : Compound(commands)
  <2>1. EditStep
    BY <1>0, <1>1, CommandsEdit
  <2>2. QED
    BY <2>1, EditRefines DEF History!Next
<1>2. CASE Undo
  BY <1>0, <1>2, UndoIsStep, UndoRefines DEF History!Next
<1>3. CASE Redo
  BY <1>0, <1>3, RedoIsStep, RedoRefines DEF History!Next
<1>4. CASE \E id \in Ids(document.tree) : Checkout(id)
  <2>1. PICK id \in Ids(document.tree) : Checkout(id)
    BY <1>4
  <2>2. /\ current_node' \in Ids(document.tree) \ {current_node}
        /\ revision < MaxRevision /\ revision' = revision + 1
        /\ UNCHANGED <<document, flags, tokens, undo_history, redo_history, checkpoint>>
    BY <2>1 DEF Checkout
  <2>3. current_node' \in ContentIds(Content(document)) \ {current_node}
    BY <2>2, ContentIdsAre
  <2>4. History!Checkout
    BY <2>2, <2>3 DEF History!Checkout, History!tokens, flags, tokens
  <2>5. QED
    BY <2>4 DEF History!Next
<1>5. CASE \E id \in Ids(document.tree) : PositionAt(id)
  <2>1. UNCHANGED <<document, current_node, revision, flags, tokens,
                    undo_history, redo_history, checkpoint>>
    BY <1>5 DEF PositionAt
  <2>2. QED
    BY <2>1 DEF History!vars, History!state, History!tokens, flags, tokens
<1>6. CASE \E r \in 0 .. MaxRevision : MarkSaved(r)
  <2>1. PICK r \in 0 .. MaxRevision : MarkSaved(r)
    BY <1>6
  <2>2. History!MarkSaved(r)
    BY <2>1 DEF MarkSaved, History!MarkSaved
  <2>3. QED
    BY <2>2 DEF History!Next
<1>7. CASE ClearHistory
  <2>1. Recorded(<<>>) = <<>>
    BY DEF Recorded
  <2>2. History!ClearHistory
    BY <1>7, <2>1 DEF ClearHistory, History!ClearHistory, History!tokens, tokens
  <2>3. QED
    BY <2>2 DEF History!Next
<1>8. CASE UNCHANGED vars
  BY <1>8 DEF vars, flags, tokens, History!vars, History!state, History!tokens
<1>9. QED
  BY <1>1, <1>2, <1>3, <1>4, <1>5, <1>6, <1>7, <1>8 DEF Next

(* The session implements SessionHistory: what undo and redo work out from  *)
(* the inverse data of a command is exactly the document that was on the    *)
(* other side of it, storage order included, for every document, every      *)
(* command and every history.                                               *)
THEOREM SessionRefines == Spec => RefinesSessionHistory
BY InitRefines, NextRefines, SessionInvariant, PTL
   DEF Spec, RefinesSessionHistory, History!Spec
=============================================================================
