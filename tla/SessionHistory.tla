--------------------------- MODULE SessionHistory ---------------------------
(***************************************************************************)
(* The history, revision and save-point machinery of EditorSession         *)
(* (editor_session.cpp): execute, undo, redo, checkout, mark_saved and     *)
(* clear_history, with the document as an opaque value.                    *)
(*                                                                         *)
(* A history entry is the pair of documents on both sides of a command,    *)
(* with the selections and the document tokens that belong to them, and    *)
(* the byte estimate the limits are enforced on.  EditorSession refines    *)
(* this module with the inverse data the code really stores.  A refused    *)
(* call changes nothing and is a stuttering step here.                     *)
(***************************************************************************)
EXTENDS Integers, SequencesExt, HistoryStacks

CONSTANTS
  Documents,           (* document values, told apart by operator==            *)
  InitialDocument,     (* the document open_document accepted                  *)
  Nodes,               (* node ids                                             *)
  RootNode,            (* id of the root, in every document                    *)
  NodesOf(_),          (* the nodes of a document                              *)
  Costs,               (* byte estimates a history entry may have              *)
  MaxRevision          (* bound of the model: no revision above it             *)

ASSUME DocumentsAssumption ==
  /\ InitialDocument \in Documents
  /\ \A d \in Documents : NodesOf(d) \subseteq Nodes /\ RootNode \in NodesOf(d)

ASSUME LimitsAssumption ==
  /\ MaxRevision \in Nat
  /\ Costs \subseteq Nat

VARIABLES
  document,
  current_node,
  revision,
  dirty,
  can_undo,
  can_redo,
  current_document_token,
  saved_document_token,
  next_document_token,
  checkpoint            (* history variable: the document last marked saved    *)

tokens == <<current_document_token, saved_document_token, next_document_token>>
state  == <<current_node, revision, dirty, can_undo, can_redo>>
vars   == <<document, state, undo_history, redo_history, tokens, checkpoint>>

HistoryEntry ==
  [before_document : Documents, after_document : Documents,
   before_current : Nodes,      after_current : Nodes,
   before_token : Nat,          after_token : Nat,
   cost : Costs]

-----------------------------------------------------------------------------
Init ==
  /\ document = InitialDocument
  /\ current_node = RootNode
  /\ revision = 0
  /\ dirty = FALSE
  /\ can_undo = FALSE
  /\ can_redo = FALSE
  /\ undo_history = <<>>
  /\ redo_history = <<>>
  /\ current_document_token = 0
  /\ saved_document_token = 0
  /\ next_document_token = 1
  /\ checkpoint = InitialDocument

(* A command that changes the document, of any kind. *)
Execute ==
  /\ revision < MaxRevision
  /\ document' \in Documents \ {document}
  /\ current_node' \in NodesOf(document')
  /\ \E cost \in Costs :
       StoreHistory([before_document |-> document,
                     after_document  |-> document',
                     before_current  |-> current_node,
                     after_current   |-> current_node',
                     before_token    |-> current_document_token,
                     after_token     |-> next_document_token,
                     cost            |-> cost])
  /\ revision' = revision + 1
  /\ current_document_token' = next_document_token
  /\ next_document_token' = next_document_token + 1
  /\ dirty' = (current_document_token' # saved_document_token)
  /\ can_undo' = TRUE
  /\ can_redo' = FALSE
  /\ UNCHANGED <<saved_document_token, checkpoint>>

(* Mutants of Restore: the token counter is rewound with the document,      *)
RestoreRewindingTokens(version, node, token) ==
  /\ document' = version
  /\ current_node' = node
  /\ current_document_token' = token
  /\ dirty' = (token # saved_document_token)
  /\ revision' = revision + 1
  /\ next_document_token' = token + 1
  /\ UNCHANGED <<saved_document_token, checkpoint>>

(* the selection stays where it is,                                         *)
RestoreKeepingSelection(version, node, token) ==
  /\ document' = version
  /\ current_document_token' = token
  /\ dirty' = (token # saved_document_token)
  /\ revision' = revision + 1
  /\ UNCHANGED <<current_node, saved_document_token, next_document_token, checkpoint>>

(* dirty is read off the undo stack instead of the save point,              *)
RestoreCleanAtBottom(version, node, token) ==
  /\ document' = version
  /\ current_node' = node
  /\ current_document_token' = token
  /\ dirty' = (undo_history' # <<>>)
  /\ revision' = revision + 1
  /\ UNCHANGED <<saved_document_token, next_document_token, checkpoint>>

(* and the revision is given back.                                          *)
RestoreCountingDown(version, node, token) ==
  /\ document' = version
  /\ current_node' = node
  /\ current_document_token' = token
  /\ dirty' = (token # saved_document_token)
  /\ revision' = revision - 1
  /\ UNCHANGED <<saved_document_token, next_document_token, checkpoint>>

(* A version that the history holds becomes the current one again; which     *)
(* revision it once had, and which token comes next, does not come back.     *)
Restore(version, node, token) ==
  /\ document' = version
  /\ current_node' = node
  /\ current_document_token' = token
  /\ dirty' = (token # saved_document_token)
  /\ revision' = revision + 1
  /\ UNCHANGED <<saved_document_token, next_document_token, checkpoint>>

Undo ==
  /\ revision < MaxRevision
  /\ undo_history # <<>>
  /\ LET entry == Last(undo_history)
     IN  /\ undo_history' = Front(undo_history)
         /\ redo_history' = Append(redo_history, entry)
         /\ Restore(entry.before_document, entry.before_current, entry.before_token)
  /\ can_undo' = (undo_history' # <<>>)
  /\ can_redo' = TRUE

Redo ==
  /\ revision < MaxRevision
  /\ redo_history # <<>>
  /\ LET entry == Last(redo_history)
     IN  /\ undo_history' = Append(undo_history, entry)
         /\ redo_history' = Front(redo_history)
         /\ Restore(entry.after_document, entry.after_current, entry.after_token)
  /\ can_undo' = TRUE
  /\ can_redo' = (redo_history' # <<>>)

(* Mutant: navigation keeps the revision. *)
CheckoutSilently ==
  /\ current_node' \in NodesOf(document) \ {current_node}
  /\ UNCHANGED <<document, revision, dirty, can_undo, can_redo,
                 undo_history, redo_history, tokens, checkpoint>>

(* Navigation: a new revision, and neither history nor dirty is touched.    *)
Checkout ==
  /\ revision < MaxRevision
  /\ current_node' \in NodesOf(document) \ {current_node}
  /\ revision' = revision + 1
  /\ UNCHANGED <<document, dirty, can_undo, can_redo,
                 undo_history, redo_history, tokens, checkpoint>>

(* Mutant: the confirmation is taken for whatever is current by now. *)
MarkSavedBlindly(r) ==
  /\ r <= revision
  /\ saved_document_token' = current_document_token
  /\ dirty' = FALSE
  /\ checkpoint' = document
  /\ UNCHANGED <<document, current_node, revision, can_undo, can_redo,
                 undo_history, redo_history,
                 current_document_token, next_document_token>>

(* The host confirms that it saved the document it exported at revision r. *)
MarkSaved(r) ==
  /\ r = revision
  /\ saved_document_token' = current_document_token
  /\ dirty' = FALSE
  /\ checkpoint' = document
  /\ UNCHANGED <<document, current_node, revision, can_undo, can_redo,
                 undo_history, redo_history,
                 current_document_token, next_document_token>>

ClearHistory ==
  /\ undo_history' = <<>>
  /\ redo_history' = <<>>
  /\ can_undo' = FALSE
  /\ can_redo' = FALSE
  /\ UNCHANGED <<document, current_node, revision, dirty, tokens, checkpoint>>

Next ==
  \/ Execute
  \/ Undo
  \/ Redo
  \/ Checkout
  \/ \E r \in 0 .. MaxRevision : MarkSaved(r)
  \/ ClearHistory

Spec == Init /\ [][Next]_vars

-----------------------------------------------------------------------------
(* Properties *)

(* Every variable has its type. *)
TypeOK ==
  /\ document \in Documents
  /\ current_node \in Nodes
  /\ revision \in 0 .. MaxRevision
  /\ dirty \in BOOLEAN
  /\ can_undo \in BOOLEAN
  /\ can_redo \in BOOLEAN
  /\ undo_history \in Seq(HistoryEntry)
  /\ redo_history \in Seq(HistoryEntry)
  /\ current_document_token \in Nat
  /\ saved_document_token \in Nat
  /\ next_document_token \in Nat
  /\ checkpoint \in Documents

(* Entry f starts from the document that entry e ended with. *)
Follows(f, e) ==
  /\ f.before_document = e.after_document
  /\ f.before_token = e.after_token

(* The two stacks form one unbroken line of documents through the current   *)
(* one: each undo entry starts where the one below it ended, the newest     *)
(* ends at the current document, and the redo entries continue from it.     *)
(* The inverse operations of undo and redo are only right along such a line.*)
HistoryChain ==
  /\ \A i \in 1 .. Len(undo_history) - 1 :
       Follows(undo_history[i + 1], undo_history[i])
  /\ \A i \in 1 .. Len(redo_history) - 1 :
       Follows(redo_history[i], redo_history[i + 1])
  /\ undo_history # <<>> =>
       /\ Last(undo_history).after_document = document
       /\ Last(undo_history).after_token = current_document_token
  /\ redo_history # <<>> =>
       /\ Last(redo_history).before_document = document
       /\ Last(redo_history).before_token = current_document_token

Entries == Range(undo_history) \cup Range(redo_history)

(* Every document the session remembers, with the token it carries. *)
Versions ==
  {[token |-> current_document_token, document |-> document],
   [token |-> saved_document_token, document |-> checkpoint]}
    \cup {[token |-> e.before_token, document |-> e.before_document] : e \in Entries}
    \cup {[token |-> e.after_token, document |-> e.after_document] : e \in Entries}

(* A token stands for one document only: two remembered documents with the  *)
(* same token are equal, and the next token is new.  This is why comparing  *)
(* two tokens can decide dirty without comparing two documents.             *)
TokensIdentifyDocuments ==
  /\ \A v, w \in Versions : v.token = w.token => v.document = w.document
  /\ \A v \in Versions : v.token < next_document_token

(* A session that is not dirty holds the document that was last marked      *)
(* saved, however undo, redo, new commands and history trimming got there.  *)
CleanMeansSaved == ~dirty => document = checkpoint

(* Both stacks together stay within max_history_entries and                 *)
(* max_history_bytes, although store_history only measures the undo stack.  *)
HistoryWithinLimits ==
  /\ Len(undo_history) + Len(redo_history) <= MaxHistoryEntries
  /\ Bytes(undo_history) + Bytes(redo_history) <= MaxHistoryBytes

(* The selection is a node of the document, and will still be one after any *)
(* undo or redo, although checkout moves it without leaving a history entry. *)
SelectionsExist ==
  /\ current_node \in NodesOf(document)
  /\ \A e \in Entries : /\ e.before_current \in NodesOf(e.before_document)
                         /\ e.after_current \in NodesOf(e.after_document)

(* can_undo and can_redo, which are stored and never computed on demand,    *)
(* agree with the stacks, and dirty agrees with the two tokens.             *)
FlagsMatchHistory ==
  /\ can_undo <=> undo_history # <<>>
  /\ can_redo <=> redo_history # <<>>
  /\ dirty <=> current_document_token # saved_document_token

(* The tokens that undo and redo can bring back. *)
ReachableTokens ==
  {current_document_token}
    \cup {e.before_token : e \in Range(undo_history)}
    \cup {e.after_token : e \in Range(redo_history)}

(* Once trimming, a new command or clear_history has cut the history off    *)
(* from the saved state, the session stays dirty until the next save: no    *)
(* later command may bring the lost token back.                             *)
LostCheckpointStep ==
  saved_document_token \notin ReachableTokens /\ UNCHANGED saved_document_token
    => dirty' /\ saved_document_token' \notin ReachableTokens'

LostCheckpointStaysDirty == [][LostCheckpointStep]_vars

(* The session keeps the promise of UndoLog: undo returns the document to   *)
(* what it was before the undone command, redo to what it was before undo,  *)
(* a command forgets the redone future, and the oldest past is lost first.  *)
Past == [i \in 1 .. Len(undo_history) |-> undo_history[i].before_document]
Future == [i \in 1 .. Len(redo_history) |-> redo_history[i].after_document]

Log == INSTANCE UndoLog WITH past <- Past, future <- Future, clean <- ~dirty

RefinesUndoLog == Log!Spec
=============================================================================
