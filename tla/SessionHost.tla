----------------------------- MODULE SessionHost -----------------------------
(***************************************************************************)
(* One EditorSession between two clients.  The host works from a view it   *)
(* took earlier and guards its commands with the revision of that view; it *)
(* also saves the document, which takes time: export, write, and only then *)
(* mark_saved.  The debug console (console_runtime.cpp) holds a reference  *)
(* to the same session and passes whatever revision is current, so its     *)
(* commands fall between any two steps of the host.                        *)
(*                                                                         *)
(* The host is not in the repository: it is modelled from the calls the    *)
(* session offers it and from the way they are meant to be used.           *)
(***************************************************************************)
EXTENDS SessionHistory

VARIABLES
  view,     (* the snapshot the host shows: revision, document, selection    *)
  export,   (* what the save under way exported, and at which revision       *)
  saving,   (* where that save is                                            *)
  file      (* the document in storage                                       *)

session == <<document, current_node, revision, dirty, can_undo, can_redo,
             undo_history, redo_history, tokens, checkpoint>>
hostVars == <<session, view, export, saving, file>>

(* A save is "exported", then "written", then the session either confirms   *)
(* it or refuses it because the revision has moved.                         *)
Phases == {"confirmed", "exported", "written", "refused"}

HostInit ==
  /\ Init
  /\ view = [revision |-> 0, document |-> InitialDocument, current_node |-> RootNode]
  /\ export = [revision |-> 0, document |-> InitialDocument]
  /\ saving = "confirmed"
  /\ file = InitialDocument

(* The host refreshes its view with snapshot(). *)
Look ==
  /\ view' = [revision |-> revision, document |-> document, current_node |-> current_node]
  /\ UNCHANGED <<session, export, saving, file>>

Operation == Execute \/ Undo \/ Redo \/ Checkout

(* An operation with expected_revision: refused unless the view is current. *)
Guarded ==
  /\ view.revision = revision
  /\ Operation
  /\ UNCHANGED <<view, export, saving, file>>

(* DebugConsole::dispatch passes the current revision, which never conflicts. *)
Console ==
  /\ Operation
  /\ UNCHANGED <<view, export, saving, file>>

Forget ==
  /\ ClearHistory
  /\ UNCHANGED <<view, export, saving, file>>

BeginSave ==
  /\ saving \in {"confirmed", "refused"}
  /\ export' = [revision |-> revision, document |-> document]
  /\ saving' = "exported"
  /\ UNCHANGED <<session, view, file>>

Write ==
  /\ saving = "exported"
  /\ file' = export.document
  /\ saving' = "written"
  /\ UNCHANGED <<session, view, export>>

Confirm ==
  /\ saving = "written"
  /\ MarkSaved(export.revision)
  /\ saving' = "confirmed"
  /\ UNCHANGED <<view, export, file>>

(* mark_saved answers revision_conflict and changes nothing. *)
Refuse ==
  /\ saving = "written"
  /\ export.revision # revision
  /\ saving' = "refused"
  /\ UNCHANGED <<session, view, export, file>>

HostNext ==
  \/ Look
  \/ Guarded
  \/ Console
  \/ Forget
  \/ BeginSave
  \/ Write
  \/ Confirm
  \/ Refuse

HostSpec == HostInit /\ [][HostNext]_hostVars

-----------------------------------------------------------------------------
(* Properties *)

(* The host's variables have their types. *)
HostTypeOK ==
  /\ TypeOK
  /\ view \in [revision : 0 .. MaxRevision, document : Documents, current_node : Nodes]
  /\ export \in [revision : 0 .. MaxRevision, document : Documents]
  /\ saving \in Phases
  /\ file \in Documents

(* A revision never stands for two states: whatever the console did in      *)
(* between, a view or an export that carries the current revision shows the *)
(* current document and selection.  Everything expected_revision and        *)
(* mark_saved decide, they decide from this.                                *)
RevisionIdentifiesState ==
  /\ view.revision <= revision
  /\ export.revision <= revision
  /\ view.revision = revision =>
       view.document = document /\ view.current_node = current_node
  /\ export.revision = revision => export.document = document

(* After a confirmed save a session that shows itself clean matches what is *)
(* in storage, although the document could change while it was written.     *)
CleanMatchesFile ==
  saving = "confirmed" =>
    /\ file = checkpoint
    /\ ~dirty => file = document
=============================================================================
