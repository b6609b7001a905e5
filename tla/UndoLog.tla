------------------------------- MODULE UndoLog -------------------------------
(***************************************************************************)
(* What an editing session promises about undo, redo and saving, with no   *)
(* tokens, no entries, no limits and no selection: a document, the         *)
(* documents that undo can return to (oldest first), the documents that    *)
(* redo can return to (nearest last), the document the host last saved and *)
(* a flag that may be up only while the document is the saved one.         *)
(*                                                                         *)
(* SessionHistory implements this specification.                           *)
(***************************************************************************)
EXTENDS Naturals, SequencesExt

CONSTANTS
  Documents,        (* every document a session can hold              *)
  InitialDocument   (* the document the session is opened with        *)

VARIABLES
  document,
  past,         (* documents undo walks back through, nearest last       *)
  future,       (* documents redo walks forward through, nearest last    *)
  checkpoint,   (* the document of the last acknowledged save            *)
  clean

vars == <<document, past, future, checkpoint, clean>>

(* t keeps the newest elements of s, at least one. *)
KeepsNewest(t, s) == \E k \in 1 .. Len(s) : t = SubSeq(s, k, Len(s))

(* clean may be raised only over the saved document; the session may also  *)
(* keep it down although the document happens to equal the saved one.      *)
CleanOnlyOverCheckpoint ==
  /\ clean' \in BOOLEAN
  /\ clean' => document' = checkpoint

Init ==
  /\ document = InitialDocument
  /\ past = <<>>
  /\ future = <<>>
  /\ checkpoint = InitialDocument
  /\ clean = TRUE

(* A command is remembered before it is applied; the oldest memories may go. *)
Edit ==
  /\ document' \in Documents \ {document}
  /\ KeepsNewest(past', Append(past, document))
  /\ future' = <<>>
  /\ CleanOnlyOverCheckpoint
  /\ UNCHANGED checkpoint

Undo ==
  /\ past # <<>>
  /\ document' = Last(past)
  /\ past' = Front(past)
  /\ future' = Append(future, document)
  /\ CleanOnlyOverCheckpoint
  /\ UNCHANGED checkpoint

Redo ==
  /\ future # <<>>
  /\ document' = Last(future)
  /\ future' = Front(future)
  /\ past' = Append(past, document)
  /\ CleanOnlyOverCheckpoint
  /\ UNCHANGED checkpoint

Save ==
  /\ checkpoint' = document
  /\ clean' = TRUE
  /\ UNCHANGED <<document, past, future>>

Forget ==
  /\ past' = <<>>
  /\ future' = <<>>
  /\ UNCHANGED <<document, checkpoint, clean>>

Next == Edit \/ Undo \/ Redo \/ Save \/ Forget

Spec == Init /\ [][Next]_vars
=============================================================================
