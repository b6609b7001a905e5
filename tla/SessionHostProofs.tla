-------------------------- MODULE SessionHostProofs --------------------------
(***************************************************************************)
(* Proofs about SessionHost: what a revision tells the host, and what a    *)
(* clean session tells about the file, for every document and limit.       *)
(***************************************************************************)
EXTENDS SessionHost, SessionHistoryProofs

(* What is in storage while a save is under way, and after it. *)
Stored ==
  /\ saving = "confirmed" => file = checkpoint
  /\ saving = "written" => file = export.document

(* Inductive: the history's own invariant, the revisions that the host      *)
(* holds, and what its save has put in storage.                             *)
HostIInv ==
  /\ IInv
  /\ HostTypeOK
  /\ RevisionIdentifiesState
  /\ Stored

(* Whatever the clients do, the session only takes steps of its own. *)
LEMMA SessionSteps == TypeOK /\ [HostNext]_hostVars => [Next]_vars
<1> SUFFICES ASSUME TypeOK, [HostNext]_hostVars
             PROVE  Next \/ UNCHANGED vars
  OBVIOUS
<1>1. UNCHANGED session => UNCHANGED vars
  BY DEF session, vars, state, tokens
<1>2. CASE Guarded \/ Console
  BY <1>2 DEF Guarded, Console, Operation, Next
<1>3. CASE Forget
  BY <1>3 DEF Forget, Next
<1>4. CASE Confirm
  <2>1. export.revision \in 0 .. MaxRevision
    BY <1>4 DEF Confirm, MarkSaved, TypeOK
  <2>2. QED
    BY <1>4, <2>1 DEF Confirm, Next
<1>5. QED
  BY <1>1, <1>2, <1>3, <1>4 DEF HostNext, hostVars, Look, BeginSave, Write, Refuse

(* Only the four operations of the session change its document or its       *)
(* selection, and each of them counts a new revision.                       *)
LEMMA OperationsCount ==
  ASSUME TypeOK, Operation
  PROVE  revision' = revision + 1 /\ UNCHANGED checkpoint
BY DEF Operation, Execute, Undo, Redo, Restore, Checkout

(* The session's own invariant survives every step of the host. *)
LEMMA SessionInvariant ==
  ASSUME IInv, [HostNext]_hostVars
  PROVE  IInv'
<1>1. [Next]_vars
  BY SessionSteps DEF IInv
<1>2. QED
  BY <1>1, NextTypeOK, NextChain, NextTokens, NextSelections, NextFlags DEF IInv

(* Every step of the host keeps its own variables well typed. *)
LEMMA HostTypes ==
  ASSUME HostIInv, [HostNext]_hostVars
  PROVE  HostTypeOK'
<1>1. TypeOK /\ TypeOK'
  BY SessionInvariant DEF HostIInv, IInv
<1>2. /\ [revision |-> revision, document |-> document, current_node |-> current_node]
           \in [revision : 0 .. MaxRevision, document : Documents, current_node : Nodes]
      /\ [revision |-> revision, document |-> document]
           \in [revision : 0 .. MaxRevision, document : Documents]
  BY <1>1 DEF TypeOK
<1>3. QED
  BY <1>1, <1>2
     DEF HostIInv, HostTypeOK, HostNext, hostVars, Look, Guarded, Console, Forget,
         BeginSave, Write, Confirm, Refuse, Phases

(* An operation moves past every revision the host holds; nothing else      *)
(* changes what a revision stands for.                                      *)
LEMMA RevisionsKept ==
  ASSUME HostIInv, [HostNext]_hostVars
  PROVE  RevisionIdentifiesState'
<1> USE DEF RevisionIdentifiesState
<1>1. /\ revision \in Nat /\ view.revision \in Nat /\ export.revision \in Nat
      /\ RevisionIdentifiesState
  BY LimitsAssumption DEF HostIInv, HostTypeOK, TypeOK
<1>2. ASSUME Operation, UNCHANGED <<view, export>>
      PROVE  RevisionIdentifiesState'
  <2>1. revision' = revision + 1
    BY <1>2, OperationsCount DEF HostIInv, IInv
  <2>2. QED
    BY <1>1, <1>2, <2>1
<1>3. CASE Look
  BY <1>1, <1>3 DEF Look, session
<1>4. CASE Guarded \/ Console
  BY <1>2, <1>4 DEF Guarded, Console
<1>5. CASE Forget
  BY <1>1, <1>5 DEF Forget, ClearHistory
<1>6. CASE BeginSave
  BY <1>1, <1>6 DEF BeginSave, session
<1>7. CASE Write \/ Refuse \/ UNCHANGED hostVars
  BY <1>1, <1>7 DEF Write, Refuse, session, hostVars
<1>8. CASE Confirm
  BY <1>1, <1>8 DEF Confirm, MarkSaved
<1>9. QED
  BY <1>3, <1>4, <1>5, <1>6, <1>7, <1>8 DEF HostNext

(* A confirmation carries the current revision, so the document it exported *)
(* is the one being marked saved, and that document is in the file.         *)
LEMMA StoredKept ==
  ASSUME HostIInv, [HostNext]_hostVars
  PROVE  Stored'
<1> USE DEF Stored
<1>1. CASE Guarded \/ Console
  <2>1. UNCHANGED checkpoint
    BY <1>1, OperationsCount DEF HostIInv, IInv, Guarded, Console
  <2>2. QED
    BY <1>1, <2>1 DEF HostIInv, Guarded, Console
<1>2. CASE Confirm
  <2>1. file = document
    BY <1>2 DEF HostIInv, RevisionIdentifiesState, Confirm, MarkSaved
  <2>2. QED
    BY <1>2, <2>1 DEF Confirm, MarkSaved
<1>3. QED
  BY <1>1, <1>2
     DEF HostIInv, HostNext, hostVars, session, Look, Forget, ClearHistory,
         BeginSave, Write, Refuse

(* HostIInv holds in every reachable state. *)
THEOREM HostInductive == HostSpec => []HostIInv
<1>1. HostInit => HostIInv
  <2> SUFFICES ASSUME HostInit
               PROVE  HostIInv
    OBVIOUS
  <2>1. IInv
    BY InitTypeOK, InitChain, InitTokens, InitSelections, InitFlags DEF IInv, HostInit
  <2>2. /\ RootNode \in Nodes /\ InitialDocument \in Documents
        /\ 0 \in 0 .. MaxRevision
    BY DocumentsAssumption, LimitsAssumption
  <2>3. HostTypeOK
    BY <2>1, <2>2 DEF IInv, HostInit, HostTypeOK, Phases
  <2>4. RevisionIdentifiesState /\ Stored
    BY DEF HostInit, Init, RevisionIdentifiesState, Stored
  <2>5. QED
    BY <2>1, <2>3, <2>4 DEF HostIInv
<1>2. HostIInv /\ [HostNext]_hostVars => HostIInv'
  BY SessionInvariant, HostTypes, RevisionsKept, StoredKept DEF HostIInv
<1>3. QED
  BY <1>1, <1>2, PTL DEF HostSpec

(* A view or an export that carries the current revision shows the current  *)
(* document and selection, whatever the console did meanwhile: what         *)
(* expected_revision and mark_saved compare is enough.                      *)
THEOREM RevisionSound == HostSpec => []RevisionIdentifiesState
<1>1. HostIInv => RevisionIdentifiesState
  BY DEF HostIInv
<1>2. QED
  BY HostInductive, <1>1, PTL

(* The variables of the host and of the session keep their types.           *)
THEOREM HostTypeCorrectness == HostSpec => []HostTypeOK
<1>1. HostIInv => HostTypeOK
  BY DEF HostIInv
<1>2. QED
  BY HostInductive, <1>1, PTL

(* After a confirmed save a clean session matches the file.                 *)
THEOREM CleanSound == HostSpec => []CleanMatchesFile
<1>1. HostIInv => CleanMatchesFile
  BY CleanFromTokens DEF HostIInv, Stored, CleanMatchesFile, CleanMeansSaved
<1>2. QED
  BY HostInductive, <1>1, PTL
=============================================================================
