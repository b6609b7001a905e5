------------------------ MODULE SessionHistoryProofs ------------------------
(***************************************************************************)
(* Proofs about SessionHistory, for every set of documents and every limit. *)
(***************************************************************************)
EXTENDS SessionHistory, HistoryStacksProofs

-----------------------------------------------------------------------------
(* What the three actions that move entries do to the two stacks. *)

(* A command pushes the entry that records it and drops k - 1 old ones. *)
LEMMA ExecuteStacks ==
  ASSUME TypeOK, Execute
  PROVE  \E e \in HistoryEntry, k \in 1 .. Len(undo_history) + 1 :
           /\ e.before_document = document /\ e.after_document = document'
           /\ e.before_current = current_node /\ e.after_current = current_node'
           /\ e.before_token = current_document_token
           /\ e.after_token = next_document_token
           /\ undo_history' \in Seq(HistoryEntry)
           /\ undo_history' # <<>>
           /\ Last(undo_history') = e
           /\ Len(undo_history') = Len(undo_history) + 2 - k
           /\ undo_history'[Len(undo_history')] = e
           /\ \A i \in 1 .. Len(undo_history') - 1 :
                undo_history'[i] = undo_history[i + k - 1]
           /\ Range(undo_history') \subseteq Range(undo_history) \cup {e}
           /\ redo_history' = <<>>
<1> DEFINE entry(cost) == [before_document |-> document,
                           after_document  |-> document',
                           before_current  |-> current_node,
                           after_current   |-> current_node',
                           before_token    |-> current_document_token,
                           after_token     |-> next_document_token,
                           cost            |-> cost]
<1>1. PICK cost \in Costs : StoreHistory(entry(cost))
  BY DEF Execute
<1>2. entry(cost) \in HistoryEntry
  <2>1. document \in Documents /\ document' \in Documents
    BY DEF TypeOK, Execute
  <2>2. current_node \in Nodes /\ current_node' \in Nodes
    BY <2>1, DocumentsAssumption DEF TypeOK, Execute
  <2>3. current_document_token \in Nat /\ next_document_token \in Nat
    BY DEF TypeOK
  <2>4. QED
    BY <1>1, <2>1, <2>2, <2>3 DEF HistoryEntry
<1> DEFINE e == entry(cost)
<1>3. /\ e.before_document = document /\ e.after_document = document'
      /\ e.before_current = current_node /\ e.after_current = current_node'
      /\ e.before_token = current_document_token
      /\ e.after_token = next_document_token
  OBVIOUS
<1> HIDE DEF e
<1>4. e \in HistoryEntry /\ undo_history \in Seq(HistoryEntry) /\ StoreHistory(e)
  BY <1>1, <1>2 DEF e, TypeOK
<1>5. QED
  BY <1>3, <1>4, StoreStacks

-----------------------------------------------------------------------------
(* Type correctness *)

(* A session just opened is well typed. *)
LEMMA InitTypeOK == Init => TypeOK
<1>1. <<>> \in Seq(HistoryEntry)
  BY EmptySeq
<1>2. RootNode \in Nodes /\ InitialDocument \in Documents /\ 0 \in 0 .. MaxRevision
  BY DocumentsAssumption, LimitsAssumption
<1>3. Init => dirty \in BOOLEAN /\ can_undo \in BOOLEAN /\ can_redo \in BOOLEAN
  BY DEF Init
<1>4. Init => /\ current_document_token \in Nat
              /\ saved_document_token \in Nat
              /\ next_document_token \in Nat
  BY DEF Init
<1>5. Init => /\ document \in Documents /\ checkpoint \in Documents
              /\ current_node \in Nodes /\ revision \in 0 .. MaxRevision
              /\ undo_history \in Seq(HistoryEntry)
              /\ redo_history \in Seq(HistoryEntry)
  BY <1>1, <1>2 DEF Init
<1>6. QED
  BY <1>3, <1>4, <1>5 DEF TypeOK

(* Every operation of the session keeps the types. *)
LEMMA NextTypeOK == TypeOK /\ [Next]_vars => TypeOK'
<1> SUFFICES ASSUME TypeOK, [Next]_vars
             PROVE  TypeOK'
  OBVIOUS
<1> USE DEF TypeOK
<1>0. /\ \A d \in Documents : NodesOf(d) \subseteq Nodes
      /\ MaxRevision \in Nat
      /\ <<>> \in Seq(HistoryEntry)
  BY DocumentsAssumption, LimitsAssumption, EmptySeq
<1>1. CASE Execute
  <2>1. undo_history' \in Seq(HistoryEntry) /\ redo_history' \in Seq(HistoryEntry)
    BY <1>0, <1>1, ExecuteStacks
  <2>2. document' \in Documents /\ current_node' \in Nodes
    BY <1>0, <1>1 DEF Execute
  <2>3. revision' \in 0 .. MaxRevision
    BY <1>0, <1>1 DEF Execute
  <2>4. dirty' \in BOOLEAN /\ can_undo' \in BOOLEAN /\ can_redo' \in BOOLEAN
    BY <1>1 DEF Execute
  <2>5. /\ current_document_token' \in Nat
        /\ saved_document_token' \in Nat
        /\ next_document_token' \in Nat
        /\ checkpoint' \in Documents
    BY <1>1 DEF Execute
  <2>6. QED
    BY <2>1, <2>2, <2>3, <2>4, <2>5
<1>2. CASE Undo
  <2>1. Last(undo_history) \in HistoryEntry
    BY <1>2, MoveTop DEF Undo, Restore
  <2>2. undo_history' \in Seq(HistoryEntry) /\ redo_history' \in Seq(HistoryEntry)
    BY <1>2, MoveTop DEF Undo, Restore
  <2>3. QED
    BY <1>0, <1>2, <2>1, <2>2 DEF Undo, Restore, HistoryEntry
<1>3. CASE Redo
  <2>1. Last(redo_history) \in HistoryEntry
    BY <1>3, MoveTop DEF Redo, Restore
  <2>2. undo_history' \in Seq(HistoryEntry) /\ redo_history' \in Seq(HistoryEntry)
    BY <1>3, MoveTop DEF Redo, Restore
  <2>3. QED
    BY <1>0, <1>3, <2>1, <2>2 DEF Redo, Restore, HistoryEntry
<1>4. CASE Checkout
  BY <1>0, <1>4 DEF Checkout, tokens
<1>5. CASE \E r \in 0 .. MaxRevision : MarkSaved(r)
  BY <1>5 DEF MarkSaved
<1>6. CASE ClearHistory
  BY <1>0, <1>6 DEF ClearHistory, tokens
<1>7. CASE UNCHANGED vars
  BY <1>7 DEF vars, state, tokens
<1>8. QED
  BY <1>1, <1>2, <1>3, <1>4, <1>5, <1>6, <1>7 DEF Next

(* Every variable keeps its type: in particular both stacks only ever hold  *)
(* well-formed entries, whatever commands, trimming, undo and redo do.      *)
THEOREM TypeCorrectness == Spec => []TypeOK
BY InitTypeOK, NextTypeOK, PTL DEF Spec

-----------------------------------------------------------------------------
(* The line of documents *)

(* Empty stacks are a chain. *)
LEMMA InitChain == Init => HistoryChain
<1>1. Len(<<>>) = 0
  BY EmptySeq
<1>2. QED
  BY <1>1 DEF Init, HistoryChain

(* Every operation extends the chain at the current document, shortens it   *)
(* at its ends, or leaves it as it was.                                     *)
LEMMA NextChain == TypeOK /\ HistoryChain /\ [Next]_vars => HistoryChain'
<1> SUFFICES ASSUME TypeOK, HistoryChain, [Next]_vars
             PROVE  HistoryChain'
  OBVIOUS
<1>0. /\ undo_history \in Seq(HistoryEntry) /\ Len(undo_history) \in Nat
      /\ redo_history \in Seq(HistoryEntry) /\ Len(redo_history) \in Nat
      /\ Len(<<>>) = 0
  BY LenProperties, EmptySeq DEF TypeOK
<1>1. CASE Execute
  <2>1. PICK e \in HistoryEntry, k \in 1 .. Len(undo_history) + 1 :
          /\ e.before_document = document /\ e.after_document = document'
          /\ e.before_token = current_document_token
          /\ e.after_token = next_document_token
          /\ undo_history' # <<>>
          /\ Last(undo_history') = e
          /\ Len(undo_history') = Len(undo_history) + 2 - k
          /\ undo_history'[Len(undo_history')] = e
          /\ \A i \in 1 .. Len(undo_history') - 1 :
               undo_history'[i] = undo_history[i + k - 1]
          /\ redo_history' = <<>>
    BY <1>1, ExecuteStacks
  <2>2. current_document_token' = next_document_token
    BY <1>1 DEF Execute
  <2>3. ASSUME NEW i \in 1 .. Len(undo_history') - 1
        PROVE  Follows(undo_history'[i + 1], undo_history'[i])
    <3>1. CASE i = Len(undo_history') - 1
      <4>1. undo_history'[i + 1] = e
        BY <1>0, <2>1, <3>1
      <4>2. undo_history'[i] = undo_history[Len(undo_history)] /\ Len(undo_history) # 0
        BY <1>0, <2>1, <3>1
      <4>3. undo_history # <<>>
        BY <1>0, <4>2
      <4>4. /\ undo_history[Len(undo_history)].after_document = document
            /\ undo_history[Len(undo_history)].after_token = current_document_token
        BY <4>3 DEF HistoryChain, Last
      <4>5. QED
        BY <2>1, <4>1, <4>2, <4>4 DEF Follows
    <3>2. CASE i # Len(undo_history') - 1
      <4>1. /\ undo_history'[i] = undo_history[i + k - 1]
            /\ undo_history'[i + 1] = undo_history[(i + k - 1) + 1]
            /\ i + k - 1 \in 1 .. Len(undo_history) - 1
        <5> DEFINE n == Len(undo_history)
                   m == Len(undo_history')
        <5>0. n \in Nat /\ k \in 1 .. n + 1 /\ m = n + 2 - k /\ i \in 1 .. m - 1 /\ i # m - 1
          BY <1>0, <2>1, <3>2
        <5> HIDE DEF n, m
        <5>a. i + 1 \in 1 .. m - 1
          BY <5>0
        <5>b. (i + 1) + k - 1 = (i + k - 1) + 1 /\ i + k - 1 \in 1 .. n - 1
          BY <5>0
        <5>1. i + 1 \in 1 .. Len(undo_history') - 1
          BY <5>a DEF m
        <5>2. /\ undo_history'[i] = undo_history[i + k - 1]
              /\ undo_history'[i + 1] = undo_history[(i + 1) + k - 1]
          BY <2>1, <5>1
        <5>3. /\ (i + 1) + k - 1 = (i + k - 1) + 1
              /\ i + k - 1 \in 1 .. Len(undo_history) - 1
          BY <5>b DEF n
        <5>4. QED
          BY <5>2, <5>3
      <4>2. Follows(undo_history[(i + k - 1) + 1], undo_history[i + k - 1])
        BY <4>1 DEF HistoryChain
      <4>3. QED
        BY <4>1, <4>2 DEF Follows
    <3>3. QED
      BY <3>1, <3>2
  <2>4. QED
    BY <1>0, <2>1, <2>2, <2>3 DEF HistoryChain
<1>2. CASE Undo
  <2> DEFINE e == Last(undo_history)
  <2>1. /\ undo_history # <<>>
        /\ document' = e.before_document
        /\ current_document_token' = e.before_token
        /\ undo_history' = Front(undo_history)
        /\ redo_history' = Append(redo_history, e)
    BY <1>2 DEF Undo, Restore
  <2>2. /\ e = undo_history[Len(undo_history)]
        /\ Len(undo_history') = Len(undo_history) - 1
        /\ \A i \in 1 .. Len(undo_history') : undo_history'[i] = undo_history[i]
        /\ undo_history' # <<>> =>
             /\ Len(undo_history') # 0
             /\ Last(undo_history') = undo_history[Len(undo_history) - 1]
        /\ Len(redo_history') = Len(redo_history) + 1
        /\ \A i \in 1 .. Len(redo_history) : redo_history'[i] = redo_history[i]
        /\ redo_history'[Len(redo_history) + 1] = e
        /\ Last(redo_history') = e
    <3>1. TopMoves(HistoryEntry, undo_history, redo_history, undo_history', redo_history')
      BY <1>0, <2>1, MovedTop
    <3>2. QED
      BY <3>1 DEF TopMoves
  <2>3. e.after_document = document /\ e.after_token = current_document_token
    BY <2>1 DEF HistoryChain
  <2> HIDE DEF e
  <2>4. ASSUME NEW i \in 1 .. Len(undo_history') - 1
        PROVE  Follows(undo_history'[i + 1], undo_history'[i])
    <3>1. /\ undo_history'[i] = undo_history[i]
          /\ undo_history'[i + 1] = undo_history[i + 1]
          /\ i \in 1 .. Len(undo_history) - 1
      BY <1>0, <2>2
    <3>2. QED
      BY <3>1 DEF HistoryChain
  <2>5. ASSUME undo_history' # <<>>
        PROVE  /\ Last(undo_history').after_document = document'
               /\ Last(undo_history').after_token = current_document_token'
    <3>1. /\ Last(undo_history') = undo_history[Len(undo_history) - 1]
          /\ Len(undo_history) - 1 \in 1 .. Len(undo_history) - 1
      BY <1>0, <2>2, <2>5
    <3>2. Follows(undo_history[(Len(undo_history) - 1) + 1],
                  undo_history[Len(undo_history) - 1])
      BY <3>1 DEF HistoryChain
    <3>3. undo_history[(Len(undo_history) - 1) + 1] = e
      BY <1>0, <2>2
    <3>4. QED
      BY <2>1, <3>1, <3>2, <3>3 DEF Follows
  <2>6. ASSUME NEW i \in 1 .. Len(redo_history') - 1
        PROVE  Follows(redo_history'[i], redo_history'[i + 1])
    <3>1. CASE i = Len(redo_history)
      <4>1. redo_history'[i] = Last(redo_history) /\ redo_history # <<>>
        BY <1>0, <2>2, <3>1 DEF Last
      <4>2. redo_history'[i + 1] = e
        BY <1>0, <2>2, <3>1
      <4>3. /\ Last(redo_history).before_document = document
            /\ Last(redo_history).before_token = current_document_token
        BY <4>1 DEF HistoryChain
      <4>4. QED
        BY <2>3, <4>1, <4>2, <4>3 DEF Follows
    <3>2. CASE i # Len(redo_history)
      <4>1. /\ redo_history'[i] = redo_history[i]
            /\ redo_history'[i + 1] = redo_history[i + 1]
            /\ i \in 1 .. Len(redo_history) - 1
        BY <1>0, <2>2, <3>2
      <4>2. QED
        BY <4>1 DEF HistoryChain
    <3>3. QED
      BY <3>1, <3>2
  <2>7. QED
    BY <2>1, <2>2, <2>4, <2>5, <2>6 DEF HistoryChain
<1>3. CASE Redo
  <2> DEFINE e == Last(redo_history)
  <2>1. /\ redo_history # <<>>
        /\ document' = e.after_document
        /\ current_document_token' = e.after_token
        /\ redo_history' = Front(redo_history)
        /\ undo_history' = Append(undo_history, e)
    BY <1>3 DEF Redo, Restore
  <2>2. /\ e = redo_history[Len(redo_history)]
        /\ Len(redo_history') = Len(redo_history) - 1
        /\ \A i \in 1 .. Len(redo_history') : redo_history'[i] = redo_history[i]
        /\ redo_history' # <<>> =>
             /\ Len(redo_history') # 0
             /\ Last(redo_history') = redo_history[Len(redo_history) - 1]
        /\ Len(undo_history') = Len(undo_history) + 1
        /\ \A i \in 1 .. Len(undo_history) : undo_history'[i] = undo_history[i]
        /\ undo_history'[Len(undo_history) + 1] = e
        /\ Last(undo_history') = e
    BY <1>0, <2>1, MoveTop
  <2>3. e.before_document = document /\ e.before_token = current_document_token
    BY <2>1 DEF HistoryChain
  <2> HIDE DEF e
  <2>4. ASSUME NEW i \in 1 .. Len(redo_history') - 1
        PROVE  Follows(redo_history'[i], redo_history'[i + 1])
    <3>1. /\ redo_history'[i] = redo_history[i]
          /\ redo_history'[i + 1] = redo_history[i + 1]
          /\ i \in 1 .. Len(redo_history) - 1
      BY <1>0, <2>2
    <3>2. QED
      BY <3>1 DEF HistoryChain
  <2>5. ASSUME redo_history' # <<>>
        PROVE  /\ Last(redo_history').before_document = document'
               /\ Last(redo_history').before_token = current_document_token'
    <3>1. /\ Last(redo_history') = redo_history[Len(redo_history) - 1]
          /\ Len(redo_history) - 1 \in 1 .. Len(redo_history) - 1
      BY <1>0, <2>2, <2>5
    <3>2. Follows(redo_history[Len(redo_history) - 1],
                  redo_history[(Len(redo_history) - 1) + 1])
      BY <3>1 DEF HistoryChain
    <3>3. redo_history[(Len(redo_history) - 1) + 1] = e
      BY <1>0, <2>2
    <3>4. QED
      BY <2>1, <3>1, <3>2, <3>3 DEF Follows
  <2>6. ASSUME NEW i \in 1 .. Len(undo_history') - 1
        PROVE  Follows(undo_history'[i + 1], undo_history'[i])
    <3>1. CASE i = Len(undo_history)
      <4>1. undo_history'[i] = Last(undo_history) /\ undo_history # <<>>
        BY <1>0, <2>2, <3>1 DEF Last
      <4>2. undo_history'[i + 1] = e
        BY <1>0, <2>2, <3>1
      <4>3. /\ Last(undo_history).after_document = document
            /\ Last(undo_history).after_token = current_document_token
        BY <4>1 DEF HistoryChain
      <4>4. QED
        BY <2>3, <4>1, <4>2, <4>3 DEF Follows
    <3>2. CASE i # Len(undo_history)
      <4>1. /\ undo_history'[i] = undo_history[i]
            /\ undo_history'[i + 1] = undo_history[i + 1]
            /\ i \in 1 .. Len(undo_history) - 1
        BY <1>0, <2>2, <3>2
      <4>2. QED
        BY <4>1 DEF HistoryChain
    <3>3. QED
      BY <3>1, <3>2
  <2>7. QED
    BY <2>1, <2>2, <2>4, <2>5, <2>6 DEF HistoryChain
<1>4. CASE Checkout
  BY <1>4 DEF Checkout, tokens, HistoryChain
<1>5. CASE \E r \in 0 .. MaxRevision : MarkSaved(r)
  BY <1>5 DEF MarkSaved, HistoryChain
<1>6. CASE ClearHistory
  BY <1>0, <1>6 DEF ClearHistory, tokens, HistoryChain
<1>7. CASE UNCHANGED vars
  BY <1>7 DEF vars, state, tokens, HistoryChain
<1>8. QED
  BY <1>1, <1>2, <1>3, <1>4, <1>5, <1>6, <1>7 DEF Next

(* The documents on the two stacks form one line through the current one in *)
(* every reachable state.                                                   *)
THEOREM ChainUnbroken == Spec => []HistoryChain
<1>1. TypeOK /\ HistoryChain /\ [Next]_vars => HistoryChain'
  BY NextChain
<1>2. QED
  BY InitChain, <1>1, TypeCorrectness, PTL DEF Spec

-----------------------------------------------------------------------------
(* Tokens *)

(* A step that brings in no version but that of the next token, and raises  *)
(* the next token when it does, keeps tokens and documents in agreement.    *)
LEMMA TokensPreserved ==
  ASSUME TypeOK, TokensIdentifyDocuments,
         \/ /\ Versions' \subseteq Versions
            /\ next_document_token' = next_document_token
         \/ /\ Versions' \subseteq Versions
                   \cup {[token |-> next_document_token, document |-> document']}
            /\ next_document_token' = next_document_token + 1
            /\ \A v \in Versions : v.token \in Nat
  PROVE  TokensIdentifyDocuments'
<1>1. CASE /\ Versions' \subseteq Versions
           /\ next_document_token' = next_document_token
  BY <1>1 DEF TokensIdentifyDocuments
<1>2. CASE /\ Versions' \subseteq Versions
                   \cup {[token |-> next_document_token, document |-> document']}
           /\ next_document_token' = next_document_token + 1
           /\ \A v \in Versions : v.token \in Nat
  <2> DEFINE new == [token |-> next_document_token, document |-> document']
  <2>1. new.token = next_document_token /\ next_document_token \in Nat
    BY DEF TypeOK
  <2> HIDE DEF new
  <2>2. \A v \in Versions : v.token # new.token /\ v.token < next_document_token
    BY <1>2, <2>1 DEF TokensIdentifyDocuments
  <2>3. \A v \in Versions' : v \in Versions \/ v = new
    BY <1>2 DEF new
  <2>4. \A v \in Versions' : v.token < next_document_token'
    BY <1>2, <2>1, <2>2, <2>3
  <2>5. \A v, w \in Versions' : v.token = w.token => v.document = w.document
    BY <2>2, <2>3 DEF TokensIdentifyDocuments
  <2>6. QED
    BY <2>4, <2>5 DEF TokensIdentifyDocuments
<1>3. QED
  BY <1>1, <1>2

(* A session just opened knows one document, under token 0. *)
LEMMA InitTokens == Init => TokensIdentifyDocuments
<1> SUFFICES ASSUME Init
             PROVE  TokensIdentifyDocuments
  OBVIOUS
<1>1. Entries = {}
  BY EmptySeq DEF Init, Entries, Range
<1>2. \A v \in Versions : v = [token |-> 0, document |-> InitialDocument]
  BY <1>1 DEF Init, Versions
<1>3. QED
  BY <1>2 DEF Init, TokensIdentifyDocuments

(* Only a command introduces a version, and gives it the next token. *)
LEMMA NextTokens ==
  ASSUME TypeOK, HistoryChain, TokensIdentifyDocuments, [Next]_vars
  PROVE  TokensIdentifyDocuments'
<1>0. /\ undo_history \in Seq(HistoryEntry)
      /\ redo_history \in Seq(HistoryEntry)
      /\ Range(<<>>) = {}
  BY EmptySeq DEF TypeOK, Range
<1>1. CASE Execute
  <2>1. PICK e \in HistoryEntry :
          /\ e.before_document = document /\ e.after_document = document'
          /\ e.before_token = current_document_token
          /\ e.after_token = next_document_token
          /\ Range(undo_history') \subseteq Range(undo_history) \cup {e}
          /\ redo_history' = <<>>
    BY <1>1, ExecuteStacks
  <2>2. /\ current_document_token' = next_document_token
        /\ next_document_token' = next_document_token + 1
        /\ saved_document_token' = saved_document_token
        /\ checkpoint' = checkpoint
    BY <1>1 DEF Execute
  <2>3. Entries' \subseteq Entries \cup {e}
    BY <1>0, <2>1 DEF Entries
  <2>4. Versions' \subseteq Versions
              \cup {[token |-> next_document_token, document |-> document']}
    BY <2>1, <2>2, <2>3 DEF Versions
  <2>5. \A v \in Versions : v.token \in Nat
    <3>1. Entries \subseteq HistoryEntry
      BY <1>0, LenProperties, ElementOfSeq DEF Entries, Range
    <3>2. QED
      BY <3>1 DEF Versions, HistoryEntry, TypeOK
  <2>6. QED
    BY <2>2, <2>4, <2>5, TokensPreserved
<1>2. CASE Undo
  <2> DEFINE e == Last(undo_history)
  <2>1. /\ undo_history # <<>>
        /\ document' = e.before_document
        /\ current_document_token' = e.before_token
        /\ undo_history' = Front(undo_history)
        /\ redo_history' = Append(redo_history, e)
        /\ UNCHANGED <<saved_document_token, next_document_token, checkpoint>>
    BY <1>2 DEF Undo, Restore
  <2>2. /\ e \in Range(undo_history)
        /\ Range(undo_history') \subseteq Range(undo_history)
        /\ Range(redo_history') = Range(redo_history) \cup {e}
    BY <1>0, <2>1, MoveTop
  <2> HIDE DEF e
  <2>3. e \in Entries /\ Entries' \subseteq Entries
    BY <2>2 DEF Entries
  <2>4. Versions' \subseteq Versions
    BY <2>1, <2>3 DEF Versions
  <2>5. QED
    BY <2>1, <2>4, TokensPreserved
<1>3. CASE Redo
  <2> DEFINE e == Last(redo_history)
  <2>1. /\ redo_history # <<>>
        /\ document' = e.after_document
        /\ current_document_token' = e.after_token
        /\ redo_history' = Front(redo_history)
        /\ undo_history' = Append(undo_history, e)
        /\ UNCHANGED <<saved_document_token, next_document_token, checkpoint>>
    BY <1>3 DEF Redo, Restore
  <2>2. /\ e \in Range(redo_history)
        /\ Range(redo_history') \subseteq Range(redo_history)
        /\ Range(undo_history') = Range(undo_history) \cup {e}
    BY <1>0, <2>1, MoveTop
  <2> HIDE DEF e
  <2>3. e \in Entries /\ Entries' \subseteq Entries
    BY <2>2 DEF Entries
  <2>4. Versions' \subseteq Versions
    BY <2>1, <2>3 DEF Versions
  <2>5. QED
    BY <2>1, <2>4, TokensPreserved
<1>4. CASE Checkout
  BY <1>4 DEF Checkout, tokens, TokensIdentifyDocuments, Versions, Entries
<1>5. CASE \E r \in 0 .. MaxRevision : MarkSaved(r)
  <2>1. /\ saved_document_token' = current_document_token
        /\ checkpoint' = document
        /\ UNCHANGED <<document, undo_history, redo_history,
                       current_document_token, next_document_token>>
    BY <1>5 DEF MarkSaved
  <2>2. Versions' \subseteq Versions
    BY <2>1 DEF Versions, Entries
  <2>3. QED
    BY <2>1, <2>2, TokensPreserved
<1>6. CASE ClearHistory
  <2>1. /\ Entries' = {}
        /\ UNCHANGED <<document, checkpoint, current_document_token,
                       saved_document_token, next_document_token>>
    BY <1>0, <1>6 DEF ClearHistory, Entries, tokens
  <2>2. Versions' \subseteq Versions
    BY <2>1 DEF Versions
  <2>3. QED
    BY <2>1, <2>2, TokensPreserved
<1>7. CASE UNCHANGED vars
  BY <1>7 DEF vars, state, tokens, TokensIdentifyDocuments, Versions, Entries
<1>8. QED
  BY <1>1, <1>2, <1>3, <1>4, <1>5, <1>6, <1>7 DEF Next

-----------------------------------------------------------------------------
(* Selection and flags *)

(* The root is selected first, and is a node of every document. *)
LEMMA InitSelections == Init => SelectionsExist
<1>1. Range(<<>>) = {}
  BY EmptySeq DEF Range
<1>2. QED
  BY <1>1, DocumentsAssumption DEF Init, SelectionsExist, Entries

(* Every operation leaves the selection, and those in the history, valid. *)
LEMMA NextSelections ==
  ASSUME TypeOK, SelectionsExist, [Next]_vars
  PROVE  SelectionsExist'
<1>0. /\ undo_history \in Seq(HistoryEntry)
      /\ redo_history \in Seq(HistoryEntry)
      /\ Range(<<>>) = {}
  BY EmptySeq DEF TypeOK, Range
<1>1. CASE Execute
  <2>1. PICK e \in HistoryEntry :
          /\ e.before_document = document /\ e.after_document = document'
          /\ e.before_current = current_node /\ e.after_current = current_node'
          /\ Range(undo_history') \subseteq Range(undo_history) \cup {e}
          /\ redo_history' = <<>>
    BY <1>1, ExecuteStacks
  <2>2. current_node' \in NodesOf(document')
    BY <1>1 DEF Execute
  <2>3. Entries' \subseteq Entries \cup {e}
    BY <1>0, <2>1 DEF Entries
  <2>4. /\ e.before_current \in NodesOf(e.before_document)
        /\ e.after_current \in NodesOf(e.after_document)
    BY <2>1, <2>2 DEF SelectionsExist
  <2>5. QED
    BY <2>2, <2>3, <2>4 DEF SelectionsExist
<1>2. CASE Undo
  <2> DEFINE e == Last(undo_history)
  <2>1. /\ undo_history # <<>>
        /\ document' = e.before_document
        /\ current_node' = e.before_current
        /\ undo_history' = Front(undo_history)
        /\ redo_history' = Append(redo_history, e)
    BY <1>2 DEF Undo, Restore
  <2>2. /\ e \in Range(undo_history)
        /\ Range(undo_history') \subseteq Range(undo_history)
        /\ Range(redo_history') = Range(redo_history) \cup {e}
    BY <1>0, <2>1, MoveTop
  <2> HIDE DEF e
  <2>3. e \in Entries /\ Entries' \subseteq Entries
    BY <2>2 DEF Entries
  <2>4. QED
    BY <2>1, <2>3 DEF SelectionsExist
<1>3. CASE Redo
  <2> DEFINE e == Last(redo_history)
  <2>1. /\ redo_history # <<>>
        /\ document' = e.after_document
        /\ current_node' = e.after_current
        /\ redo_history' = Front(redo_history)
        /\ undo_history' = Append(undo_history, e)
    BY <1>3 DEF Redo, Restore
  <2>2. /\ e \in Range(redo_history)
        /\ Range(redo_history') \subseteq Range(redo_history)
        /\ Range(undo_history') = Range(undo_history) \cup {e}
    BY <1>0, <2>1, MoveTop
  <2> HIDE DEF e
  <2>3. e \in Entries /\ Entries' \subseteq Entries
    BY <2>2 DEF Entries
  <2>4. QED
    BY <2>1, <2>3 DEF SelectionsExist
<1>4. CASE Checkout
  BY <1>4 DEF Checkout, tokens, SelectionsExist, Entries
<1>5. CASE \E r \in 0 .. MaxRevision : MarkSaved(r)
  BY <1>5 DEF MarkSaved, SelectionsExist, Entries
<1>6. CASE ClearHistory
  BY <1>0, <1>6 DEF ClearHistory, tokens, SelectionsExist, Entries
<1>7. CASE UNCHANGED vars
  BY <1>7 DEF vars, state, tokens, SelectionsExist, Entries
<1>8. QED
  BY <1>1, <1>2, <1>3, <1>4, <1>5, <1>6, <1>7 DEF Next

(* The flags of a session just opened agree with its empty history. *)
LEMMA InitFlags == Init => FlagsMatchHistory
BY DEF Init, FlagsMatchHistory

(* Every operation sets the flags to what the stacks and the tokens say. *)
LEMMA NextFlags ==
  ASSUME TypeOK, FlagsMatchHistory, [Next]_vars
  PROVE  FlagsMatchHistory'
<1>0. /\ undo_history \in Seq(HistoryEntry)
      /\ redo_history \in Seq(HistoryEntry)
  BY DEF TypeOK
<1>1. CASE Execute
  <2>1. undo_history' # <<>> /\ redo_history' = <<>>
    BY <1>1, ExecuteStacks
  <2>2. QED
    BY <1>1, <2>1 DEF Execute, FlagsMatchHistory
<1>2. CASE Undo
  <2>1. redo_history' # <<>>
    BY <1>0, <1>2, MoveTop DEF Undo, Restore
  <2>2. QED
    BY <1>2, <2>1 DEF Undo, Restore, FlagsMatchHistory
<1>3. CASE Redo
  <2>1. undo_history' # <<>>
    BY <1>0, <1>3, MoveTop DEF Redo, Restore
  <2>2. QED
    BY <1>3, <2>1 DEF Redo, Restore, FlagsMatchHistory
<1>4. CASE Checkout
  BY <1>4 DEF Checkout, tokens, FlagsMatchHistory
<1>5. CASE \E r \in 0 .. MaxRevision : MarkSaved(r)
  BY <1>5 DEF MarkSaved, FlagsMatchHistory
<1>6. CASE ClearHistory
  BY <1>6 DEF ClearHistory, tokens, FlagsMatchHistory
<1>7. CASE UNCHANGED vars
  BY <1>7 DEF vars, state, tokens, FlagsMatchHistory
<1>8. QED
  BY <1>1, <1>2, <1>3, <1>4, <1>5, <1>6, <1>7 DEF Next

-----------------------------------------------------------------------------
(* The inductive invariant and what follows from it *)

IInv ==
  /\ TypeOK
  /\ HistoryChain
  /\ TokensIdentifyDocuments
  /\ SelectionsExist
  /\ FlagsMatchHistory

(* IInv is inductive, hence holds in every reachable state.  The chain is   *)
(* what makes the token of an undone entry the token of its document; the   *)
(* freshness of the next token is what keeps a new document from taking the *)
(* token of a saved one.                                                    *)
THEOREM Inductive == Spec => []IInv
<1>1. Init => IInv
  BY InitTypeOK, InitChain, InitTokens, InitSelections, InitFlags DEF IInv
<1>2. IInv /\ [Next]_vars => IInv'
  BY NextTypeOK, NextChain, NextTokens, NextSelections, NextFlags DEF IInv
<1>3. QED
  BY <1>1, <1>2, PTL DEF Spec

(* No two documents the session remembers share a token.                    *)
THEOREM TokensSound == Spec => []TokensIdentifyDocuments
<1>1. IInv => TokensIdentifyDocuments
  BY DEF IInv
<1>2. QED
  BY Inductive, <1>1, PTL

(* Equal tokens mean equal documents: a clean session is the saved one. *)
LEMMA CleanFromTokens == IInv => CleanMeansSaved
<1> SUFFICES ASSUME IInv, ~dirty
             PROVE  document = checkpoint
  BY DEF CleanMeansSaved
<1>1. current_document_token = saved_document_token
  BY DEF IInv, FlagsMatchHistory
<1> DEFINE v == [token |-> current_document_token, document |-> document]
           w == [token |-> saved_document_token, document |-> checkpoint]
<1>2. v \in Versions /\ w \in Versions
  BY DEF Versions
<1>3. v.document = w.document
  BY <1>1, <1>2 DEF IInv, TokensIdentifyDocuments
<1>4. QED
  BY <1>3

(* A session that is not dirty holds the document it last marked saved.     *)
THEOREM CleanSessionIsSaved == Spec => []CleanMeansSaved
BY Inductive, CleanFromTokens, PTL

(* The selection exists in the document, now and after any undo or redo.    *)
THEOREM SelectionSound == Spec => []SelectionsExist
<1>1. IInv => SelectionsExist
  BY DEF IInv
<1>2. QED
  BY Inductive, <1>1, PTL

(* can_undo, can_redo and dirty agree with the stacks and the tokens.       *)
THEOREM FlagsSound == Spec => []FlagsMatchHistory
<1>1. IInv => FlagsMatchHistory
  BY DEF IInv
<1>2. QED
  BY Inductive, <1>1, PTL

(* Once the saved state is cut off from the history, the session stays      *)
(* dirty until the next save, for every limit and every later command.      *)
THEOREM LostCheckpoint == Spec => LostCheckpointStaysDirty
<1> DEFINE Lost == saved_document_token \notin ReachableTokens
<1>1. ASSUME IInv, IInv', [Next]_vars, Lost, saved_document_token' = saved_document_token
      PROVE  dirty' /\ saved_document_token' \notin ReachableTokens'
  <2>0. /\ undo_history \in Seq(HistoryEntry)
        /\ redo_history \in Seq(HistoryEntry)
        /\ Range(<<>>) = {}
    BY <1>1, EmptySeq DEF IInv, TypeOK, Range
  <2>1. current_document_token' \in ReachableTokens'
    BY DEF ReachableTokens
  <2>2. SUFFICES saved_document_token \notin ReachableTokens'
    BY <1>1, <2>1 DEF IInv, FlagsMatchHistory
  <2>3. CASE Execute
    <3>1. PICK e \in HistoryEntry :
            /\ e.before_token = current_document_token
            /\ Range(undo_history') \subseteq Range(undo_history) \cup {e}
            /\ redo_history' = <<>>
      BY <1>1, <2>3, ExecuteStacks DEF IInv
    <3>2. ReachableTokens' \subseteq ReachableTokens \cup {next_document_token}
      BY <2>0, <2>3, <3>1 DEF Execute, ReachableTokens
    <3>3. saved_document_token # next_document_token
      <4> DEFINE w == [token |-> saved_document_token, document |-> checkpoint]
      <4>1. w \in Versions
        BY DEF Versions
      <4>2. w.token < next_document_token
        BY <1>1, <4>1 DEF IInv, TokensIdentifyDocuments
      <4>3. saved_document_token \in Nat /\ next_document_token \in Nat
        BY <1>1 DEF IInv, TypeOK
      <4>4. QED
        BY <4>2, <4>3
    <3>4. QED
      BY <1>1, <3>2, <3>3
  <2>4. CASE Undo
    <3> DEFINE e == Last(undo_history)
    <3>1. /\ undo_history # <<>>
          /\ current_document_token' = e.before_token
          /\ undo_history' = Front(undo_history)
          /\ redo_history' = Append(redo_history, e)
      BY <2>4 DEF Undo, Restore
    <3>2. /\ e \in Range(undo_history)
          /\ Range(undo_history') \subseteq Range(undo_history)
          /\ Range(redo_history') = Range(redo_history) \cup {e}
      BY <2>0, <3>1, MoveTop
    <3>3. e.after_token = current_document_token
      BY <1>1, <3>1 DEF IInv, HistoryChain
    <3> HIDE DEF e
    <3>4. ReachableTokens' \subseteq ReachableTokens
      BY <3>1, <3>2, <3>3 DEF ReachableTokens
    <3>5. QED
      BY <1>1, <3>4
  <2>5. CASE Redo
    <3> DEFINE e == Last(redo_history)
    <3>1. /\ redo_history # <<>>
          /\ current_document_token' = e.after_token
          /\ redo_history' = Front(redo_history)
          /\ undo_history' = Append(undo_history, e)
      BY <2>5 DEF Redo, Restore
    <3>2. /\ e \in Range(redo_history)
          /\ Range(redo_history') \subseteq Range(redo_history)
          /\ Range(undo_history') = Range(undo_history) \cup {e}
      BY <2>0, <3>1, MoveTop
    <3>3. e.before_token = current_document_token
      BY <1>1, <3>1 DEF IInv, HistoryChain
    <3> HIDE DEF e
    <3>4. ReachableTokens' \subseteq ReachableTokens
      BY <3>1, <3>2, <3>3 DEF ReachableTokens
    <3>5. QED
      BY <1>1, <3>4
  <2>6. CASE Checkout
    BY <1>1, <2>6 DEF Checkout, tokens, ReachableTokens
  <2>7. CASE \E r \in 0 .. MaxRevision : MarkSaved(r)
    BY <1>1, <2>7 DEF MarkSaved, ReachableTokens
  <2>8. CASE ClearHistory
    BY <1>1, <2>0, <2>8 DEF ClearHistory, tokens, ReachableTokens
  <2>9. CASE UNCHANGED vars
    BY <1>1, <2>9 DEF vars, state, tokens, ReachableTokens
  <2>10. QED
    BY <1>1, <2>3, <2>4, <2>5, <2>6, <2>7, <2>8, <2>9 DEF Next
<1>2. IInv /\ IInv' /\ [Next]_vars => LostCheckpointStep
  BY <1>1 DEF LostCheckpointStep
<1>3. QED
  BY Inductive, <1>2, PTL DEF Spec, LostCheckpointStaysDirty

-----------------------------------------------------------------------------
(* Limits *)

(* Costs are numbers, and a new session has no history. *)
LEMMA InitLimits == Init => HistoryWithinLimits
<1>1. \A e \in HistoryEntry : e.cost \in Nat
  BY LimitsAssumption DEF HistoryEntry
<1>2. <<>> \in Seq(HistoryEntry) /\ Len(<<>>) = 0
  BY EmptySeq
<1>3. Bytes(<<>>) = 0
  BY <1>1, <1>2, BytesOfStacks
<1>4. QED
  BY <1>2, <1>3, HistoryLimitsAssumption DEF Init, HistoryWithinLimits

(* A command leaves a trimmed undo stack and no redo stack; undo and redo   *)
(* move one entry, and its cost with it.                                    *)
LEMMA NextLimits ==
  TypeOK /\ HistoryWithinLimits /\ [Next]_vars => HistoryWithinLimits'
<1> SUFFICES ASSUME TypeOK, HistoryWithinLimits, [Next]_vars
             PROVE  HistoryWithinLimits'
  OBVIOUS
<1>0. /\ undo_history \in Seq(HistoryEntry) /\ Len(undo_history) \in Nat
      /\ redo_history \in Seq(HistoryEntry) /\ Len(redo_history) \in Nat
      /\ MaxHistoryEntries \in Nat /\ MaxHistoryBytes \in Nat
  BY LenProperties, HistoryLimitsAssumption DEF TypeOK
<1>a. \A e \in HistoryEntry : e.cost \in Nat
  BY LimitsAssumption DEF HistoryEntry
<1>b. Bytes(undo_history) \in Nat /\ Bytes(redo_history) \in Nat
  BY <1>0, <1>a, BytesOfStacks
<1>c. Len(<<>>) = 0 /\ Bytes(<<>>) = 0
  BY <1>a, EmptySeq, BytesOfStacks
<1>1. CASE Execute
  <2>1. /\ undo_history' \in Seq(HistoryEntry)
        /\ redo_history' = <<>>
    BY <1>1, ExecuteStacks
  <2>2. PICK cost \in Costs :
          StoreHistory([before_document |-> document,
                        after_document  |-> document',
                        before_current  |-> current_node,
                        after_current   |-> current_node',
                        before_token    |-> current_document_token,
                        after_token     |-> next_document_token,
                        cost            |-> cost])
    BY <1>1 DEF Execute
  <2> DEFINE entry == [before_document |-> document,
                       after_document  |-> document',
                       before_current  |-> current_node,
                       after_current   |-> current_node',
                       before_token    |-> current_document_token,
                       after_token     |-> next_document_token,
                       cost            |-> cost]
             next == Append(undo_history, entry)
  <2>3. /\ MaxHistoryEntries # 0
        /\ entry.cost <= MaxHistoryBytes
        /\ \E k \in 1 .. Len(next) :
             TrimPoint(next, k) /\ undo_history' = SubSeq(next, k, Len(next))
    BY <2>2 DEF StoreHistory
  <2>4. entry \in HistoryEntry
    <3>1. document \in Documents /\ document' \in Documents
      BY <1>1 DEF TypeOK, Execute
    <3>2. current_node \in Nodes /\ current_node' \in Nodes
      BY <1>1, <3>1, DocumentsAssumption DEF TypeOK, Execute
    <3>3. QED
      BY <3>1, <3>2 DEF TypeOK, HistoryEntry
  <2> HIDE DEF entry
  <2>5. PICK k \in 1 .. Len(next) :
          TrimPoint(next, k) /\ undo_history' = SubSeq(next, k, Len(next))
    BY <2>3
  <2>6. /\ next \in Seq(HistoryEntry) /\ Len(next) \in Nat
        /\ Last(next) = entry
    BY <1>0, <2>4, PushElements, LenProperties
  <2> HIDE DEF next
  <2>7. CASE WithinLimits(SubSeq(next, k, Len(next)))
    <3>1. /\ Len(undo_history') <= MaxHistoryEntries
          /\ Bytes(undo_history') <= MaxHistoryBytes
      BY <2>5, <2>7 DEF WithinLimits
    <3>2. Len(undo_history') \in Nat /\ Bytes(undo_history') \in Nat
      BY <1>a, <2>1, BytesOfStacks, LenProperties
    <3>3. Len(redo_history') = 0 /\ Bytes(redo_history') = 0
      BY <1>c, <2>1
    <3>4. QED
      BY <1>0, <3>1, <3>2, <3>3 DEF HistoryWithinLimits
  <2>8. CASE k = Len(next)
    <3>1. /\ Len(undo_history') = Len(next) - k + 1
          /\ Last(undo_history') = Last(next)
      BY <2>5, <2>6, TrimElements
    <3>2. Len(undo_history') = 1 /\ undo_history'[1] = entry
      BY <2>6, <2>8, <3>1 DEF Last
    <3>3. Bytes(undo_history') = entry.cost
      BY <1>a, <2>1, <3>2, BytesOfStacks
    <3>4. QED
      BY <1>0, <1>a, <1>c, <2>1, <2>3, <2>4, <3>2, <3>3 DEF HistoryWithinLimits
  <2>9. QED
    BY <2>5, <2>7, <2>8 DEF TrimPoint
<1>2. CASE Undo
  <2> DEFINE e == Last(undo_history)
  <2>1. /\ undo_history # <<>>
        /\ undo_history' = Front(undo_history)
        /\ redo_history' = Append(redo_history, e)
    BY <1>2 DEF Undo
  <2>2. /\ e \in HistoryEntry
        /\ undo_history' \in Seq(HistoryEntry)
        /\ Len(undo_history') = Len(undo_history) - 1
        /\ Len(redo_history') = Len(redo_history) + 1
    BY <1>0, <2>1, MoveTop
  <2>3. Bytes(undo_history) = Bytes(undo_history') + e.cost
    BY <1>0, <1>a, <2>1, BytesOfStacks
  <2> HIDE DEF e
  <2>4. Bytes(redo_history') = Bytes(redo_history) + e.cost
    BY <1>0, <1>a, <2>1, <2>2, BytesOfStacks
  <2>5. /\ Bytes(undo_history') \in Nat /\ Bytes(redo_history) \in Nat
        /\ e.cost \in Nat
    BY <1>0, <1>a, <2>2, BytesOfStacks
  <2>6. Len(undo_history) \in Nat /\ Len(redo_history) \in Nat
    BY <1>0, LenProperties
  <2>7. Bytes(undo_history') + Bytes(redo_history') = Bytes(undo_history) + Bytes(redo_history)
    BY <2>3, <2>4, <2>5
  <2>8. Len(undo_history') + Len(redo_history') = Len(undo_history) + Len(redo_history)
    BY <2>2, <2>6
  <2>9. QED
    BY <2>7, <2>8 DEF HistoryWithinLimits
<1>3. CASE Redo
  <2> DEFINE e == Last(redo_history)
  <2>1. /\ redo_history # <<>>
        /\ redo_history' = Front(redo_history)
        /\ undo_history' = Append(undo_history, e)
    BY <1>3 DEF Redo
  <2>2. /\ e \in HistoryEntry
        /\ redo_history' \in Seq(HistoryEntry)
        /\ Len(redo_history') = Len(redo_history) - 1
        /\ Len(undo_history') = Len(undo_history) + 1
    BY <1>0, <2>1, MoveTop
  <2>3. Bytes(redo_history) = Bytes(redo_history') + e.cost
    BY <1>0, <1>a, <2>1, BytesOfStacks
  <2> HIDE DEF e
  <2>4. Bytes(undo_history') = Bytes(undo_history) + e.cost
    BY <1>0, <1>a, <2>1, <2>2, BytesOfStacks
  <2>5. /\ Bytes(redo_history') \in Nat /\ Bytes(undo_history) \in Nat
        /\ e.cost \in Nat
    BY <1>0, <1>a, <2>2, BytesOfStacks
  <2>6. Len(undo_history) \in Nat /\ Len(redo_history) \in Nat
    BY <1>0, LenProperties
  <2>7. Bytes(undo_history') + Bytes(redo_history') = Bytes(undo_history) + Bytes(redo_history)
    BY <2>3, <2>4, <2>5
  <2>8. Len(undo_history') + Len(redo_history') = Len(undo_history) + Len(redo_history)
    BY <2>2, <2>6
  <2>9. QED
    BY <2>7, <2>8 DEF HistoryWithinLimits
<1>4. CASE Checkout \/ \E r \in 0 .. MaxRevision : MarkSaved(r)
  BY <1>4 DEF Checkout, MarkSaved, HistoryWithinLimits
<1>5. CASE ClearHistory
  BY <1>0, <1>c, <1>5 DEF ClearHistory, HistoryWithinLimits
<1>6. CASE UNCHANGED vars
  BY <1>6 DEF vars, HistoryWithinLimits
<1>7. QED
  BY <1>1, <1>2, <1>3, <1>4, <1>5, <1>6 DEF Next

(* max_history_entries and max_history_bytes hold for both stacks together, *)
(* although store_history only ever measures the undo stack.                *)
THEOREM LimitsKept == Spec => []HistoryWithinLimits
<1>1. TypeOK /\ HistoryWithinLimits /\ [Next]_vars => HistoryWithinLimits'
  BY NextLimits
<1>2. QED
  BY <1>1, InitLimits, TypeCorrectness, PTL DEF Spec

-----------------------------------------------------------------------------
(* Refinement of UndoLog *)

(* The mapped stacks are sequences of documents, entry by entry. *)
StackFacts ==
  /\ Past \in Seq(Documents) /\ Len(Past) = Len(undo_history)
  /\ \A i \in 1 .. Len(Past) : Past[i] = undo_history[i].before_document
  /\ Future \in Seq(Documents) /\ Len(Future) = Len(redo_history)
  /\ \A i \in 1 .. Len(Future) : Future[i] = redo_history[i].after_document
  /\ Len(undo_history) \in Nat /\ Len(redo_history) \in Nat

(* Well-typed stacks are mapped to such sequences. *)
LEMMA StackTypes == TypeOK => StackFacts
<1> SUFFICES ASSUME TypeOK
             PROVE  StackFacts
  OBVIOUS
<1>1. /\ Len(undo_history) \in Nat /\ Len(redo_history) \in Nat
      /\ \A i \in 1 .. Len(undo_history) : undo_history[i] \in HistoryEntry
      /\ \A i \in 1 .. Len(redo_history) : redo_history[i] \in HistoryEntry
  BY LenProperties, ElementOfSeq DEF TypeOK
<1>2. /\ Past \in [1 .. Len(undo_history) -> Documents]
      /\ Future \in [1 .. Len(redo_history) -> Documents]
  BY <1>1 DEF Past, Future, HistoryEntry
<1>3. Past \in Seq(Documents) /\ Future \in Seq(Documents)
  BY <1>1, <1>2, SeqDef
<1>4. DOMAIN Past = 1 .. Len(undo_history) /\ DOMAIN Future = 1 .. Len(redo_history)
  BY DEF Past, Future
<1>5. Len(Past) = Len(undo_history) /\ Len(Future) = Len(redo_history)
  BY <1>1, <1>3, <1>4, LenProperties
<1>6. QED
  BY <1>1, <1>3, <1>5 DEF Past, Future, StackFacts

(* Equal flags and an unchanged checkpoint make every step respect the      *)
(* promise about clean.                                                     *)
LEMMA CleanPromise ==
  ASSUME IInv', UNCHANGED checkpoint
  PROVE  Log!CleanOnlyOverCheckpoint
<1>1. IInv' => CleanMeansSaved'
  BY CleanFromTokens, PTL
<1>2. ~dirty' => document' = checkpoint
  BY <1>1 DEF CleanMeansSaved
<1>3. (~dirty)' \in BOOLEAN
  OBVIOUS
<1>4. QED
  BY <1>2, <1>3 DEF Log!CleanOnlyOverCheckpoint

(* A command is an edit of the log: trimming keeps the newest memories. *)
LEMMA ExecuteRefines ==
  ASSUME IInv, IInv', Execute
  PROVE  Log!Edit
<1>1. PICK e \in HistoryEntry, k \in 1 .. Len(undo_history) + 1 :
        /\ e.before_document = document
        /\ Len(undo_history') = Len(undo_history) + 2 - k
        /\ undo_history'[Len(undo_history')] = e
        /\ \A i \in 1 .. Len(undo_history') - 1 :
             undo_history'[i] = undo_history[i + k - 1]
        /\ redo_history' = <<>>
  BY ExecuteStacks DEF IInv
<1> DEFINE n == Len(undo_history)
           all == Append(Past, document)
           kept == SubSeq(all, k, Len(all))
<1>2. /\ Past \in Seq(Documents) /\ Len(Past) = n
      /\ \A i \in 1 .. n : Past[i] = undo_history[i].before_document
      /\ n \in Nat
  BY StackTypes DEF IInv, StackFacts
<1>3. /\ Past' \in Seq(Documents) /\ Len(Past') = n + 2 - k
      /\ \A i \in 1 .. n + 2 - k : Past'[i] = undo_history'[i].before_document
      /\ Len(Future') = 0 /\ Future' \in Seq(Documents)
  <2>1. /\ Past' \in Seq(Documents) /\ Len(Past') = Len(undo_history')
        /\ \A i \in 1 .. Len(Past') : Past'[i] = undo_history'[i].before_document
        /\ Len(Future') = Len(redo_history') /\ Future' \in Seq(Documents)
    <3>1. TypeOK'
      BY DEF IInv
    <3>2. StackFacts'
      BY <3>1, StackTypes, PTL
    <3>3. QED
      BY <3>2 DEF StackFacts
  <2>2. QED
    BY <1>1, <2>1, EmptySeq
<1>4. document \in Documents /\ document' \in Documents \ {document}
  BY DEF IInv, TypeOK, Execute
<1>5. /\ all \in Seq(Documents) /\ Len(all) = n + 1
      /\ \A i \in 1 .. n : all[i] = Past[i]
      /\ all[n + 1] = document
  BY <1>2, <1>4, AppendProperties
<1> HIDE DEF n, all
<1>6. /\ kept \in Seq(Documents) /\ Len(kept) = n + 2 - k
      /\ \A i \in 1 .. Len(kept) : kept[i] = all[i + k - 1]
  <2>1. k \in 1 .. Len(all)
    BY <1>2, <1>5 DEF n
  <2>2. /\ kept \in Seq(Documents) /\ Len(kept) = Len(all) - k + 1
        /\ \A i \in 1 .. Len(kept) : kept[i] = all[i + k - 1]
    BY <1>5, <2>1, TrimElements
  <2>3. QED
    BY <1>2, <1>5, <2>1, <2>2
<1> HIDE DEF kept
<1>7. ASSUME NEW i \in 1 .. Len(Past')
      PROVE  Past'[i] = kept[i]
  <2>1. k \in 1 .. n + 1 /\ i \in 1 .. n + 2 - k
    BY <1>3, <1>7 DEF n
  <2>2. kept[i] = all[i + k - 1] /\ Past'[i] = undo_history'[i].before_document
    BY <1>3, <1>6, <2>1
  <2>3. CASE i = n + 2 - k
    <3>1. i + k - 1 = n + 1
      BY <1>2, <2>1, <2>3
    <3>2. undo_history'[i] = e
      BY <1>1, <2>3 DEF n
    <3>3. QED
      BY <1>1, <1>5, <2>2, <3>1, <3>2
  <2>4. CASE i # n + 2 - k
    <3>1. i + k - 1 \in 1 .. n /\ i \in 1 .. (n + 2 - k) - 1
      BY <1>2, <2>1, <2>4
    <3>2. undo_history'[i] = undo_history[i + k - 1]
      BY <1>1, <3>1 DEF n
    <3>3. QED
      BY <1>2, <1>5, <2>2, <3>1, <3>2
  <2>5. QED
    BY <2>3, <2>4
<1>8. Past' = kept
  <2>1. Len(Past') = Len(kept)
    BY <1>3, <1>6
  <2>2. QED
    BY <1>3, <1>6, <1>7, <2>1, SeqEqual
<1>9. Log!KeepsNewest(Past', Append(Past, document))
  <2>1. k \in 1 .. Len(all)
    BY <1>2, <1>5 DEF n
  <2>2. QED
    BY <1>8, <2>1 DEF kept, all, Log!KeepsNewest
<1>10. Future' = <<>>
  BY <1>3, EmptySeq
<1>11. UNCHANGED checkpoint
  BY DEF Execute
<1>12. QED
  BY <1>4, <1>9, <1>10, <1>11, CleanPromise DEF Log!Edit

(* Undo and redo map to their counterparts: the step moves one document     *)
(* across, and the chain says which.                                        *)
LEMMA UndoRefines ==
  ASSUME IInv, IInv', Undo
  PROVE  Log!Undo
<1> DEFINE e == Last(undo_history)
           n == Len(undo_history)
           m == Len(redo_history)
<1>1. /\ undo_history # <<>>
      /\ document' = e.before_document
      /\ undo_history' = Front(undo_history)
      /\ redo_history' = Append(redo_history, e)
      /\ UNCHANGED checkpoint
  BY DEF Undo, Restore
<1>2. /\ undo_history \in Seq(HistoryEntry)
      /\ redo_history \in Seq(HistoryEntry)
  BY DEF IInv, TypeOK
<1>3. /\ e = undo_history[n]
      /\ n \in Nat \ {0}
      /\ Len(undo_history') = n - 1
      /\ \A i \in 1 .. n - 1 : undo_history'[i] = undo_history[i]
      /\ Len(redo_history') = m + 1
      /\ \A i \in 1 .. m : redo_history'[i] = redo_history[i]
      /\ redo_history'[m + 1] = e
  <2>1. TopMoves(HistoryEntry, undo_history, redo_history, undo_history', redo_history')
    BY <1>1, <1>2, MovedTop
  <2>2. QED
    BY <2>1 DEF TopMoves
<1>4. e.after_document = document
  BY <1>1 DEF IInv, HistoryChain
<1>5. StackFacts /\ StackFacts'
  <2>1. TypeOK /\ TypeOK'
    BY DEF IInv
  <2>2. QED
    BY <2>1, StackTypes, PTL
<1> HIDE DEF e
<1>6. Past # <<>> /\ Last(Past) = e.before_document
  BY <1>3, <1>5, EmptySeq DEF StackFacts, Last
<1>7. Past' = Front(Past)
  <2>1. /\ Front(Past) \in Seq(Documents) /\ Len(Front(Past)) = n - 1
        /\ \A i \in 1 .. n - 1 : Front(Past)[i] = Past[i]
    BY <1>5, <1>6, PopElements DEF StackFacts
  <2>2. Past' \in Seq(Documents) /\ Len(Past') = n - 1
    BY <1>3, <1>5 DEF StackFacts
  <2>3. ASSUME NEW i \in 1 .. n - 1
        PROVE  Past'[i] = Front(Past)[i]
    <3>1. i \in 1 .. n
      BY <1>3
    <3>2. Past'[i] = undo_history[i].before_document
      BY <1>3, <1>5, <2>2 DEF StackFacts
    <3>3. Past[i] = undo_history[i].before_document
      BY <1>5, <3>1 DEF StackFacts
    <3>4. QED
      BY <2>1, <3>2, <3>3
  <2>4. QED
    BY <2>1, <2>2, <2>3, SeqEqual
<1>8. Future' = Append(Future, document)
  <2>1. document \in Documents /\ Len(Future) = m /\ m \in Nat
    BY <1>5 DEF IInv, TypeOK, StackFacts
  <2>2. /\ Append(Future, document) \in Seq(Documents)
        /\ Len(Append(Future, document)) = m + 1
        /\ \A i \in 1 .. m : Append(Future, document)[i] = Future[i]
        /\ Append(Future, document)[m + 1] = document
    BY <1>5, <2>1, AppendProperties DEF StackFacts
  <2>3. Future' \in Seq(Documents) /\ Len(Future') = m + 1
    BY <1>3, <1>5 DEF StackFacts
  <2>4. ASSUME NEW i \in 1 .. m + 1
        PROVE  Future'[i] = Append(Future, document)[i]
    <3>1. Future'[i] = redo_history'[i].after_document
      BY <1>5, <2>3 DEF StackFacts
    <3>2. CASE i = m + 1
      BY <1>3, <1>4, <2>2, <3>1, <3>2
    <3>3. CASE i # m + 1
      <4>1. i \in 1 .. m
        BY <2>1, <3>3
      <4>2. Future[i] = redo_history[i].after_document
        BY <1>5, <4>1 DEF StackFacts
      <4>3. QED
        BY <1>3, <2>2, <3>1, <4>1, <4>2
    <3>4. QED
      BY <3>2, <3>3
  <2>5. QED
    BY <2>2, <2>3, <2>4, SeqEqual
<1>9. QED
  BY <1>1, <1>6, <1>7, <1>8, CleanPromise
     DEF Log!Undo, Log!Last, Log!Front, Last, Front

(* Redo, likewise, in the other direction. *)
LEMMA RedoRefines ==
  ASSUME IInv, IInv', Redo
  PROVE  Log!Redo
<1> DEFINE e == Last(redo_history)
           n == Len(undo_history)
           m == Len(redo_history)
<1>1. /\ redo_history # <<>>
      /\ document' = e.after_document
      /\ redo_history' = Front(redo_history)
      /\ undo_history' = Append(undo_history, e)
      /\ UNCHANGED checkpoint
  BY DEF Redo, Restore
<1>2. /\ undo_history \in Seq(HistoryEntry)
      /\ redo_history \in Seq(HistoryEntry)
  BY DEF IInv, TypeOK
<1>3. /\ e = redo_history[m]
      /\ m \in Nat \ {0}
      /\ Len(redo_history') = m - 1
      /\ \A i \in 1 .. m - 1 : redo_history'[i] = redo_history[i]
      /\ Len(undo_history') = n + 1
      /\ \A i \in 1 .. n : undo_history'[i] = undo_history[i]
      /\ undo_history'[n + 1] = e
  <2>1. e = redo_history[m] /\ m \in Nat \ {0}
    BY <1>1, <1>2, MoveTop
  <2>2. /\ Len(Front(redo_history)) = m - 1
        /\ \A i \in 1 .. m - 1 : Front(redo_history)[i] = redo_history[i]
        /\ e \in HistoryEntry
    BY <1>1, <1>2, PopElements
  <2> HIDE DEF e
  <2>3. /\ Len(Append(undo_history, e)) = n + 1
        /\ \A i \in 1 .. n : Append(undo_history, e)[i] = undo_history[i]
        /\ Append(undo_history, e)[n + 1] = e
    BY <1>2, <2>2, AppendProperties
  <2>4. QED
    BY <1>1, <2>1, <2>2, <2>3
<1>4. e.before_document = document
  BY <1>1 DEF IInv, HistoryChain
<1>5. StackFacts /\ StackFacts'
  <2>1. TypeOK /\ TypeOK'
    BY DEF IInv
  <2>2. QED
    BY <2>1, StackTypes, PTL
<1> HIDE DEF e
<1>6. Future # <<>> /\ Last(Future) = e.after_document
  BY <1>3, <1>5, EmptySeq DEF StackFacts, Last
<1>7. Future' = Front(Future)
  <2>1. /\ Front(Future) \in Seq(Documents) /\ Len(Front(Future)) = m - 1
        /\ \A i \in 1 .. m - 1 : Front(Future)[i] = Future[i]
    BY <1>5, <1>6, PopElements DEF StackFacts
  <2>2. Future' \in Seq(Documents) /\ Len(Future') = m - 1
    BY <1>3, <1>5 DEF StackFacts
  <2>3. ASSUME NEW i \in 1 .. m - 1
        PROVE  Future'[i] = Front(Future)[i]
    <3>1. i \in 1 .. m
      BY <1>3
    <3>2. Future'[i] = redo_history[i].after_document
      BY <1>3, <1>5, <2>2 DEF StackFacts
    <3>3. Future[i] = redo_history[i].after_document
      BY <1>5, <3>1 DEF StackFacts
    <3>4. QED
      BY <2>1, <3>2, <3>3
  <2>4. QED
    BY <2>1, <2>2, <2>3, SeqEqual
<1>8. Past' = Append(Past, document)
  <2>1. document \in Documents /\ Len(Past) = n /\ n \in Nat
    BY <1>5 DEF IInv, TypeOK, StackFacts
  <2>2. /\ Append(Past, document) \in Seq(Documents)
        /\ Len(Append(Past, document)) = n + 1
        /\ \A i \in 1 .. n : Append(Past, document)[i] = Past[i]
        /\ Append(Past, document)[n + 1] = document
    BY <1>5, <2>1, AppendProperties DEF StackFacts
  <2>3. Past' \in Seq(Documents) /\ Len(Past') = n + 1
    BY <1>3, <1>5 DEF StackFacts
  <2>4. ASSUME NEW i \in 1 .. n + 1
        PROVE  Past'[i] = Append(Past, document)[i]
    <3>1. Past'[i] = undo_history'[i].before_document
      BY <1>5, <2>3 DEF StackFacts
    <3>2. CASE i = n + 1
      BY <1>3, <1>4, <2>2, <3>1, <3>2
    <3>3. CASE i # n + 1
      <4>1. i \in 1 .. n
        BY <2>1, <3>3
      <4>2. Past[i] = undo_history[i].before_document
        BY <1>5, <4>1 DEF StackFacts
      <4>3. QED
        BY <1>3, <2>2, <3>1, <4>1, <4>2
    <3>4. QED
      BY <3>2, <3>3
  <2>5. QED
    BY <2>2, <2>3, <2>4, SeqEqual
<1>9. QED
  BY <1>1, <1>6, <1>7, <1>8, CleanPromise
     DEF Log!Redo, Log!Last, Log!Front, Last, Front

(* SessionHistory implements UndoLog: every step of the session is a step   *)
(* of the log or leaves the log unchanged.                                  *)
THEOREM Refinement == Spec => RefinesUndoLog
<1>1. Init => Log!Init
  <2> SUFFICES ASSUME Init
               PROVE  Log!Init
    OBVIOUS
  <2>1. /\ Past \in Seq(Documents) /\ Len(Past) = 0
        /\ Future \in Seq(Documents) /\ Len(Future) = 0
    <3>1. StackFacts
      BY InitTypeOK, StackTypes
    <3>2. QED
      BY <3>1, EmptySeq DEF StackFacts, Init
  <2>2. Past = <<>> /\ Future = <<>>
    BY <2>1, EmptySeq
  <2>3. QED
    BY <2>2 DEF Init, Log!Init
<1>2. IInv /\ IInv' /\ [Next]_vars => [Log!Next]_Log!vars
  <2> SUFFICES ASSUME IInv, IInv', [Next]_vars
               PROVE  Log!Next \/ UNCHANGED Log!vars
    OBVIOUS
  <2>1. CASE Execute
    BY <2>1, ExecuteRefines DEF Log!Next
  <2>2. CASE Undo
    BY <2>2, UndoRefines DEF Log!Next
  <2>3. CASE Redo
    BY <2>3, RedoRefines DEF Log!Next
  <2>4. CASE Checkout
    BY <2>4 DEF Checkout, tokens, Log!vars, Past, Future
  <2>5. CASE \E r \in 0 .. MaxRevision : MarkSaved(r)
    <3>1. /\ checkpoint' = document /\ (~dirty)' = TRUE
          /\ UNCHANGED <<document, undo_history, redo_history>>
      BY <2>5 DEF MarkSaved
    <3>2. QED
      BY <3>1 DEF Log!Next, Log!Save, Past, Future
  <2>6. CASE ClearHistory
    <3>1. UNCHANGED <<document, checkpoint, dirty>>
      BY <2>6 DEF ClearHistory
    <3>2. Past' = <<>> /\ Future' = <<>>
      <4>1. StackFacts'
        BY StackTypes, PTL DEF IInv
      <4>2. Len(undo_history') = 0 /\ Len(redo_history') = 0
        BY <2>6, EmptySeq DEF ClearHistory
      <4>3. QED
        BY <4>1, <4>2, EmptySeq DEF StackFacts
    <3>3. QED
      BY <3>1, <3>2 DEF Log!Next, Log!Forget
  <2>7. CASE UNCHANGED vars
    BY <2>7 DEF vars, state, tokens, Log!vars, Past, Future
  <2>8. QED
    BY <2>1, <2>2, <2>3, <2>4, <2>5, <2>6, <2>7 DEF Next
<1>3. QED
  BY Inductive, <1>1, <1>2, PTL DEF Spec, RefinesUndoLog, Log!Spec
=============================================================================
