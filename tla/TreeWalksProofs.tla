-------------------------- MODULE TreeWalksProofs --------------------------
(***************************************************************************)
(* Proofs about the two walks: what validate_state reports of a document,  *)
(* whatever was played and taken back on its one board before, and what    *)
(* variation_graph lists of a tree, whatever its shape and the limits.     *)
(***************************************************************************)
EXTENDS TreeWalks, EditCommandsProofs

(* What holds for the root and, with its parent, for every node, holds for  *)
(* the whole tree.                                                          *)
LEMMA TreeInduction ==
  ASSUME NEW tree \in Trees, WellFormed(tree), NEW X, Root \in X,
         \A id \in Ids(tree) \ {Root} : Node(tree, id).parent \in X => id \in X
  PROVE  Ids(tree) \subseteq X
<1>1. /\ Root \in Ids(tree) /\ Subtree(tree, Root) = Ids(tree)
      /\ \A node \in Ids(tree) :
           /\ Range(Children(tree, node)) \subseteq Ids(tree) \ {Root}
           /\ \A child \in Range(Children(tree, node)) : Node(tree, child).parent = node
  BY TreeShape
<1>2. \A node \in Ids(tree) \cap X : Range(Children(tree, node)) \subseteq X
  BY <1>1
<1>3. Subtree(tree, Root) \subseteq X
  BY <1>1, <1>2, SubtreeWithin
<1>4. QED
  BY <1>1, <1>3

-----------------------------------------------------------------------------
(* The positions that validate_state sees                                   *)

Codes == {"missing_source_piece", "wrong_side_to_move", "destination_occupied_by_same_side"}

(* A tree whose moves name squares, with the position of every node that    *)
(* can be reached without an obstructed move.                               *)
Played(at, tree) ==
  /\ tree \in Trees /\ WellFormed(tree)
  /\ Replays("lenient", at, tree, Ids(tree))
  /\ \A id \in Ids(tree) \ {Root} : ValidMove(Node(tree, id).move)

(* The issues of a node, given the position above it.                       *)
Has(at, tree, id, code) ==
  LET above == at[Node(tree, id).parent]
      move == Node(tree, id).move
      moving == above.board[move.from]
  IN  /\ above # NoPosition
      /\ CASE code = "missing_source_piece" -> moving = None
           [] code = "wrong_side_to_move" ->
                moving # None /\ moving.side # above.side_to_move
           [] code = "destination_occupied_by_same_side" ->
                moving # None /\ at[id] = NoPosition

IssuesAt(at, tree, id) ==
  {issue \in [code : Codes, node : {id}] : Has(at, tree, id, issue.code)}

(* A move that is not obstructed leads to a position, with the other side   *)
(* to move, and what was on its two squares can be put back.                *)
LEMMA PlayedPosition ==
  ASSUME NEW position \in PositionRecords, NEW move, ValidMove(move)
  PROVE  LET next == Play(position, move)
             undo == [from |-> move.from, to |-> move.to,
                      moving |-> position.board[move.from],
                      captured |-> position.board[move.to]]
         IN  /\ next \in PositionRecords /\ next # NoPosition
             /\ next.board = [position.board EXCEPT ![move.to] = position.board[move.from],
                                                    ![move.from] = None]
             /\ next.side_to_move = Opposite(position.side_to_move)
             /\ TakeBack(next.board, undo) = position.board
             /\ Opposite(next.side_to_move) = position.side_to_move
<1> DEFINE next == Play(position, move)
           board == position.board
           V == Range(InitialBoard) \cup {None}
<1>1. /\ move.from \in Squares /\ move.to \in Squares /\ move.from # move.to
      /\ board \in [Squares -> V]
      /\ position.side_to_move \in {"red", "black"} /\ position.fullmove \in Nat
  BY DEF ValidMove, PositionRecords
<1>2. /\ next.board = [board EXCEPT ![move.to] = board[move.from], ![move.from] = None]
      /\ next.side_to_move = Opposite(position.side_to_move)
      /\ next = [board |-> next.board, side_to_move |-> next.side_to_move,
                 fullmove |-> next.fullmove]
      /\ next.fullmove \in Nat
  BY <1>1 DEF Play, Opposite
<1>3. next.board \in [Squares -> V]
  <2> HIDE DEF next
  <2>1. QED
    BY <1>1, <1>2
<1>4. next \in PositionRecords
  <2> HIDE DEF next
  <2>1. next.side_to_move \in {"red", "black"}
    BY <1>2 DEF Opposite
  <2>2. QED
    BY <1>2, <1>3, <2>1 DEF PositionRecords
<1>5. Opposite(next.side_to_move) = position.side_to_move
  BY <1>1, <1>2 DEF Opposite
<1>6. ASSUME NEW undo, undo = [from |-> move.from, to |-> move.to,
                               moving |-> board[move.from], captured |-> board[move.to]]
      PROVE  TakeBack(next.board, undo) = board
  <2> HIDE DEF next
  <2>1. TakeBack(next.board, undo)
          = [next.board EXCEPT ![move.from] = board[move.from], ![move.to] = board[move.to]]
    BY <1>6 DEF TakeBack
  <2>2. QED
    BY <2>1, <1>1, <1>2
<1>7. next # NoPosition
  BY <1>4, PositionAssumption
<1>8. QED
  BY <1>2, <1>4, <1>5, <1>6, <1>7

(* Every node of a played tree has a position or none.                      *)
LEMMA PlayedTyped ==
  ASSUME NEW tree, NEW at, Played(at, tree)
  PROVE  /\ Root \in Ids(tree) /\ at[Root] = InitialPosition /\ at[Root] # NoPosition
         /\ \A id \in Ids(tree) : at[id] \in PositionRecords \cup {NoPosition}
         /\ \A id \in Ids(tree) \ {Root} :
              /\ Node(tree, id).parent \in Ids(tree)
              /\ at[id] # NoPosition =>
                   /\ at[Node(tree, id).parent] # NoPosition
                   /\ ~Obstructed(at[Node(tree, id).parent], Node(tree, id).move)
                   /\ at[id] = Play(at[Node(tree, id).parent], Node(tree, id).move)
              /\ /\ at[Node(tree, id).parent] # NoPosition
                 /\ ~Obstructed(at[Node(tree, id).parent], Node(tree, id).move)
                 => at[id] # NoPosition
<1>1. /\ tree \in Trees /\ WellFormed(tree) /\ Root \in Ids(tree)
      /\ Replays("lenient", at, tree, Ids(tree))
      /\ \A id \in Ids(tree) \ {Root} : ValidMove(Node(tree, id).move)
  BY TreeShape DEF Played
<1>2. /\ at[Root] = InitialPosition
      /\ \A id \in Ids(tree) \ {Root} :
           /\ Node(tree, id).parent \in Ids(tree)
           /\ at[id] = LET above == at[Node(tree, id).parent]
                           move == Node(tree, id).move
                       IN  IF above = NoPosition \/ Obstructed(above, move)
                           THEN NoPosition ELSE Play(above, move)
  BY <1>1 DEF Replays, Following, Allowed
<1> DEFINE X == {id \in Ids(tree) : at[id] \in PositionRecords \cup {NoPosition}}
<1>3. Root \in X
  BY <1>1, <1>2, PositionAssumption
<1>4. ASSUME NEW id \in Ids(tree) \ {Root}, Node(tree, id).parent \in X
      PROVE  id \in X
  <2>1. CASE at[id] = NoPosition
    BY <2>1
  <2>2. CASE at[id] # NoPosition
    <3>1. /\ at[Node(tree, id).parent] \in PositionRecords
          /\ at[id] = Play(at[Node(tree, id).parent], Node(tree, id).move)
      BY <2>2, <1>2, <1>4
    <3>2. Play(at[Node(tree, id).parent], Node(tree, id).move) \in PositionRecords
      BY <3>1, <1>1, PlayedPosition
    <3>3. QED
      BY <3>1, <3>2
  <2>3. QED
    BY <2>1, <2>2
<1>5. Ids(tree) \subseteq X
  <2> HIDE DEF X
  <2>1. QED
    BY <1>1, <1>3, <1>4, TreeInduction
<1>6. \A id \in Ids(tree) : at[id] \in PositionRecords \cup {NoPosition}
  BY <1>5
<1>7. ASSUME NEW id \in Ids(tree) \ {Root}, at[Node(tree, id).parent] # NoPosition,
             ~Obstructed(at[Node(tree, id).parent], Node(tree, id).move)
      PROVE  at[id] # NoPosition
  <2>1. /\ at[Node(tree, id).parent] \in PositionRecords
        /\ at[id] = Play(at[Node(tree, id).parent], Node(tree, id).move)
    BY <1>2, <1>6, <1>7
  <2>2. Play(at[Node(tree, id).parent], Node(tree, id).move) # NoPosition
    BY <2>1, <1>1, PlayedPosition
  <2>3. QED
    BY <2>1, <2>2
<1>8. at[Root] # NoPosition
  BY <1>2, PositionAssumption
<1> HIDE DEF X
<1>9. \A id \in Ids(tree) \ {Root} :
        at[id] # NoPosition =>
          /\ at[Node(tree, id).parent] # NoPosition
          /\ ~Obstructed(at[Node(tree, id).parent], Node(tree, id).move)
          /\ at[id] = Play(at[Node(tree, id).parent], Node(tree, id).move)
  BY <1>2
<1>10. QED
  BY <1>1, <1>2, <1>6, <1>7, <1>8, <1>9

-----------------------------------------------------------------------------
(* The walk of validate_state                                               *)

(* What a frame keeps to take the move to its node back.                    *)
UndoOf(at, tree, id) ==
  LET move == Node(tree, id).move
      above == at[Node(tree, id).parent]
  IN  [from |-> move.from, to |-> move.to,
       moving |-> above.board[move.from], captured |-> above.board[move.to]]

Frames(at, tree) ==
  [node : Ids(tree), next_child : Nat,
   undo : {NoUndo} \cup {UndoOf(at, tree, id) : id \in Ids(tree)}]

Walks(at, tree) ==
  [stack : Seq(Frames(at, tree)), board : [Squares -> Range(InitialBoard) \cup {None}],
   side_to_move : {"red", "black"}, issues : Seq([code : Codes, node : Ids(tree)])]

OnStack(stack) == {stack[i].node : i \in 1 .. Len(stack)}

(* The children that the walk has come to: those a frame has counted, and   *)
(* all the children of the nodes that it has left.                          *)
TriedBy(tree, frame) == {Children(tree, frame.node)[k] : k \in 1 .. frame.next_child}

Tried(tree, stack, left) ==
  (UNION {Range(Children(tree, id)) : id \in left})
    \cup UNION {TriedBy(tree, stack[i]) : i \in 1 .. Len(stack)}

(* The stack holds the line from the root to a node, all of it playable.    *)
Climbs(at, tree, stack) ==
  /\ \A i \in 1 .. Len(stack) :
       /\ stack[i].next_child <= Len(Children(tree, stack[i].node))
       /\ at[stack[i].node] # NoPosition
       /\ i = 1 => stack[i].node = Root /\ stack[i].undo = NoUndo
       /\ i # 1 => /\ stack[i].node # Root
                   /\ Node(tree, stack[i].node).parent = stack[i - 1].node
                   /\ stack[i].undo = UndoOf(at, tree, stack[i].node)
  /\ \A i, j \in 1 .. Len(stack) : stack[i].node = stack[j].node => i = j

(* The position that the board should show.                                 *)
Shown(at, stack) == IF stack = <<>> THEN InitialPosition ELSE at[Last(stack).node]

(* After n rounds, unless it came to an end before, with the nodes that it  *)
(* has left: what is tried and can be reached is on the stack or left, and  *)
(* what is tried is reported, once.                                         *)
Walked(at, tree, w, left, n) ==
  LET tried == Tried(tree, w.stack, left)
  IN  /\ w \in Walks(at, tree)
      /\ left \subseteq Ids(tree) /\ left \cap OnStack(w.stack) = {}
      /\ Climbs(at, tree, w.stack)
      /\ Root \in left \cup OnStack(w.stack)
      /\ \A x \in Ids(tree) \ {Root} :
           x \in left \cup OnStack(w.stack) <=> x \in tried /\ at[x] # NoPosition
      /\ w.board = Shown(at, w.stack).board
      /\ w.side_to_move = Shown(at, w.stack).side_to_move
      /\ Range(w.issues) = UNION {IssuesAt(at, tree, x) : x \in tried}
      /\ IsInjective(w.issues)
      /\ w.stack # <<>> => Cardinality(tried) + Cardinality(left) = n

(* A new element goes to the end of a list without repetitions.             *)
LEMMA AppendNew ==
  ASSUME NEW S, NEW s \in Seq(S), NEW e \in S, IsInjective(s), e \notin Range(s)
  PROVE  /\ Append(s, e) \in Seq(S)
         /\ Range(Append(s, e)) = Range(s) \cup {e}
         /\ IsInjective(Append(s, e))
<1> DEFINE t == Append(s, e)
<1>1. /\ t \in Seq(S) /\ Len(t) = Len(s) + 1
      /\ \A i \in 1 .. Len(s) : t[i] = s[i]
      /\ Range(t) = Range(s) \cup {e}
  BY PushElements
<1>2. t[Len(s) + 1] = e /\ Len(s) \in Nat /\ DOMAIN s = 1 .. Len(s) /\ DOMAIN t = 1 .. Len(s) + 1
  BY <1>1, AppendProperties, LenProperties
<1>3. \A i \in 1 .. Len(s) : s[i] # e
  BY <1>2 DEF Range
<1>4. \A i, j \in 1 .. Len(s) : s[i] = s[j] => i = j
  BY <1>2 DEF IsInjective
<1> HIDE DEF t
<1>5. ASSUME NEW i \in 1 .. Len(s) + 1, NEW j \in 1 .. Len(s) + 1, t[i] = t[j]
      PROVE  i = j
  BY <1>1, <1>2, <1>3, <1>4, <1>5
<1>6. IsInjective(t)
  BY <1>2, <1>5 DEF IsInjective
<1>7. QED
  BY <1>1, <1>6 DEF t

(* The last element of a list.                                              *)
LEMMA TopElement ==
  ASSUME NEW S, NEW s \in Seq(S), s # <<>>
  PROVE  Len(s) \in Nat \ {0} /\ Last(s) = s[Len(s)] /\ Last(s) \in S
BY LenProperties, EmptySeq, PopElements DEF Last

(* Another frame takes the place of the one on top.                         *)
LEMMA ReplacedTop ==
  ASSUME NEW S, NEW s \in Seq(S), s # <<>>, NEW e \in S
  PROVE  /\ Replaced(s, e) \in Seq(S) /\ Replaced(s, e) # <<>>
         /\ Len(Replaced(s, e)) = Len(s)
         /\ \A i \in 1 .. Len(s) - 1 : Replaced(s, e)[i] = s[i]
         /\ Replaced(s, e)[Len(s)] = e /\ Last(Replaced(s, e)) = e
<1>1. /\ Front(s) \in Seq(S) /\ Len(Front(s)) = Len(s) - 1 /\ Last(s) \in S
      /\ \A i \in 1 .. Len(s) - 1 : Front(s)[i] = s[i]
  BY PopElements
<1>2. Len(s) \in Nat /\ Len(s) # 0
  BY LenProperties, EmptySeq
<1> DEFINE f == Front(s)
<1> HIDE DEF f
<1>3. /\ Append(f, e) \in Seq(S) /\ Append(f, e) # <<>>
      /\ Len(Append(f, e)) = Len(s) - 1 + 1
      /\ \A i \in 1 .. Len(s) - 1 : Append(f, e)[i] = f[i]
      /\ Append(f, e)[Len(s) - 1 + 1] = e
      /\ Last(Append(f, e)) = e
  BY <1>1, PushElements, AppendProperties DEF f
<1>4. Len(s) - 1 + 1 = Len(s)
  BY <1>2
<1>5. QED
  BY <1>1, <1>2, <1>3, <1>4 DEF Replaced, Last, f

(* The next child of the node on top is a new one.                          *)
LEMMA NextChild ==
  ASSUME NEW tree, NEW at, Played(at, tree), NEW w, NEW left, NEW n,
         Walked(at, tree, w, left, n), w.stack # <<>>,
         Last(w.stack).next_child # Len(Children(tree, Last(w.stack).node))
  PROVE  LET top == Last(w.stack)
             child == Children(tree, top.node)[top.next_child + 1]
         IN  /\ child \in Ids(tree) \ {Root}
             /\ Node(tree, child).parent = top.node
             /\ child \notin Tried(tree, w.stack, left)
             /\ child \notin left \cup OnStack(w.stack)
<1> DEFINE s == w.stack
           top == Last(s)
           list == Children(tree, top.node)
           k == top.next_child + 1
           child == list[k]
<1>1. /\ tree \in Trees /\ WellFormed(tree)
      /\ s \in Seq(Frames(at, tree)) /\ Climbs(at, tree, s)
      /\ left \subseteq Ids(tree) /\ left \cap OnStack(s) = {}
  BY DEF Played, Walked, Walks
<1>2. /\ top \in Frames(at, tree) /\ top = s[Len(s)] /\ Len(s) \in Nat \ {0}
  BY <1>1, TopElement
<1>3. /\ top.node \in Ids(tree) /\ top.next_child \in Nat
      /\ top.next_child <= Len(list)
  BY <1>1, <1>2 DEF Frames, Climbs
<1>4. /\ list \in Seq(NodeIds) /\ IsInjective(list)
      /\ Range(list) \subseteq Ids(tree) \ {Root}
      /\ \A x \in Range(list) : Node(tree, x).parent = top.node
  BY <1>1, <1>3, TreeShape
<1>5. Len(list) \in Nat /\ DOMAIN list = 1 .. Len(list)
  BY <1>4, LenProperties
<1>6. k \in 1 .. Len(list)
  BY <1>3, <1>5
<1>7. child \in Range(list)
  BY <1>5, <1>6 DEF Range
<1>8. child \in Ids(tree) \ {Root} /\ Node(tree, child).parent = top.node
  BY <1>4, <1>7
<1>9. \A x \in left : child \notin Range(Children(tree, x))
  <2>1. top.node \notin left
    BY <1>1, <1>2 DEF OnStack
  <2>2. \A x \in left : \A y \in Range(Children(tree, x)) : Node(tree, y).parent = x
    BY <1>1, TreeShape
  <2>3. QED
    BY <2>1, <2>2, <1>8
<1>10. \A i \in 1 .. Len(s) : child \notin TriedBy(tree, s[i])
  <2> SUFFICES ASSUME NEW i \in 1 .. Len(s), NEW m \in 1 .. s[i].next_child,
                      Children(tree, s[i].node)[m] = child
               PROVE  FALSE
    BY DEF TriedBy
  <2>1. /\ s[i] \in Frames(at, tree) /\ s[i].node \in Ids(tree) /\ s[i].next_child \in Nat
        /\ s[i].next_child <= Len(Children(tree, s[i].node))
    <3>1. s[i] \in Frames(at, tree)
      BY <1>1, ElementOfSeq
    <3>2. QED
      BY <3>1, <1>1 DEF Frames, Climbs
  <2>2. /\ Children(tree, s[i].node) \in Seq(NodeIds)
        /\ \A y \in Range(Children(tree, s[i].node)) : Node(tree, y).parent = s[i].node
    BY <1>1, <2>1, TreeShape
  <2>3. /\ Len(Children(tree, s[i].node)) \in Nat
        /\ DOMAIN Children(tree, s[i].node) = 1 .. Len(Children(tree, s[i].node))
    BY <2>2, LenProperties
  <2>4. m \in 1 .. Len(Children(tree, s[i].node))
    BY <2>1, <2>3
  <2>5. child \in Range(Children(tree, s[i].node))
    BY <2>3, <2>4 DEF Range
  <2>6. s[i].node = top.node
    BY <2>2, <2>5, <1>8
  <2>7. i = Len(s)
    BY <2>6, <1>1, <1>2 DEF Climbs
  <2>8. m \in 1 .. Len(list) /\ list[m] = list[k] /\ m # k
    BY <2>4, <2>7, <1>2, <1>3
  <2>9. QED
    BY <2>8, <1>4, <1>5, <1>6 DEF IsInjective
<1>11. child \notin Tried(tree, s, left)
  BY <1>9, <1>10 DEF Tried
<1>12. child \notin left \cup OnStack(s)
  BY <1>8, <1>11 DEF Walked
<1>13. QED
  BY <1>8, <1>11, <1>12

(* The next child of a frame counts as tried.                               *)
Counted(frame) == [frame EXCEPT !.next_child = @ + 1]

(* Counting the next child tries that one and changes nothing else.         *)
LEMMA CountedChild ==
  ASSUME NEW tree, NEW at, Played(at, tree), NEW w, NEW left, NEW n,
         Walked(at, tree, w, left, n), w.stack # <<>>,
         Last(w.stack).next_child # Len(Children(tree, Last(w.stack).node))
  PROVE  LET s == w.stack
             top == Last(s)
             child == Children(tree, top.node)[top.next_child + 1]
             t == Replaced(s, Counted(top))
         IN  /\ t \in Seq(Frames(at, tree)) /\ t # <<>> /\ Last(t).node = top.node
             /\ Climbs(at, tree, t) /\ OnStack(t) = OnStack(s)
             /\ Tried(tree, t, left) = Tried(tree, s, left) \cup {child}
<1> DEFINE s == w.stack
           top == Last(s)
           list == Children(tree, top.node)
           child == list[top.next_child + 1]
           e == Counted(top)
           t == Replaced(s, e)
           N == Len(s)
<1>1. /\ tree \in Trees /\ WellFormed(tree)
      /\ s \in Seq(Frames(at, tree)) /\ Climbs(at, tree, s)
  BY DEF Played, Walked, Walks
<1>2. /\ top \in Frames(at, tree) /\ top = s[N] /\ N \in Nat \ {0}
  BY <1>1, TopElement
<1>3. /\ e \in Frames(at, tree) /\ e.node = top.node /\ e.undo = top.undo
      /\ e.next_child = top.next_child + 1 /\ top.next_child \in Nat
      /\ top.node \in Ids(tree)
  BY <1>2 DEF Frames, Counted
<1>4. Len(list) \in Nat /\ top.next_child <= Len(list)
  <2>1. list \in Seq(NodeIds)
    BY <1>1, <1>3, TreeShape
  <2>2. QED
    BY <2>1, <1>1, <1>2, LenProperties DEF Climbs
<1> HIDE DEF e
<1>5. /\ t \in Seq(Frames(at, tree)) /\ t # <<>> /\ Len(t) = N
      /\ \A i \in 1 .. N - 1 : t[i] = s[i]
      /\ t[N] = e /\ Last(t) = e
  <2> HIDE DEF s
  <2>1. s # <<>>
    BY DEF s
  <2> HIDE DEF top
  <2>2. QED
    BY <1>1, <1>3, <2>1, ReplacedTop
<1> HIDE DEF t
<1>6. \A i \in 1 .. N : t[i].node = s[i].node /\ t[i].undo = s[i].undo
  BY <1>2, <1>3, <1>5
<1>7. OnStack(t) = OnStack(s)
  BY <1>5, <1>6 DEF OnStack
<1>8. \A i \in 1 .. N : t[i].next_child <= Len(Children(tree, t[i].node))
  <2>1. e.next_child <= Len(Children(tree, e.node))
    BY <1>3, <1>4
  <2>2. \A i \in 1 .. N - 1 : t[i].next_child <= Len(Children(tree, t[i].node))
    BY <1>1, <1>2, <1>5 DEF Climbs
  <2>3. QED
    BY <2>1, <2>2, <1>2, <1>5
<1>9. Climbs(at, tree, t)
  <2>1. ASSUME NEW i \in 1 .. N
        PROVE  /\ at[t[i].node] # NoPosition
               /\ i = 1 => t[i].node = Root /\ t[i].undo = NoUndo
               /\ i # 1 => /\ t[i].node # Root
                           /\ Node(tree, t[i].node).parent = t[i - 1].node
                           /\ t[i].undo = UndoOf(at, tree, t[i].node)
    <3>1. i # 1 => i - 1 \in 1 .. N
      BY <1>2
    <3>2. QED
      BY <3>1, <1>1, <1>6 DEF Climbs
  <2>2. \A i, j \in 1 .. N : t[i].node = t[j].node => i = j
    BY <1>1, <1>6 DEF Climbs
  <2>3. QED
    BY <2>1, <2>2, <1>5, <1>8 DEF Climbs
<1>10. TriedBy(tree, e) = TriedBy(tree, top) \cup {child}
  <2>1. 1 .. e.next_child = 1 .. top.next_child \cup {top.next_child + 1}
    BY <1>3
  <2>2. QED
    BY <2>1, <1>3 DEF TriedBy
<1>11. Tried(tree, t, left) = Tried(tree, s, left) \cup {child}
  <2> DEFINE old == [i \in 1 .. N |-> TriedBy(tree, s[i])]
             new == [i \in 1 .. N |-> TriedBy(tree, t[i])]
  <2>1. /\ \A i \in 1 .. N - 1 : new[i] = old[i]
        /\ new[N] = old[N] \cup {child} /\ N \in 1 .. N
        /\ \A i \in 1 .. N : i \in 1 .. N - 1 \/ i = N
    BY <1>2, <1>5, <1>10
  <2>2. /\ UNION {TriedBy(tree, s[i]) : i \in 1 .. N} = UNION {old[i] : i \in 1 .. N}
        /\ UNION {TriedBy(tree, t[i]) : i \in 1 .. N} = UNION {new[i] : i \in 1 .. N}
    OBVIOUS
  <2> HIDE DEF old, new, N
  <2>3. UNION {new[i] : i \in 1 .. N} = (UNION {old[i] : i \in 1 .. N}) \cup {child}
    BY <2>1
  <2>4. QED
    BY <2>2, <2>3, <1>5 DEF Tried, N
<1>12. QED
  BY <1>3, <1>5, <1>7, <1>9, <1>11 DEF t, e

(* A playable child of the node on top goes onto the stack.                 *)
LEMMA PushedFrame ==
  ASSUME NEW tree, NEW at, Played(at, tree), NEW s \in Seq(Frames(at, tree)), s # <<>>,
         Climbs(at, tree, s), NEW left, NEW child \in Ids(tree) \ {Root},
         Node(tree, child).parent = Last(s).node, child \notin OnStack(s),
         at[child] # NoPosition
  PROVE  LET t == Append(s, Frame(child, UndoOf(at, tree, child)))
         IN  /\ t \in Seq(Frames(at, tree)) /\ t # <<>> /\ Last(t).node = child
             /\ Climbs(at, tree, t) /\ OnStack(t) = OnStack(s) \cup {child}
             /\ Tried(tree, t, left) = Tried(tree, s, left)
<1> DEFINE e == Frame(child, UndoOf(at, tree, child))
           t == Append(s, e)
           N == Len(s)
<1>1. /\ e \in Frames(at, tree) /\ e.node = child /\ e.next_child = 0
      /\ e.undo = UndoOf(at, tree, child)
  <2> DEFINE u == UndoOf(at, tree, child)
  <2>1. u \in {NoUndo} \cup {UndoOf(at, tree, id) : id \in Ids(tree)}
    OBVIOUS
  <2> HIDE DEF u
  <2>2. Frame(child, u) \in Frames(at, tree)
    BY <2>1 DEF Frame, Frames
  <2>3. QED
    BY <2>2 DEF Frame, u
<1> HIDE DEF e
<1>2. /\ N \in Nat \ {0} /\ Last(s) = s[N]
      /\ t \in Seq(Frames(at, tree)) /\ t # <<>> /\ Len(t) = N + 1
      /\ \A i \in 1 .. N : t[i] = s[i]
      /\ t[N + 1] = e /\ Last(t) = e
  BY <1>1, TopElement, PushElements, AppendProperties
<1> HIDE DEF t
<1>3. /\ 1 .. N + 1 = 1 .. N \cup {N + 1} /\ N + 1 # 1 /\ N + 1 - 1 = N /\ N \in 1 .. N
  BY <1>2
<1>4. OnStack(t) = OnStack(s) \cup {child}
  BY <1>1, <1>2, <1>3 DEF OnStack
<1>5. 0 <= Len(Children(tree, child))
  <2>1. tree \in Trees /\ WellFormed(tree)
    BY DEF Played
  <2>2. Children(tree, child) \in Seq(NodeIds)
    BY <2>1, TreeShape
  <2>3. QED
    BY <2>2, LenProperties
<1>6. Climbs(at, tree, t)
  <2>1. ASSUME NEW i \in 1 .. N + 1
        PROVE  /\ t[i].next_child <= Len(Children(tree, t[i].node))
               /\ at[t[i].node] # NoPosition
               /\ i = 1 => t[i].node = Root /\ t[i].undo = NoUndo
               /\ i # 1 => /\ t[i].node # Root
                           /\ Node(tree, t[i].node).parent = t[i - 1].node
                           /\ t[i].undo = UndoOf(at, tree, t[i].node)
    <3>1. CASE i \in 1 .. N
      <4>1. t[i] = s[i] /\ (i # 1 => i - 1 \in 1 .. N /\ t[i - 1] = s[i - 1])
        BY <3>1, <1>2
      <4>2. QED
        BY <3>1, <4>1 DEF Climbs
    <3>2. CASE i = N + 1
      <4>1. t[i] = e /\ i # 1 /\ t[i - 1] = Last(s)
        BY <3>2, <1>2, <1>3
      <4>2. QED
        BY <4>1, <1>1, <1>5
    <3>3. QED
      BY <3>1, <3>2, <1>3
  <2>2. \A i, j \in 1 .. N + 1 : t[i].node = t[j].node => i = j
    <3>1. \A i, j \in 1 .. N : t[i].node = t[j].node => i = j
      BY <1>2 DEF Climbs
    <3>2. \A i \in 1 .. N : t[i].node # t[N + 1].node
      BY <1>1, <1>2 DEF OnStack
    <3> HIDE DEF N
    <3>3. QED
      BY <3>1, <3>2, <1>3
  <2>3. QED
    BY <2>1, <2>2, <1>2 DEF Climbs
<1>7. Tried(tree, t, left) = Tried(tree, s, left)
  <2>1. TriedBy(tree, e) = {}
    BY <1>1 DEF TriedBy
  <2>2. \A i \in 1 .. N : TriedBy(tree, t[i]) = TriedBy(tree, s[i])
    BY <1>2
  <2>3. UNION {TriedBy(tree, t[i]) : i \in 1 .. N + 1} = UNION {TriedBy(tree, s[i]) : i \in 1 .. N}
    BY <2>1, <2>2, <1>2, <1>3
  <2>4. QED
    BY <2>3, <1>2 DEF Tried
<1>8. QED
  BY <1>1, <1>2, <1>4, <1>6, <1>7 DEF t, e

(* The issues after entering a child whose parent has the given position.   *)
Reported(above, move, child, issues) ==
  LET moving == above.board[move.from]
      captured == above.board[move.to]
      report(list, code) == Append(list, [code |-> code, node |-> child])
      seen == IF moving.side = above.side_to_move THEN issues
              ELSE report(issues, "wrong_side_to_move")
  IN  IF moving = None THEN report(issues, "missing_source_piece")
      ELSE IF captured # None /\ captured.side = moving.side
           THEN report(seen, "destination_occupied_by_same_side")
           ELSE seen

(* These are the issues of the child, and none is reported twice.           *)
LEMMA ReportedChild ==
  ASSUME NEW tree, NEW at, Played(at, tree), NEW child \in Ids(tree) \ {Root},
         at[Node(tree, child).parent] # NoPosition,
         NEW issues \in Seq([code : Codes, node : Ids(tree)]), IsInjective(issues),
         \A issue \in Range(issues) : issue.node # child
  PROVE  LET all == Reported(at[Node(tree, child).parent], Node(tree, child).move, child, issues)
         IN  /\ all \in Seq([code : Codes, node : Ids(tree)])
             /\ Range(all) = Range(issues) \cup IssuesAt(at, tree, child)
             /\ IsInjective(all)
<1> DEFINE above == at[Node(tree, child).parent]
           move == Node(tree, child).move
           moving == above.board[move.from]
           captured == above.board[move.to]
           I == [code : Codes, node : Ids(tree)]
           issue(code) == [code |-> code, node |-> child]
           blocked == captured # None /\ captured.side = moving.side
           all == Reported(above, move, child, issues)
<1>1. /\ issue("missing_source_piece") \in I
      /\ issue("wrong_side_to_move") \in I
      /\ issue("destination_occupied_by_same_side") \in I
  BY DEF Codes
<1>2. \A code \in Codes : issue(code) \notin Range(issues)
  OBVIOUS
<1>3. at[child] = NoPosition <=> moving = None \/ blocked
  BY PlayedTyped DEF Obstructed
<1>4. \A x : x \in IssuesAt(at, tree, child) <=>
               \/ x = issue("missing_source_piece") /\ moving = None
               \/ x = issue("wrong_side_to_move")
                    /\ moving # None /\ moving.side # above.side_to_move
               \/ x = issue("destination_occupied_by_same_side")
                    /\ moving # None /\ blocked
  <2>1. \A code \in Codes : Has(at, tree, child, code) <=>
          \/ code = "missing_source_piece" /\ moving = None
          \/ code = "wrong_side_to_move" /\ moving # None /\ moving.side # above.side_to_move
          \/ code = "destination_occupied_by_same_side" /\ moving # None /\ blocked
    BY <1>3 DEF Has, Codes
  <2>2. \A x : x \in IssuesAt(at, tree, child) <=>
                 \E code \in Codes : x = issue(code) /\ Has(at, tree, child, code)
    BY DEF IssuesAt
  <2> HIDE DEF moving, captured, above, move, blocked, issue
  <2>3. QED
    BY <2>1, <2>2 DEF Codes
<1>5. /\ issue("missing_source_piece") # issue("wrong_side_to_move")
      /\ issue("missing_source_piece") # issue("destination_occupied_by_same_side")
      /\ issue("wrong_side_to_move") # issue("destination_occupied_by_same_side")
  OBVIOUS
<1>6. all = IF moving = None THEN Append(issues, issue("missing_source_piece"))
            ELSE IF moving.side = above.side_to_move
                 THEN IF blocked THEN Append(issues, issue("destination_occupied_by_same_side"))
                      ELSE issues
                 ELSE IF blocked
                      THEN Append(Append(issues, issue("wrong_side_to_move")),
                                  issue("destination_occupied_by_same_side"))
                      ELSE Append(issues, issue("wrong_side_to_move"))
  BY DEF Reported
<1> HIDE DEF moving, captured, above, move, blocked, issue, I, all
<1>7. issues \in Seq(I)
  BY DEF I
<1>8. ASSUME NEW code \in Codes, issue(code) \in I, all = Append(issues, issue(code)),
             IssuesAt(at, tree, child) = {issue(code)}
      PROVE  /\ all \in Seq(I) /\ Range(all) = Range(issues) \cup IssuesAt(at, tree, child)
             /\ IsInjective(all)
  <2> DEFINE one == issue(code)
  <2>1. one \in I /\ one \notin Range(issues)
    BY <1>2, <1>8
  <2> HIDE DEF one
  <2>2. LET t == Append(issues, one)
        IN  t \in Seq(I) /\ Range(t) = Range(issues) \cup {one} /\ IsInjective(t)
    BY <2>1, <1>7, AppendNew
  <2>3. QED
    BY <2>2, <1>8 DEF one
<1>9. CASE moving = None
  <2>1. IssuesAt(at, tree, child) = {issue("missing_source_piece")}
    BY <1>4, <1>9
  <2>2. QED
    BY <2>1, <1>1, <1>6, <1>8, <1>9 DEF I, all, above, move, Codes
<1>10. CASE moving # None /\ moving.side = above.side_to_move
  <2>1. CASE blocked
    <3>1. IssuesAt(at, tree, child) = {issue("destination_occupied_by_same_side")}
      BY <2>1, <1>4, <1>10
    <3>2. QED
      BY <2>1, <3>1, <1>1, <1>6, <1>8, <1>10 DEF I, all, above, move, Codes
  <2>2. CASE ~blocked
    <3>1. IssuesAt(at, tree, child) = {} /\ all = issues
      BY <2>2, <1>4, <1>6, <1>10
    <3>2. QED
      BY <3>1, <1>7 DEF I, all, above, move
  <2>3. QED
    BY <2>1, <2>2
<1>11. CASE moving # None /\ moving.side # above.side_to_move
  <2> DEFINE one == Append(issues, issue("wrong_side_to_move"))
  <2>1. /\ one \in Seq(I) /\ Range(one) = Range(issues) \cup {issue("wrong_side_to_move")}
        /\ IsInjective(one)
    BY <1>1, <1>2, <1>7, AppendNew DEF Codes
  <2>2. issue("destination_occupied_by_same_side") \notin Range(one)
    BY <2>1, <1>2, <1>5 DEF Codes
  <2> HIDE DEF one
  <2>3. LET two == Append(one, issue("destination_occupied_by_same_side"))
        IN  /\ two \in Seq(I) /\ IsInjective(two)
            /\ Range(two) = Range(one) \cup {issue("destination_occupied_by_same_side")}
    BY <1>1, <2>1, <2>2, AppendNew
  <2>4. CASE blocked
    <3>1. all = Append(one, issue("destination_occupied_by_same_side"))
      BY <2>4, <1>6, <1>11 DEF one
    <3>2. IssuesAt(at, tree, child)
            = {issue("wrong_side_to_move"), issue("destination_occupied_by_same_side")}
      BY <2>4, <1>4, <1>11
    <3>3. QED
      BY <2>1, <2>3, <3>1, <3>2 DEF I, all, above, move
  <2>5. CASE ~blocked
    <3>1. all = one
      BY <2>5, <1>6, <1>11 DEF one
    <3>2. IssuesAt(at, tree, child) = {issue("wrong_side_to_move")}
      BY <2>5, <1>4, <1>11
    <3>3. QED
      BY <2>1, <3>1, <3>2 DEF I, all, above, move
  <2>6. QED
    BY <2>4, <2>5
<1>12. QED
  BY <1>9, <1>10, <1>11

(* The fields of a walk after entering a child, as validate_state sets them. *)
LEMMA EnterFields ==
  ASSUME NEW s, NEW above, NEW issues, NEW tree
  PROVE  LET board == above.board
             side == above.side_to_move
             w == [stack |-> s, board |-> board, side_to_move |-> side, issues |-> issues]
             frame == Last(s)
             child == Children(tree, frame.node)[frame.next_child + 1]
             move == Node(tree, child).move
             t == Replaced(s, Counted(frame))
             all == Reported(above, move, child, issues)
             undo == [from |-> move.from, to |-> move.to,
                      moving |-> board[move.from], captured |-> board[move.to]]
         IN  Enter(w, tree) =
               IF Obstructed(above, move)
               THEN [stack |-> t, board |-> board, side_to_move |-> side, issues |-> all]
               ELSE [stack |-> Append(t, Frame(child, undo)),
                     board |-> [board EXCEPT ![move.to] = board[move.from], ![move.from] = None],
                     side_to_move |-> Opposite(side), issues |-> all]
<1> DEFINE board == above.board
           side == above.side_to_move
           w == [stack |-> s, board |-> board, side_to_move |-> side, issues |-> issues]
           frame == Last(s)
           child == Children(tree, frame.node)[frame.next_child + 1]
           move == Node(tree, child).move
           moving == board[move.from]
           captured == board[move.to]
           all == Reported(above, move, child, issues)
           report(list, code) == Append(list, [code |-> code, node |-> child])
           t == Replaced(s, Counted(frame))
           undo == [from |-> move.from, to |-> move.to,
                    moving |-> board[move.from], captured |-> board[move.to]]
           counted == [w EXCEPT !.stack = Replaced(@, [frame EXCEPT !.next_child = @ + 1])]
           seen == IF moving.side = w.side_to_move THEN counted
                   ELSE [counted EXCEPT !.issues = report(@, "wrong_side_to_move")]
           pushed == Frame(child, undo)
           played == [board EXCEPT ![move.to] = moving, ![move.from] = None]
<1>1. /\ w.stack = s /\ w.board = board /\ w.side_to_move = side /\ w.issues = issues
  OBVIOUS
<1>2. Enter(w, tree) =
        IF moving = None
        THEN [counted EXCEPT !.issues = report(@, "missing_source_piece")]
        ELSE IF captured # None /\ captured.side = moving.side
        THEN [seen EXCEPT !.issues = report(@, "destination_occupied_by_same_side")]
        ELSE [seen EXCEPT !.board = [@ EXCEPT ![move.to] = moving, ![move.from] = None],
                          !.side_to_move = Opposite(@),
                          !.stack = Append(@, pushed)]
  BY <1>1 DEF Enter
<1>3. counted = [stack |-> t, board |-> board, side_to_move |-> side, issues |-> issues]
  BY DEF Counted
<1>4. seen = [stack |-> t, board |-> board, side_to_move |-> side,
              issues |-> IF moving.side = side THEN issues
                         ELSE report(issues, "wrong_side_to_move")]
  BY <1>3
<1>5. Obstructed(above, move) <=>
        moving = None \/ (captured # None /\ captured.side = moving.side)
  BY DEF Obstructed
<1>6. all = IF moving = None THEN report(issues, "missing_source_piece")
            ELSE IF captured # None /\ captured.side = moving.side
            THEN report(IF moving.side = side THEN issues
                        ELSE report(issues, "wrong_side_to_move"),
                        "destination_occupied_by_same_side")
            ELSE IF moving.side = side THEN issues ELSE report(issues, "wrong_side_to_move")
  BY DEF Reported
<1> HIDE DEF w, child, move, t, counted, seen, report, all, moving, captured
<1>7. CASE moving = None
  <2>1. Enter(w, tree) = [counted EXCEPT !.issues = report(@, "missing_source_piece")]
    BY <1>2, <1>7
  <2>2. Enter(w, tree) = [stack |-> t, board |-> board, side_to_move |-> side, issues |-> all]
    BY <2>1, <1>3, <1>6, <1>7
  <2>3. QED
    BY <2>2, <1>5, <1>7 DEF w, child, move, t, all
<1>8. CASE moving # None /\ (captured # None /\ captured.side = moving.side)
  <2>1. Enter(w, tree) = [seen EXCEPT !.issues = report(@, "destination_occupied_by_same_side")]
    BY <1>2, <1>8
  <2>2. Enter(w, tree) = [stack |-> t, board |-> board, side_to_move |-> side, issues |-> all]
    BY <2>1, <1>4, <1>6, <1>8
  <2>3. QED
    BY <2>2, <1>5, <1>8 DEF w, child, move, t, all
<1>9. CASE moving # None /\ ~(captured # None /\ captured.side = moving.side)
  <2>1. Enter(w, tree) =
          [seen EXCEPT !.board = [@ EXCEPT ![move.to] = moving, ![move.from] = None],
                       !.side_to_move = Opposite(@),
                       !.stack = Append(@, pushed)]
    BY <1>2, <1>9
  <2>2. Enter(w, tree) = [stack |-> Append(t, pushed), board |-> played,
                          side_to_move |-> Opposite(side), issues |-> all]
    BY <2>1, <1>4, <1>6, <1>9
  <2>3. QED
    BY <2>2, <1>5, <1>9 DEF w, child, move, t, all, moving
<1>10. QED
  BY <1>7, <1>8, <1>9

(* Entering a child plays its move if it can be played, and reports what is *)
(* wrong with it.                                                           *)
LEMMA EnterIs ==
  ASSUME NEW tree, NEW at, Played(at, tree), NEW w, NEW left, NEW n,
         Walked(at, tree, w, left, n), w.stack # <<>>,
         Last(w.stack).next_child # Len(Children(tree, Last(w.stack).node))
  PROVE  LET top == Last(w.stack)
             child == Children(tree, top.node)[top.next_child + 1]
             t == Replaced(w.stack, Counted(top))
             all == Reported(at[top.node], Node(tree, child).move, child, w.issues)
         IN  Enter(w, tree) =
               IF at[child] = NoPosition
               THEN [stack |-> t, board |-> w.board, side_to_move |-> w.side_to_move,
                     issues |-> all]
               ELSE [stack |-> Append(t, Frame(child, UndoOf(at, tree, child))),
                     board |-> at[child].board, side_to_move |-> at[child].side_to_move,
                     issues |-> all]
<1> DEFINE top == Last(w.stack)
           child == Children(tree, top.node)[top.next_child + 1]
           t == Replaced(w.stack, Counted(top))
           above == at[top.node]
           move == Node(tree, child).move
           moving == above.board[move.from]
           captured == above.board[move.to]
           all == Reported(above, move, child, w.issues)
<1>1. /\ child \in Ids(tree) \ {Root} /\ Node(tree, child).parent = top.node
  BY NextChild
<1>2. /\ w = [stack |-> w.stack, board |-> w.board, side_to_move |-> w.side_to_move,
              issues |-> w.issues]
      /\ w.board = above.board /\ w.side_to_move = above.side_to_move
  BY DEF Walked, Walks, Shown
<1>3. above # NoPosition /\ above \in PositionRecords /\ ValidMove(move)
  <2>1. at[top.node] # NoPosition /\ top.node \in Ids(tree)
    <3>1. /\ w.stack \in Seq(Frames(at, tree)) /\ Climbs(at, tree, w.stack)
      BY DEF Walked, Walks
    <3>2. /\ top = w.stack[Len(w.stack)] /\ Len(w.stack) \in Nat \ {0}
          /\ top \in Frames(at, tree)
      BY <3>1, TopElement
    <3>3. QED
      BY <3>1, <3>2 DEF Climbs, Frames
  <2>2. QED
    BY <2>1, <1>1, PlayedTyped DEF Played
<1>4. /\ at[child] = NoPosition <=> Obstructed(above, move)
      /\ at[child] # NoPosition => at[child] = Play(above, move)
  <2> DEFINE parent == Node(tree, child).parent
  <2>1. /\ at[child] # NoPosition => /\ ~Obstructed(at[parent], move)
                                     /\ at[child] = Play(at[parent], move)
        /\ at[parent] # NoPosition /\ ~Obstructed(at[parent], move) => at[child] # NoPosition
    BY <1>1, PlayedTyped
  <2>2. at[parent] = above
    BY <1>1
  <2> HIDE DEF above, child, parent, move
  <2>3. QED
    BY <1>3, <2>1, <2>2
<1>5. at[child] # NoPosition =>
        /\ at[child].board = [above.board EXCEPT ![move.to] = moving, ![move.from] = None]
        /\ at[child].side_to_move = Opposite(above.side_to_move)
  <2> HIDE DEF above, child, move
  <2>1. LET next == Play(above, move)
        IN  /\ next.board = [above.board EXCEPT ![move.to] = moving, ![move.from] = None]
            /\ next.side_to_move = Opposite(above.side_to_move)
    BY <1>3, PlayedPosition
  <2>2. QED
    BY <1>4, <2>1
<1>6. UndoOf(at, tree, child) = [from |-> move.from, to |-> move.to,
                                 moving |-> moving, captured |-> captured]
  BY <1>1 DEF UndoOf
<1>7. Enter([stack |-> w.stack, board |-> above.board, side_to_move |-> above.side_to_move,
             issues |-> w.issues], tree) =
        IF Obstructed(above, move)
        THEN [stack |-> t, board |-> above.board, side_to_move |-> above.side_to_move,
              issues |-> all]
        ELSE [stack |-> Append(t, Frame(child, [from |-> move.from, to |-> move.to,
                                                moving |-> moving, captured |-> captured])),
              board |-> [above.board EXCEPT ![move.to] = moving, ![move.from] = None],
              side_to_move |-> Opposite(above.side_to_move), issues |-> all]
  BY EnterFields
<1>8. w = [stack |-> w.stack, board |-> above.board, side_to_move |-> above.side_to_move,
           issues |-> w.issues]
  BY <1>2
<1>9. Enter(w, tree) =
         IF at[child] = NoPosition
         THEN [stack |-> t, board |-> w.board, side_to_move |-> w.side_to_move, issues |-> all]
         ELSE [stack |-> Append(t, Frame(child, UndoOf(at, tree, child))),
               board |-> at[child].board, side_to_move |-> at[child].side_to_move,
               issues |-> all]
  <2> HIDE DEF above, child, move, t, all, moving, captured
  <2>1. QED
    BY <1>2, <1>4, <1>5, <1>6, <1>7, <1>8
<1>10. QED
  BY <1>9

(* What is tried are nodes below the root.                                  *)
LEMMA TriedNodes ==
  ASSUME NEW tree, NEW at, Played(at, tree), NEW w, NEW left, NEW n,
         Walked(at, tree, w, left, n)
  PROVE  /\ Tried(tree, w.stack, left) \subseteq Ids(tree) \ {Root}
         /\ IsFiniteSet(Tried(tree, w.stack, left)) /\ IsFiniteSet(left)
<1> DEFINE s == w.stack
<1>1. /\ tree \in Trees /\ WellFormed(tree) /\ left \subseteq Ids(tree)
      /\ s \in Seq(Frames(at, tree)) /\ Climbs(at, tree, s)
  BY DEF Played, Walked, Walks
<1>2. \A id \in Ids(tree) : /\ Children(tree, id) \in Seq(NodeIds)
                            /\ Range(Children(tree, id)) \subseteq Ids(tree) \ {Root}
  BY <1>1, TreeShape
<1>3. ASSUME NEW i \in 1 .. Len(s)
      PROVE  TriedBy(tree, s[i]) \subseteq Ids(tree) \ {Root}
  <2>1. s[i] \in Frames(at, tree)
    BY <1>1, ElementOfSeq
  <2>2. /\ s[i].node \in Ids(tree) /\ s[i].next_child \in Nat
        /\ s[i].next_child <= Len(Children(tree, s[i].node))
    BY <1>1, <2>1 DEF Frames, Climbs
  <2>3. /\ Len(Children(tree, s[i].node)) \in Nat
        /\ DOMAIN Children(tree, s[i].node) = 1 .. Len(Children(tree, s[i].node))
        /\ Range(Children(tree, s[i].node)) \subseteq Ids(tree) \ {Root}
    BY <1>2, <2>2, LenProperties
  <2>4. \A k \in 1 .. s[i].next_child :
          Children(tree, s[i].node)[k] \in Range(Children(tree, s[i].node))
    BY <2>2, <2>3 DEF Range
  <2>5. QED
    BY <2>3, <2>4 DEF TriedBy
<1>4. Tried(tree, s, left) \subseteq Ids(tree) \ {Root}
  BY <1>1, <1>2, <1>3 DEF Tried
<1>5. IsFiniteSet(Ids(tree))
  BY <1>1, IdsFinite
<1>6. QED
  BY <1>1, <1>4, <1>5, FS_Subset

(* A round that enters a child.                                             *)
LEMMA EnterKeeps ==
  ASSUME NEW tree, NEW at, Played(at, tree), NEW w, NEW left, NEW n \in Nat,
         Walked(at, tree, w, left, n), w.stack # <<>>,
         Last(w.stack).next_child # Len(Children(tree, Last(w.stack).node))
  PROVE  Walked(at, tree, Enter(w, tree), left, n + 1)
<1> DEFINE s == w.stack
           top == Last(s)
           child == Children(tree, top.node)[top.next_child + 1]
           t == Replaced(s, Counted(top))
           u == Append(t, Frame(child, UndoOf(at, tree, child)))
           all == Reported(at[top.node], Node(tree, child).move, child, w.issues)
           v == Enter(w, tree)
           tried == Tried(tree, s, left)
           more == tried \cup {child}
<1>1. /\ child \in Ids(tree) \ {Root} /\ Node(tree, child).parent = top.node
      /\ child \notin tried /\ child \notin left \cup OnStack(s)
  BY NextChild
<1>2. /\ t \in Seq(Frames(at, tree)) /\ t # <<>> /\ Last(t).node = top.node
      /\ Climbs(at, tree, t) /\ OnStack(t) = OnStack(s)
      /\ Tried(tree, t, left) = more
  BY CountedChild
<1>3. v = IF at[child] = NoPosition
          THEN [stack |-> t, board |-> w.board, side_to_move |-> w.side_to_move, issues |-> all]
          ELSE [stack |-> u, board |-> at[child].board,
                side_to_move |-> at[child].side_to_move, issues |-> all]
  BY EnterIs
<1>4. /\ w \in Walks(at, tree)
      /\ left \subseteq Ids(tree) /\ left \cap OnStack(s) = {}
      /\ Root \in left \cup OnStack(s)
      /\ \A x \in Ids(tree) \ {Root} :
           x \in left \cup OnStack(s) <=> x \in tried /\ at[x] # NoPosition
      /\ w.board = at[top.node].board
      /\ w.side_to_move = at[top.node].side_to_move
      /\ Range(w.issues) = UNION {IssuesAt(at, tree, x) : x \in tried}
      /\ IsInjective(w.issues)
      /\ Cardinality(tried) + Cardinality(left) = n
  BY DEF Walked, Shown
<1>5. at[top.node] # NoPosition
  <2>1. s \in Seq(Frames(at, tree)) /\ Climbs(at, tree, s)
    BY DEF Walked, Walks
  <2>2. top = s[Len(s)] /\ Len(s) \in Nat \ {0}
    BY <2>1, TopElement
  <2>3. QED
    BY <2>1, <2>2 DEF Climbs
<1>6. /\ all \in Seq([code : Codes, node : Ids(tree)])
      /\ Range(all) = Range(w.issues) \cup IssuesAt(at, tree, child)
      /\ IsInjective(all)
  <2>1. \A issue \in Range(w.issues) : issue.node # child
    BY <1>1, <1>4 DEF IssuesAt
  <2>2. w.issues \in Seq([code : Codes, node : Ids(tree)])
    BY <1>4 DEF Walks
  <2>3. at[Node(tree, child).parent] # NoPosition /\ at[Node(tree, child).parent] = at[top.node]
    BY <1>1, <1>5
  <2> DEFINE x == Reported(at[Node(tree, child).parent], Node(tree, child).move, child, w.issues)
  <2>4. x = all
    BY <2>3
  <2> HIDE DEF child, top, all
  <2>5. /\ x \in Seq([code : Codes, node : Ids(tree)])
        /\ Range(x) = Range(w.issues) \cup IssuesAt(at, tree, child)
        /\ IsInjective(x)
    BY <1>1, <1>4, <2>1, <2>2, <2>3, ReportedChild
  <2>6. QED
    BY <2>4, <2>5
<1>7. Range(all) = UNION {IssuesAt(at, tree, x) : x \in more}
  BY <1>4, <1>6
<1>8. Cardinality(more) + Cardinality(left) = n + 1
  <2>1. IsFiniteSet(tried) /\ IsFiniteSet(left)
    BY TriedNodes
  <2> HIDE DEF child, tried
  <2>2. Cardinality(more) = Cardinality(tried) + 1
    BY <1>1, <2>1, FS_AddElement
  <2>3. Cardinality(tried) \in Nat /\ Cardinality(left) \in Nat
    BY <2>1, FS_CardinalityType
  <2>4. QED
    BY <1>4, <2>2, <2>3
<1> HIDE DEF s, top, child, t, all, tried, more
<1>9. CASE at[child] = NoPosition
  <2>1. /\ v.stack = t /\ v.board = w.board /\ v.side_to_move = w.side_to_move
        /\ v.issues = all /\ v \in Walks(at, tree)
    <3>1. v = [stack |-> t, board |-> w.board, side_to_move |-> w.side_to_move, issues |-> all]
      BY <1>3, <1>9
    <3>2. /\ w.board \in [Squares -> Range(InitialBoard) \cup {None}]
          /\ w.side_to_move \in {"red", "black"}
      BY <1>4 DEF Walks
    <3> HIDE DEF v
    <3>3. QED
      BY <3>1, <3>2, <1>2, <1>6 DEF Walks
  <2>2. \A x \in Ids(tree) \ {Root} :
          x \in left \cup OnStack(t) <=> x \in more /\ at[x] # NoPosition
    BY <1>2, <1>4, <1>9 DEF more
  <2>3. Shown(at, t) = at[top.node]
    BY <1>2 DEF Shown
  <2> HIDE DEF v
  <2>4. Walked(at, tree, v, left, n + 1)
    BY <1>2, <1>4, <1>6, <1>7, <1>8, <2>1, <2>2, <2>3 DEF Walked
  <2>5. QED
    BY <2>4 DEF v
<1>10. CASE at[child] # NoPosition
  <2>1. /\ u \in Seq(Frames(at, tree)) /\ u # <<>> /\ Last(u).node = child
        /\ Climbs(at, tree, u) /\ OnStack(u) = OnStack(t) \cup {child}
        /\ Tried(tree, u, left) = Tried(tree, t, left)
    BY <1>1, <1>2, <1>10, PushedFrame
  <2> HIDE DEF u
  <2>2. /\ v.stack = u /\ v.board = at[child].board /\ v.side_to_move = at[child].side_to_move
        /\ v.issues = all /\ v \in Walks(at, tree)
    <3>1. v = [stack |-> u, board |-> at[child].board,
               side_to_move |-> at[child].side_to_move, issues |-> all]
      BY <1>3, <1>10
    <3>2. at[child] \in PositionRecords
      BY <1>1, <1>10, PlayedTyped
    <3>3. /\ at[child].board \in [Squares -> Range(InitialBoard) \cup {None}]
          /\ at[child].side_to_move \in {"red", "black"}
      BY <3>2 DEF PositionRecords
    <3> HIDE DEF v
    <3>4. QED
      BY <3>1, <3>3, <2>1, <1>6 DEF Walks
  <2>3. \A x \in Ids(tree) \ {Root} :
          x \in left \cup OnStack(u) <=> x \in more /\ at[x] # NoPosition
    BY <1>2, <1>4, <1>10, <2>1 DEF more
  <2>4. Shown(at, u) = at[child]
    BY <2>1 DEF Shown
  <2>5. left \cap OnStack(u) = {} /\ Root \in left \cup OnStack(u)
    BY <1>1, <1>2, <1>4, <2>1
  <2> HIDE DEF v
  <2>6. Walked(at, tree, v, left, n + 1)
    BY <1>2, <1>4, <1>6, <1>7, <1>8, <2>1, <2>2, <2>3, <2>4, <2>5 DEF Walked
  <2>7. QED
    BY <2>6 DEF v
<1>11. QED
  BY <1>9, <1>10

(* A round that leaves the node on top.                                     *)
LEMMA LeaveKeeps ==
  ASSUME NEW tree, NEW at, Played(at, tree), NEW w, NEW left, NEW n \in Nat,
         Walked(at, tree, w, left, n), w.stack # <<>>,
         Last(w.stack).next_child = Len(Children(tree, Last(w.stack).node))
  PROVE  Walked(at, tree, Leave(w), left \cup {Last(w.stack).node}, n + 1)
<1> DEFINE s == w.stack
           N == Len(s)
           top == Last(s)
           t == Front(s)
           v == Leave(w)
           all == left \cup {top.node}
           tried == Tried(tree, s, left)
<1>1. /\ w \in Walks(at, tree) /\ s \in Seq(Frames(at, tree)) /\ Climbs(at, tree, s)
      /\ left \subseteq Ids(tree) /\ left \cap OnStack(s) = {}
      /\ Root \in left \cup OnStack(s)
      /\ \A x \in Ids(tree) \ {Root} :
           x \in left \cup OnStack(s) <=> x \in tried /\ at[x] # NoPosition
      /\ w.board = at[top.node].board
      /\ w.side_to_move = at[top.node].side_to_move
      /\ Range(w.issues) = UNION {IssuesAt(at, tree, x) : x \in tried}
      /\ IsInjective(w.issues)
      /\ Cardinality(tried) + Cardinality(left) = n
  BY DEF Walked, Walks, Shown
<1>2. /\ N \in Nat \ {0} /\ top = s[N] /\ top \in Frames(at, tree)
      /\ t \in Seq(Frames(at, tree)) /\ Len(t) = N - 1
      /\ \A i \in 1 .. N - 1 : t[i] = s[i]
  BY <1>1, TopElement, PopElements
<1>3. top.node \in Ids(tree) /\ top.next_child = Len(Children(tree, top.node))
  BY <1>2 DEF Frames
<1>4. 1 .. N = 1 .. N - 1 \cup {N} /\ N \notin 1 .. N - 1 /\ N \in 1 .. N
  BY <1>2
<1> HIDE DEF t, tried, N
<1>5. OnStack(s) = OnStack(t) \cup {top.node} /\ top.node \notin OnStack(t)
  <2>1. OnStack(s) = {s[i].node : i \in 1 .. N - 1} \cup {top.node}
    BY <1>2, <1>4 DEF OnStack, N
  <2>2. OnStack(t) = {s[i].node : i \in 1 .. N - 1}
    BY <1>2 DEF OnStack
  <2>3. \A i \in 1 .. N - 1 : s[i].node # s[N].node
    BY <1>1, <1>4 DEF Climbs, N
  <2>4. QED
    BY <2>1, <2>2, <2>3, <1>2
<1>6. Tried(tree, t, all) = tried
  <2>1. TriedBy(tree, top) = Range(Children(tree, top.node))
    <3>1. Children(tree, top.node) \in Seq(NodeIds)
      BY <1>3, TreeShape DEF Played
    <3>2. DOMAIN Children(tree, top.node) = 1 .. top.next_child
      BY <3>1, <1>3, LenProperties
    <3>3. QED
      BY <3>2 DEF TriedBy, Range
  <2>2. UNION {TriedBy(tree, s[i]) : i \in 1 .. N}
          = (UNION {TriedBy(tree, s[i]) : i \in 1 .. N - 1}) \cup TriedBy(tree, top)
    BY <1>2, <1>4
  <2>3. UNION {TriedBy(tree, t[i]) : i \in 1 .. Len(t)}
          = UNION {TriedBy(tree, s[i]) : i \in 1 .. N - 1}
    BY <1>2
  <2>4. UNION {Range(Children(tree, id)) : id \in all}
          = (UNION {Range(Children(tree, id)) : id \in left}) \cup Range(Children(tree, top.node))
    OBVIOUS
  <2> HIDE DEF all
  <2>5. QED
    BY <2>1, <2>2, <2>3, <2>4 DEF Tried, tried, N
<1>7. Climbs(at, tree, t)
  <2>1. ASSUME NEW i \in 1 .. N - 1
        PROVE  /\ t[i].next_child <= Len(Children(tree, t[i].node))
               /\ at[t[i].node] # NoPosition
               /\ i = 1 => t[i].node = Root /\ t[i].undo = NoUndo
               /\ i # 1 => /\ t[i].node # Root
                           /\ Node(tree, t[i].node).parent = t[i - 1].node
                           /\ t[i].undo = UndoOf(at, tree, t[i].node)
    <3>1. i \in 1 .. N /\ (i # 1 => i - 1 \in 1 .. N - 1)
      BY <1>2
    <3>2. t[i] = s[i] /\ (i # 1 => t[i - 1] = s[i - 1])
      BY <3>1, <1>2
    <3>3. QED
      BY <3>1, <3>2, <1>1 DEF Climbs, N
  <2>2. \A i, j \in 1 .. N - 1 : t[i].node = t[j].node => i = j
    BY <1>1, <1>2, <1>4 DEF Climbs, N
  <2>3. QED
    BY <2>1, <2>2, <1>2 DEF Climbs
<1>8. Cardinality(all) + Cardinality(tried) = n + 1
  <2>1. IsFiniteSet(tried) /\ IsFiniteSet(left)
    BY TriedNodes DEF tried
  <2>2. top.node \notin left
    BY <1>1, <1>5
  <2>3. Cardinality(all) = Cardinality(left) + 1
    BY <2>1, <2>2, FS_AddElement
  <2>4. Cardinality(tried) \in Nat /\ Cardinality(left) \in Nat
    BY <2>1, FS_CardinalityType
  <2> HIDE DEF all
  <2>5. QED
    BY <1>1, <2>3, <2>4
<1>9. /\ v.stack = t /\ v.issues = w.issues
      /\ v.board = Shown(at, t).board /\ v.side_to_move = Shown(at, t).side_to_move
      /\ v \in Walks(at, tree)
  <2>1. w = [stack |-> s, board |-> w.board, side_to_move |-> w.side_to_move,
             issues |-> w.issues]
        /\ w.board \in [Squares -> Range(InitialBoard) \cup {None}]
        /\ w.side_to_move \in {"red", "black"}
        /\ w.issues \in Seq([code : Codes, node : Ids(tree)])
    BY <1>1 DEF Walks
  <2>2. CASE N = 1
    <3>1. top.undo = NoUndo /\ top.node = Root
      BY <2>2, <1>1, <1>2, <1>4 DEF Climbs, N
    <3>2. t = <<>>
      BY <2>2, <1>2, EmptySeq
    <3>3. v = [stack |-> t, board |-> w.board, side_to_move |-> w.side_to_move,
               issues |-> w.issues]
      BY <3>1, <2>1 DEF Leave, t
    <3>4. at[top.node] = InitialPosition
      BY <3>1, PlayedTyped
    <3> HIDE DEF v
    <3>5. QED
      BY <1>1, <1>2, <2>1, <3>2, <3>3, <3>4 DEF Walks, Shown
  <2>3. CASE N # 1
    <3> DEFINE parent == Node(tree, top.node).parent
               above == at[parent]
               move == Node(tree, top.node).move
               undo == UndoOf(at, tree, top.node)
    <3>1. /\ top.node # Root /\ parent = s[N - 1].node /\ top.undo = undo
          /\ at[top.node] # NoPosition
      <4>1. /\ at[s[N].node] # NoPosition
            /\ N # 1 => /\ s[N].node # Root
                        /\ Node(tree, s[N].node).parent = s[N - 1].node
                        /\ s[N].undo = UndoOf(at, tree, s[N].node)
        BY <1>1, <1>4 DEF Climbs, N
      <4>2. QED
        BY <4>1, <2>3, <1>2
    <3>2. /\ above # NoPosition /\ at[top.node] = Play(above, move)
          /\ above \in PositionRecords /\ ValidMove(move)
      BY <3>1, <1>3, PlayedTyped DEF Played
    <3>3. undo = [from |-> move.from, to |-> move.to, moving |-> above.board[move.from],
                  captured |-> above.board[move.to]]
      BY DEF UndoOf
    <3>4. undo # NoUndo
      <4>1. DOMAIN undo # DOMAIN NoUndo
        BY <3>3 DEF NoUndo
      <4>2. QED
        BY <4>1
    <3> HIDE DEF above, move, undo
    <3>5. /\ TakeBack(at[top.node].board, undo) = above.board
          /\ Opposite(at[top.node].side_to_move) = above.side_to_move
      BY <3>2, <3>3, PlayedPosition
    <3>6. Leave(w) = [[[w EXCEPT !.stack = Front(@)] EXCEPT !.side_to_move = Opposite(@)]
                        EXCEPT !.board = TakeBack(@, undo)]
      BY <3>1, <3>4 DEF Leave
    <3>7. v = [stack |-> t, board |-> above.board, side_to_move |-> above.side_to_move,
               issues |-> w.issues]
      BY <3>5, <3>6, <2>1, <1>1 DEF t
    <3>8. t # <<>> /\ Last(t) = t[Len(t)] /\ t[Len(t)] = s[N - 1]
      BY <2>3, <1>2 DEF Last
    <3>9. Shown(at, t) = above
      BY <3>1, <3>8 DEF Shown, above
    <3>10. above.board \in [Squares -> Range(InitialBoard) \cup {None}]
           /\ above.side_to_move \in {"red", "black"}
      BY <3>2 DEF PositionRecords
    <3> HIDE DEF v
    <3>11. QED
      BY <1>2, <2>1, <3>7, <3>9, <3>10 DEF Walks
  <2>4. QED
    BY <2>2, <2>3
<1>10. /\ all \subseteq Ids(tree) /\ all \cap OnStack(t) = {}
       /\ all \cup OnStack(t) = left \cup OnStack(s)
  BY <1>1, <1>3, <1>5
<1>11. Cardinality(tried) + Cardinality(all) = n + 1
  <2>1. IsFiniteSet(tried) /\ IsFiniteSet(left)
    BY TriedNodes DEF tried
  <2>2. IsFiniteSet(all)
    BY <2>1, FS_AddElement
  <2>3. Cardinality(tried) \in Nat /\ Cardinality(all) \in Nat
    BY <2>1, <2>2, FS_CardinalityType
  <2> HIDE DEF all
  <2>4. QED
    BY <1>8, <2>3
<1> HIDE DEF v, all
<1>12. Walked(at, tree, v, all, n + 1)
  BY <1>1, <1>6, <1>7, <1>9, <1>10, <1>11 DEF Walked
<1>13. QED
  BY <1>12 DEF v, all

(* At the start the root is on the stack and nothing is tried.              *)
LEMMA StartWalked ==
  ASSUME NEW tree, NEW at, Played(at, tree)
  PROVE  Walked(at, tree, StartValidation, {}, 0)
<1> DEFINE f == Frame(Root, NoUndo)
           s == <<f>>
           w == StartValidation
<1>1. /\ Root \in Ids(tree) /\ at[Root] = InitialPosition /\ at[Root] # NoPosition
      /\ tree \in Trees /\ WellFormed(tree)
  BY PlayedTyped DEF Played
<1>2. f \in Frames(at, tree) /\ f.node = Root /\ f.next_child = 0 /\ f.undo = NoUndo
  BY <1>1 DEF Frame, Frames
<1> HIDE DEF f
<1>3. s \in Seq(Frames(at, tree)) /\ s # <<>> /\ Len(s) = 1 /\ s[1] = f /\ Last(s) = f
  BY <1>2 DEF Last
<1>4. w = [stack |-> s, board |-> InitialBoard, side_to_move |-> InitialSide, issues |-> <<>>]
  BY DEF StartValidation, f
<1> HIDE DEF s, w
<1>5. w \in Walks(at, tree)
  <2>1. /\ InitialBoard \in [Squares -> Range(InitialBoard) \cup {None}]
        /\ InitialSide \in {"red", "black"}
    BY PositionAssumption DEF PositionRecords, InitialPosition
  <2>2. QED
    BY <1>3, <1>4, <2>1 DEF Walks
<1>6. Climbs(at, tree, s)
  <2>1. 0 <= Len(Children(tree, Root))
    <3>1. Children(tree, Root) \in Seq(NodeIds)
      BY <1>1, TreeShape
    <3>2. QED
      BY <3>1, LenProperties
  <2>2. QED
    BY <1>1, <1>2, <1>3, <2>1 DEF Climbs
<1>7. OnStack(s) = {Root}
  BY <1>2, <1>3 DEF OnStack
<1>8. Tried(tree, s, {}) = {}
  <2>1. TriedBy(tree, f) = {}
    BY <1>2 DEF TriedBy
  <2>2. QED
    BY <1>3, <2>1 DEF Tried
<1>9. Shown(at, s) = InitialPosition
  BY <1>1, <1>2, <1>3 DEF Shown
<1>10. Range(<<>>) = {} /\ IsInjective(<<>>)
  BY DEF Range, IsInjective
<1>11. Cardinality({}) + Cardinality({}) = 0
  BY FS_EmptySet
<1>12. Walked(at, tree, w, {}, 0)
  <2>1. /\ w.stack = s /\ w.issues = <<>> /\ w.board = InitialPosition.board
        /\ w.side_to_move = InitialPosition.side_to_move
    BY <1>4 DEF InitialPosition
  <2>2. /\ \A x \in Ids(tree) \ {Root} : x \notin {Root} /\ x \notin {}
        /\ UNION {IssuesAt(at, tree, x) : x \in {}} = {}
    OBVIOUS
  <2>3. QED
    BY <1>3, <1>5, <1>6, <1>7, <1>8, <1>9, <1>10, <1>11, <2>1, <2>2 DEF Walked
<1>13. QED
  BY <1>12 DEF w

(* What holds after n rounds holds after the next.                          *)
LEMMA RoundKeeps ==
  ASSUME NEW tree, NEW at, Played(at, tree), NEW w, NEW left, NEW n \in Nat,
         Walked(at, tree, w, left, n)
  PROVE  \E more : Walked(at, tree, Round(w, tree), more, n + 1)
<1>1. CASE w.stack = <<>>
  <2>1. Round(w, tree) = w
    BY <1>1 DEF Round
  <2>2. Walked(at, tree, w, left, n + 1)
    BY <1>1 DEF Walked
  <2>3. QED
    BY <2>1, <2>2
<1>2. CASE /\ w.stack # <<>>
           /\ Last(w.stack).next_child = Len(Children(tree, Last(w.stack).node))
  BY <1>2, LeaveKeeps DEF Round
<1>3. CASE /\ w.stack # <<>>
           /\ Last(w.stack).next_child # Len(Children(tree, Last(w.stack).node))
  BY <1>3, EnterKeeps DEF Round
<1>4. QED
  BY <1>1, <1>2, <1>3

(* validate_state makes as many rounds as its loop can need.                *)
LEMMA ValidationRounds ==
  ASSUME NEW d, NEW at, Played(at, d.tree)
  PROVE  \E left : Walked(at, d.tree, ValidateState(d), left, 2 * Len(d.tree.nodes))
<1> DEFINE tree == d.tree
           L == Len(tree.nodes)
           V == {w \in Walks(at, tree) :
                   \E left : \E n \in Nat : Walked(at, tree, w, left, n)}
           step == [w \in V |-> Round(w, tree)]
           Is(g) == g = [n \in Nat |-> IF n = 0 THEN StartValidation
                                       ELSE Round(g[n - 1], tree)]
           walk == CHOOSE g : Is(g)
<1>1. \A w, left : \A n \in Nat : Walked(at, tree, w, left, n) => w \in V
  BY DEF Walked
<1>2. StartValidation \in V
  BY <1>1, StartWalked
<1>3. step \in [V -> V]
  <2>1. \A w \in V : Round(w, tree) \in V
    <3> SUFFICES ASSUME NEW w \in V
                 PROVE  Round(w, tree) \in V
      OBVIOUS
    <3>1. PICK left : \E n \in Nat : Walked(at, tree, w, left, n)
      OBVIOUS
    <3>2. PICK n \in Nat : Walked(at, tree, w, left, n)
      BY <3>1
    <3>3. PICK more : Walked(at, tree, Round(w, tree), more, n + 1)
      BY <3>2, RoundKeeps
    <3> HIDE DEF V
    <3>4. QED
      BY <1>1, <3>3
  <2> HIDE DEF V
  <2>2. QED
    BY <2>1
<1> HIDE DEF V
<1>4. PICK g \in [Nat -> V] : g[0] = StartValidation /\ \A n \in Nat : g[n + 1] = step[g[n]]
  <2> HIDE DEF step
  <2>1. QED
    BY <1>2, <1>3, StepsExist
<1>5. Is(g)
  <2>1. \A n \in Nat : g[n] = IF n = 0 THEN StartValidation ELSE Round(g[n - 1], tree)
    <3> SUFFICES ASSUME NEW n \in Nat, n # 0
                 PROVE  g[n] = Round(g[n - 1], tree)
      BY <1>4
    <3>1. n - 1 \in Nat /\ n - 1 + 1 = n
      OBVIOUS
    <3>2. g[n - 1 + 1] = step[g[n - 1]] /\ g[n - 1] \in V
      BY <3>1, <1>4
    <3>3. QED
      BY <3>1, <3>2
  <2>2. QED
    BY <1>4, <2>1
<1>6. Is(walk)
  BY <1>5
<1>7. ValidateState(d) = walk[2 * L]
  BY DEF ValidateState
<1> HIDE DEF walk
<1>8. walk[0] = StartValidation /\ \A n \in Nat : walk[n + 1] = Round(walk[n], tree)
  <2>1. \A n \in Nat : walk[n] = IF n = 0 THEN StartValidation ELSE Round(walk[n - 1], tree)
    BY <1>6
  <2>2. \A n \in Nat : n + 1 \in Nat /\ n + 1 # 0 /\ n + 1 - 1 = n
    OBVIOUS
  <2>3. QED
    BY <2>1, <2>2
<1> DEFINE S == {n \in Nat : \E left : Walked(at, tree, walk[n], left, n)}
<1>9. 0 \in S
  BY <1>8, StartWalked
<1>10. \A n \in Nat : n \in S => n + 1 \in S
  <2> SUFFICES ASSUME NEW n \in Nat, n \in S
               PROVE  n + 1 \in S
    OBVIOUS
  <2>1. PICK left : Walked(at, tree, walk[n], left, n)
    OBVIOUS
  <2>2. \E more : Walked(at, tree, Round(walk[n], tree), more, n + 1)
    BY <2>1, RoundKeeps
  <2>3. QED
    BY <2>2, <1>8
<1>11. Nat \subseteq S
  <2> HIDE DEF S
  <2>1. QED
    BY <1>9, <1>10, SetInduction
<1>12. 2 * L \in Nat
  BY LenProperties DEF Played, Trees
<1>13. QED
  BY <1>7, <1>11, <1>12

(* By then it is done: it has left every node that can be reached, and come *)
(* to every child of those.                                                 *)
LEMMA ValidationEnds ==
  ASSUME NEW d, NEW at, Played(at, d.tree)
  PROVE  LET w == ValidateState(d)
             tree == d.tree
         IN  /\ w.stack = <<>> /\ w.board = InitialBoard /\ w.side_to_move = InitialSide
             /\ w.issues \in Seq([code : Codes, node : Ids(tree)])
             /\ IsInjective(w.issues)
             /\ Range(w.issues) =
                  UNION {IssuesAt(at, tree, x) :
                           x \in {y \in Ids(tree) \ {Root} :
                                    at[Node(tree, y).parent] # NoPosition}}
<1> DEFINE tree == d.tree
           L == Len(tree.nodes)
           w == ValidateState(d)
<1>1. PICK left : Walked(at, tree, w, left, 2 * L)
  BY ValidationRounds
<1> DEFINE tried == Tried(tree, w.stack, left)
<1>2. tree \in Trees /\ WellFormed(tree)
  BY DEF Played
<1> HIDE DEF w
<1>3. w.stack = <<>>
  <2> SUFFICES ASSUME w.stack # <<>>
               PROVE  FALSE
    OBVIOUS
  <2>1. Cardinality(tried) + Cardinality(left) = 2 * L /\ left \subseteq Ids(tree)
    BY <1>1 DEF Walked
  <2>2. tried \subseteq Ids(tree) \ {Root} /\ IsFiniteSet(tried) /\ IsFiniteSet(left)
    BY <1>1, TriedNodes
  <2>3. /\ IsFiniteSet(Ids(tree)) /\ Cardinality(Ids(tree)) <= L /\ L \in Nat
    BY <1>2, IdsFinite, LenProperties DEF Trees
  <2>4. Root \in Ids(tree)
    BY PlayedTyped
  <2> DEFINE rest == Ids(tree) \ {Root}
  <2>5. IsFiniteSet(rest) /\ Cardinality(rest) = Cardinality(Ids(tree)) - 1
    BY <2>3, <2>4, FS_RemoveElement
  <2> HIDE DEF tried, rest
  <2>6. Cardinality(tried) <= Cardinality(rest) /\ Cardinality(left) <= Cardinality(Ids(tree))
    BY <2>1, <2>2, <2>3, <2>5, FS_Subset DEF rest
  <2>7. /\ Cardinality(tried) \in Nat /\ Cardinality(left) \in Nat
        /\ Cardinality(rest) \in Nat /\ Cardinality(Ids(tree)) \in Nat
    BY <2>2, <2>3, <2>5, FS_CardinalityType
  <2> HIDE DEF L
  <2>8. QED
    BY <2>1, <2>3, <2>5, <2>6, <2>7
<1>4. OnStack(w.stack) = {} /\ tried = UNION {Range(Children(tree, id)) : id \in left}
  <2>1. Len(w.stack) = 0 /\ 1 .. 0 = {}
    BY <1>3
  <2> HIDE DEF tree
  <2>2. OnStack(w.stack) = {} /\ {TriedBy(tree, w.stack[i]) : i \in 1 .. Len(w.stack)} = {}
    BY <2>1 DEF OnStack
  <2>3. QED
    BY <2>2 DEF Tried
<1>5. /\ left \subseteq Ids(tree) /\ Root \in left
      /\ \A x \in Ids(tree) \ {Root} : x \in left <=> x \in tried /\ at[x] # NoPosition
      /\ w.issues \in Seq([code : Codes, node : Ids(tree)])
      /\ w.board = InitialBoard /\ w.side_to_move = InitialSide
      /\ Range(w.issues) = UNION {IssuesAt(at, tree, x) : x \in tried}
      /\ IsInjective(w.issues)
  BY <1>1, <1>3, <1>4 DEF Walked, Walks, Shown, InitialPosition
<1>6. /\ \A id \in Ids(tree) \ {Root} : id \in Range(Children(tree, Node(tree, id).parent))
      /\ \A id \in Ids(tree) : /\ Range(Children(tree, id)) \subseteq Ids(tree) \ {Root}
                               /\ \A x \in Range(Children(tree, id)) : Node(tree, x).parent = id
  <2>1. \A id \in Ids(tree) :
          /\ Range(Children(tree, id)) \subseteq Ids(tree) \ {Root}
          /\ \A x \in Range(Children(tree, id)) : Node(tree, x).parent = id
    BY <1>2, TreeShape
  <2>2. ASSUME NEW id \in Ids(tree) \ {Root}
        PROVE  id \in Range(Children(tree, Node(tree, id).parent))
    <3> DEFINE list == Children(tree, Node(tree, id).parent)
    <3>1. list \in Seq(NodeIds) /\ \E k \in 1 .. Len(list) : list[k] = id
      BY <1>2, TreeShape
    <3>2. DOMAIN list = 1 .. Len(list)
      BY <3>1, LenProperties
    <3> HIDE DEF list
    <3>3. id \in Range(list)
      BY <3>1, <3>2 DEF Range
    <3>4. QED
      BY <3>3 DEF list
  <2>3. QED
    BY <2>1, <2>2
<1>7. /\ at[Root] # NoPosition
      /\ \A id \in Ids(tree) \ {Root} :
           at[id] # NoPosition => at[Node(tree, id).parent] # NoPosition
      /\ \A id \in Ids(tree) \ {Root} : Node(tree, id).parent \in Ids(tree)
  BY PlayedTyped
<1> HIDE DEF tried, tree
<1> DEFINE X == {x \in Ids(tree) : at[x] # NoPosition => x \in left}
<1>8. Ids(tree) \subseteq X
  <2>1. Root \in X
    BY <1>5
  <2>2. ASSUME NEW id \in Ids(tree) \ {Root}, Node(tree, id).parent \in X
        PROVE  id \in X
    <3> SUFFICES ASSUME at[id] # NoPosition
                 PROVE  id \in left
      OBVIOUS
    <3>1. Node(tree, id).parent \in left
      BY <1>7, <2>2
    <3>2. id \in tried
      BY <1>4, <1>6, <3>1
    <3>3. QED
      BY <1>5, <3>2
  <2> HIDE DEF X
  <2>3. QED
    BY <1>2, <2>1, <2>2, TreeInduction
<1>9. \A x \in Ids(tree) : x \in left <=> at[x] # NoPosition
  BY <1>5, <1>7, <1>8
<1>10. tried = {x \in Ids(tree) \ {Root} : at[Node(tree, x).parent] # NoPosition}
  <2>1. ASSUME NEW x \in tried
        PROVE  x \in Ids(tree) \ {Root} /\ at[Node(tree, x).parent] # NoPosition
    <3>1. PICK id \in left : x \in Range(Children(tree, id))
      BY <1>4, <2>1
    <3>2. QED
      BY <3>1, <1>5, <1>6, <1>9
  <2>2. ASSUME NEW x \in Ids(tree) \ {Root}, at[Node(tree, x).parent] # NoPosition
        PROVE  x \in tried
    <3>1. Node(tree, x).parent \in left
      BY <1>7, <1>9, <2>2
    <3>2. QED
      BY <3>1, <1>4, <1>6
  <2>3. QED
    BY <2>1, <2>2
<1>11. QED
  BY <1>3, <1>5, <1>10 DEF tree, w

(* No node has an issue exactly when the moves to every node can be played, *)
(* each by its own side.                                                    *)
LEMMA NoIssues ==
  ASSUME NEW tree, NEW at, Played(at, tree), NEW p, Replays("strict", p, tree, Ids(tree))
  PROVE  (\A x \in Ids(tree) \ {Root} :
             at[Node(tree, x).parent] # NoPosition => IssuesAt(at, tree, x) = {})
         <=> \A id \in Ids(tree) : p[id] # NoPosition
<1> DEFINE parent(x) == Node(tree, x).parent
           move(x) == Node(tree, x).move
<1>1. /\ tree \in Trees /\ WellFormed(tree) /\ Root \in Ids(tree)
      /\ at[Root] = InitialPosition /\ at[Root] # NoPosition
  BY PlayedTyped DEF Played
<1>2. \A x \in Ids(tree) \ {Root} :
        /\ parent(x) \in Ids(tree)
        /\ at[x] # NoPosition => at[x] = Play(at[parent(x)], move(x))
        /\ at[parent(x)] # NoPosition =>
             (at[x] = NoPosition <=> Obstructed(at[parent(x)], move(x)))
  BY PlayedTyped
<1>3. /\ p[Root] = InitialPosition
      /\ \A x \in Ids(tree) \ {Root} :
           p[x] = IF p[parent(x)] = NoPosition \/ ~Playable(p[parent(x)], move(x))
                  THEN NoPosition ELSE Play(p[parent(x)], move(x))
  BY <1>1 DEF Replays, Following, Allowed
<1>4. ASSUME NEW x \in Ids(tree) \ {Root}, at[parent(x)] # NoPosition
      PROVE  IssuesAt(at, tree, x) = {} <=> Playable(at[parent(x)], move(x))
  <2> DEFINE above == at[parent(x)]
             moving == above.board[move(x).from]
  <2>1. \A code \in Codes : Has(at, tree, x, code) <=>
          \/ code = "missing_source_piece" /\ moving = None
          \/ code = "wrong_side_to_move" /\ moving # None /\ moving.side # above.side_to_move
          \/ code = "destination_occupied_by_same_side" /\ moving # None /\ at[x] = NoPosition
    BY <1>4 DEF Has, Codes
  <2>2. IssuesAt(at, tree, x) = {} <=> \A code \in Codes : ~Has(at, tree, x, code)
    <3>1. \A code \in Codes :
            /\ [code |-> code, node |-> x] \in [code : Codes, node : {x}]
            /\ [code |-> code, node |-> x].code = code
      OBVIOUS
    <3>2. \A issue \in [code : Codes, node : {x}] : issue.code \in Codes
      OBVIOUS
    <3>3. QED
      BY <3>1, <3>2 DEF IssuesAt
  <2>3. IssuesAt(at, tree, x) = {} <=>
          /\ moving # None /\ moving.side = above.side_to_move /\ at[x] # NoPosition
    BY <2>1, <2>2 DEF Codes
  <2>4. at[x] = NoPosition <=> Obstructed(above, move(x))
    BY <1>2, <1>4
  <2> HIDE DEF move, above
  <2>5. /\ moving # None /\ moving.side = above.side_to_move /\ ~Obstructed(above, move(x))
        <=> Playable(above, move(x))
    BY DEF Obstructed, Playable
  <2>6. QED
    BY <2>3, <2>4, <2>5 DEF above
<1> HIDE DEF parent, move
<1>5. ASSUME \A x \in Ids(tree) \ {Root} :
               at[parent(x)] # NoPosition => IssuesAt(at, tree, x) = {}
      PROVE  \A id \in Ids(tree) : p[id] # NoPosition
  <2> DEFINE X == {x \in Ids(tree) : p[x] = at[x] /\ at[x] # NoPosition}
  <2>1. Root \in X
    BY <1>1, <1>3
  <2>2. ASSUME NEW x \in Ids(tree) \ {Root}, parent(x) \in X
        PROVE  x \in X
    <3>1. p[parent(x)] = at[parent(x)] /\ at[parent(x)] # NoPosition
      BY <2>2
    <3>2. Playable(at[parent(x)], move(x))
      BY <1>4, <1>5, <3>1
    <3>3. ~Obstructed(at[parent(x)], move(x))
      BY <3>2 DEF Obstructed, Playable
    <3>4. p[x] = Play(p[parent(x)], move(x))
      BY <1>3, <3>1, <3>2
    <3>5. QED
      BY <1>2, <3>1, <3>3, <3>4
  <2>3. Ids(tree) \subseteq X
    <3> HIDE DEF X
    <3>1. QED
      BY <1>1, <2>1, <2>2, TreeInduction DEF parent
  <2>4. QED
    BY <2>3
<1>6. ASSUME \A id \in Ids(tree) : p[id] # NoPosition
      PROVE  \A x \in Ids(tree) \ {Root} :
               at[parent(x)] # NoPosition => IssuesAt(at, tree, x) = {}
  <2> DEFINE X == {x \in Ids(tree) : p[x] = at[x]}
  <2>1. Root \in X
    BY <1>1, <1>3
  <2>2. ASSUME NEW x \in Ids(tree) \ {Root}, parent(x) \in X
        PROVE  x \in X
    <3>1. p[parent(x)] = at[parent(x)] /\ parent(x) \in Ids(tree)
      BY <2>2
    <3>2. p[x] # NoPosition /\ p[parent(x)] # NoPosition
      BY <1>6, <3>1
    <3>3. Playable(at[parent(x)], move(x)) /\ p[x] = Play(at[parent(x)], move(x))
      BY <1>3, <3>1, <3>2
    <3>4. ~Obstructed(at[parent(x)], move(x))
      BY <3>3 DEF Obstructed, Playable
    <3>5. QED
      BY <1>2, <3>1, <3>2, <3>3, <3>4
  <2>3. Ids(tree) \subseteq X
    <3> HIDE DEF X
    <3>1. QED
      BY <1>1, <2>1, <2>2, TreeInduction DEF parent
  <2>4. ASSUME NEW x \in Ids(tree) \ {Root}, at[parent(x)] # NoPosition
        PROVE  IssuesAt(at, tree, x) = {}
    <3>1. p[parent(x)] = at[parent(x)] /\ p[x] # NoPosition
      BY <1>2, <1>6, <2>3
    <3>2. Playable(at[parent(x)], move(x))
      BY <1>3, <2>4, <3>1
    <3>3. QED
      BY <1>4, <2>4, <3>2
  <2>5. QED
    BY <2>4
<1>7. QED
  BY <1>5, <1>6 DEF parent

(* What validate_state reports of a document, session or not, given the     *)
(* positions in it: the issues of every node on the line from the root to   *)
(* it, each once.                                                           *)
THEOREM ValidationReports ==
  ASSUME NEW d \in DocumentRecords, Structural(d),
         NEW at, Replays("lenient", at, d.tree, Ids(d.tree))
  PROVE  LET w == ValidateState(d)
         IN  /\ Range(w.issues) =
                  {issue \in [code : Codes, node : Ids(d.tree) \ {Root}] :
                     Has(at, d.tree, issue.node, issue.code)}
             /\ IsInjective(w.issues)
             /\ w.stack = <<>> /\ w.board = InitialBoard /\ w.side_to_move = InitialSide
             /\ w.issues = <<>> <=> \A id \in Ids(d.tree) : Positions(d)[id] # NoPosition
<1> DEFINE tree == d.tree
           w == ValidateState(d)
           reached == {y \in Ids(tree) \ {Root} : at[Node(tree, y).parent] # NoPosition}
           reported == UNION {IssuesAt(at, tree, x) : x \in reached}
           p == Positions(d)
<1>1. tree \in Trees /\ WellFormed(tree) /\ Len(tree.nodes) \in Nat
      /\ DOMAIN tree.nodes = 1 .. Len(tree.nodes)
  BY LenProperties DEF Structural, DocumentRecords, Trees
<1>2. Played(at, tree)
  <2>1. ASSUME NEW id \in Ids(tree) \ {Root}
        PROVE  ValidMove(Node(tree, id).move)
    <3>1. 1 \in DOMAIN tree.nodes /\ tree.nodes[1].id = Root /\ UniqueIds(tree.nodes)
      BY <1>1, TreeShape
    <3>2. PICK i \in DOMAIN tree.nodes : tree.nodes[i].id = id
      BY <2>1 DEF Ids, Range
    <3>3. i # 1 /\ ValidMove(tree.nodes[i].move)
      BY <2>1, <3>1, <3>2 DEF Structural
    <3>4. Node(tree, id) = tree.nodes[i]
      BY <1>1, <3>1, <3>2, NodeAt
    <3>5. QED
      BY <3>3, <3>4
  <2>2. QED
    BY <1>1, <2>1 DEF Played
<1>3. /\ w.stack = <<>> /\ w.board = InitialBoard /\ w.side_to_move = InitialSide
      /\ w.issues \in Seq([code : Codes, node : Ids(tree)])
      /\ IsInjective(w.issues)
      /\ Range(w.issues) = reported
  BY <1>2, ValidationEnds
<1>4. reported = {issue \in [code : Codes, node : Ids(tree) \ {Root}] :
                    Has(at, tree, issue.node, issue.code)}
  <2>1. \A x \in Ids(tree) \ {Root} : \A issue :
          issue \in IssuesAt(at, tree, x) <=>
            /\ issue \in [code : Codes, node : Ids(tree) \ {Root}] /\ issue.node = x
            /\ Has(at, tree, issue.node, issue.code)
    BY DEF IssuesAt
  <2>2. \A issue \in [code : Codes, node : Ids(tree) \ {Root}] :
          Has(at, tree, issue.node, issue.code) => issue.node \in reached
    BY DEF Has
  <2>3. QED
    BY <2>1, <2>2
<1>5. w.issues = <<>> <=> \A id \in Ids(tree) : p[id] # NoPosition
  <2>1. Replays("strict", p, tree, Ids(tree))
    BY <1>1, PositionsReplay
  <2> HIDE DEF w, p
  <2>2. (\A x \in reached : IssuesAt(at, tree, x) = {})
          <=> \A id \in Ids(tree) : p[id] # NoPosition
    BY <1>2, <2>1, NoIssues
  <2>3. reported = {} <=> \A x \in reached : IssuesAt(at, tree, x) = {}
    OBVIOUS
  <2>4. w.issues = <<>> <=> Range(w.issues) = {}
    <3>1. Len(w.issues) \in Nat /\ DOMAIN w.issues = 1 .. Len(w.issues)
      BY <1>3, LenProperties
    <3>2. \A n \in Nat : n # 0 => 1 \in 1 .. n
      OBVIOUS
    <3>3. w.issues # <<>> => 1 \in DOMAIN w.issues
      BY <3>1, <3>2, <1>3, EmptySeq
    <3>4. w.issues # <<>> => Range(w.issues) # {}
      BY <3>3 DEF Range
    <3>5. Range(<<>>) = {}
      BY DEF Range
    <3>6. QED
      BY <3>4, <3>5
  <2>5. QED
    BY <1>3, <2>2, <2>3, <2>4
<1>6. QED
  BY <1>3, <1>4, <1>5

-----------------------------------------------------------------------------
(* The paths of variation_graph, and the order of the tree                  *)

(* One step of path_to.                                                     *)
Climb(tree, path) ==
  IF path[1] = Root THEN path ELSE <<Node(tree, path[1]).parent>> \o path

Ascends(up, tree, id) ==
  /\ up \in [Nat -> Seq(Ids(tree)) \ {<<>>}]
  /\ up[0] = <<id>>
  /\ \A n \in Nat : up[n + 1] = Climb(tree, up[n])

(* A step goes to the parent, and stops at the root.                        *)
LEMMA ClimbStep ==
  ASSUME NEW tree \in Trees, WellFormed(tree), NEW path \in Seq(Ids(tree)) \ {<<>>}
  PROVE  /\ path[1] \in Ids(tree)
         /\ Climb(tree, path) \in Seq(Ids(tree)) \ {<<>>}
         /\ \A id \in Ids(tree) :
              /\ Append(path, id)[1] = path[1]
              /\ Climb(tree, Append(path, id)) = Append(Climb(tree, path), id)
<1> DEFINE S == Ids(tree)
<1>1. Len(path) \in Nat \ {0} /\ path \in Seq(S) /\ path[1] \in S
  BY EmptySeq, ElementOfSeq
<1>2. \A id \in S \ {Root} : Node(tree, id).parent \in S
  BY TreeShape
<1>3. ASSUME NEW m \in S PROVE <<m>> \in Seq(S) /\ Len(<<m>>) = 1
  OBVIOUS
<1> HIDE DEF S
<1>4. Climb(tree, path) \in Seq(S) \ {<<>>}
  <2>1. CASE path[1] = Root
    BY <1>1, <2>1 DEF Climb
  <2>2. CASE path[1] # Root
    <3> DEFINE m == Node(tree, path[1]).parent
    <3>1. m \in S
      BY <1>1, <1>2, <2>2
    <3> HIDE DEF m
    <3>2. <<m>> \o path \in Seq(S) /\ Len(<<m>> \o path) = 1 + Len(path)
      BY <1>1, <1>3, <3>1, ConcatProperties
    <3>3. <<m>> \o path # <<>>
      BY <1>1, <3>2, EmptySeq
    <3>4. QED
      BY <2>2, <3>2, <3>3 DEF Climb, m
  <2>3. QED
    BY <2>1, <2>2
<1>5. ASSUME NEW id \in S
      PROVE  /\ Append(path, id)[1] = path[1]
             /\ Climb(tree, Append(path, id)) = Append(Climb(tree, path), id)
  <2>1. Append(path, id)[1] = path[1]
    BY <1>1, AppendProperties
  <2>2. CASE path[1] = Root
    BY <2>1, <2>2 DEF Climb
  <2>3. CASE path[1] # Root
    <3> DEFINE m == Node(tree, path[1]).parent
    <3>1. m \in S
      BY <1>1, <1>2, <2>3
    <3>2. Climb(tree, Append(path, id)) = <<m>> \o Append(path, id)
          /\ Climb(tree, path) = <<m>> \o path
      BY <2>1, <2>3 DEF Climb
    <3> HIDE DEF m
    <3>3. <<id>> \in Seq(S) /\ <<m>> \in Seq(S) /\ <<m>> \o path \in Seq(S)
      BY <1>1, <1>3, <3>1, ConcatProperties
    <3>4. <<m>> \o (path \o <<id>>) = (<<m>> \o path) \o <<id>>
      BY <1>1, <3>3, ConcatAssociative
    <3>5. path \o <<id>> = Append(path, id) /\ (<<m>> \o path) \o <<id>> = Append(<<m>> \o path, id)
      BY <1>1, <3>3, AppendIsConcat
    <3>6. QED
      BY <2>1, <3>2, <3>4, <3>5
  <2>4. QED
    BY <2>2, <2>3, <2>1
<1>6. QED
  BY <1>1, <1>4, <1>5 DEF S

(* path_to climbs as often as the tree has nodes.                           *)
LEMMA PathClimbs ==
  ASSUME NEW tree \in Trees, WellFormed(tree), NEW id \in Ids(tree)
  PROVE  \E up : Ascends(up, tree, id) /\ PathTo(tree, id) = up[Len(tree.nodes)]
<1> DEFINE V == Seq(Ids(tree)) \ {<<>>}
           step == [path \in V |-> Climb(tree, path)]
           Is(g) == g = [n \in Nat |-> IF n = 0 THEN <<id>>
                                       ELSE LET path == g[n - 1]
                                            IN  IF path[1] = Root THEN path
                                                ELSE <<Node(tree, path[1]).parent>> \o path]
           up == CHOOSE g : Is(g)
           first == <<id>>
<1>1. first \in V
  OBVIOUS
<1>2. step \in [V -> V]
  BY ClimbStep
<1>3. PICK g \in [Nat -> V] : g[0] = first /\ \A n \in Nat : g[n + 1] = step[g[n]]
  <2> HIDE DEF step, V, first
  <2>1. QED
    BY <1>1, <1>2, StepsExist
<1>4. \A n \in Nat : g[n + 1] = Climb(tree, g[n])
  BY <1>3
<1>5. Is(g)
  <2>1. \A n \in Nat : g[n] = IF n = 0 THEN <<id>> ELSE Climb(tree, g[n - 1])
    <3> SUFFICES ASSUME NEW n \in Nat, n # 0
                 PROVE  g[n] = Climb(tree, g[n - 1])
      BY <1>3
    <3>1. n - 1 \in Nat /\ n - 1 + 1 = n
      OBVIOUS
    <3>2. g[n - 1 + 1] = Climb(tree, g[n - 1])
      BY <3>1, <1>4
    <3>3. QED
      BY <3>1, <3>2
  <2>2. QED
    BY <1>3, <2>1 DEF Climb
<1>6. Is(up)
  BY <1>5
<1>7. PathTo(tree, id) = up[Len(tree.nodes)]
  BY DEF PathTo
<1> HIDE DEF up
<1>8. up[0] = first /\ \A n \in Nat : up[n + 1] = Climb(tree, up[n])
  <2>1. \A n \in Nat : up[n] = IF n = 0 THEN first ELSE Climb(tree, up[n - 1])
    BY <1>6 DEF Climb
  <2> HIDE DEF first
  <2>2. ASSUME NEW n \in Nat PROVE up[n + 1] = Climb(tree, up[n])
    <3>1. n + 1 \in Nat /\ n + 1 # 0 /\ n + 1 - 1 = n
      OBVIOUS
    <3>2. up[n + 1] = Climb(tree, up[n + 1 - 1])
      BY <2>1, <3>1
    <3>3. QED
      BY <3>1, <3>2
  <2>3. QED
    BY <2>1, <2>2
<1> DEFINE T == {n \in Nat : up[n] \in V}
<1>9. 0 \in T
  BY <1>1, <1>8
<1>10. \A n \in Nat : n \in T => n + 1 \in T
  <2>1. \A path \in V : Climb(tree, path) \in V
    BY ClimbStep
  <2> HIDE DEF V, first
  <2>2. QED
    BY <1>8, <2>1
<1>11. Nat \subseteq T
  <2> HIDE DEF T
  <2>1. QED
    BY <1>9, <1>10, SetInduction
<1>12. up \in [Nat -> V]
  <2>1. \E body : up = [n \in Nat |-> body[n]]
    BY <1>6, <1>5
  <2>2. QED
    BY <1>6, <1>11, <2>1
<1>13. QED
  BY <1>7, <1>8, <1>12 DEF Ascends

(* From a child the climb is that from its parent, one step later.          *)
LEMMA ClimbChild ==
  ASSUME NEW tree \in Trees, WellFormed(tree), NEW id \in Ids(tree) \ {Root},
         NEW up, Ascends(up, tree, id),
         NEW above, Ascends(above, tree, Node(tree, id).parent)
  PROVE  \A n \in Nat : up[n + 1] = Append(above[n], id)
<1> DEFINE m == Node(tree, id).parent
           S == {n \in Nat : up[n + 1] = Append(above[n], id)}
<1>1. m \in Ids(tree)
  BY TreeShape
<1> HIDE DEF m
<1>2. above[0] = <<m>> /\ up[0] = <<id>>
  BY DEF Ascends, m
<1>3. 0 \in S
  <2>1. up[0 + 1] = Climb(tree, up[0])
    BY DEF Ascends
  <2>2. Climb(tree, <<id>>) = <<m>> \o <<id>>
    BY DEF Climb, m
  <2>3. <<m>> \o <<id>> = Append(<<m>>, id)
    BY <1>1, AppendIsConcat
  <2>4. QED
    BY <1>2, <2>1, <2>2, <2>3
<1>4. \A n \in Nat : n \in S => n + 1 \in S
  <2> SUFFICES ASSUME NEW n \in Nat, n \in S
               PROVE  n + 1 \in S
    OBVIOUS
  <2>1. above[n] \in Seq(Ids(tree)) \ {<<>>} /\ above[n + 1] = Climb(tree, above[n])
    BY DEF Ascends
  <2>2. n + 1 \in Nat
    OBVIOUS
  <2>3. up[n + 1 + 1] = Climb(tree, up[n + 1])
    BY <2>2 DEF Ascends
  <2>4. Climb(tree, Append(above[n], id)) = Append(Climb(tree, above[n]), id)
    BY <2>1, ClimbStep
  <2>5. QED
    BY <2>1, <2>2, <2>3, <2>4
<1>5. Nat \subseteq S
  <2> HIDE DEF S
  <2>1. QED
    BY <1>3, <1>4, SetInduction
<1>6. QED
  BY <1>5

(* After as many steps as it takes to find a node from the root, the climb  *)
(* from it has come to the root.                                            *)
LEMMA ClimbEnds ==
  ASSUME NEW tree \in Trees, WellFormed(tree), NEW id \in Ids(tree), NEW up, Ascends(up, tree, id)
  PROVE  up[Len(tree.nodes)][1] = Root
<1> DEFINE L == Len(tree.nodes)
<1>1. L \in Nat
  BY LenProperties DEF Trees
<1>2. PICK f \in [0 .. L -> SUBSET Ids(tree)] :
        /\ f[0] = {Root}
        /\ f[L] = Ids(tree)
        /\ \A n \in 0 .. L - 1 :
             /\ f[n] \subseteq f[n + 1]
             /\ \A x \in f[n + 1] \ f[n] : x # Root /\ Node(tree, x).parent \in f[n]
  BY FoundByParent
<1> DEFINE Ends(n) == \A x \in f[n] : \A g : Ascends(g, tree, x) => g[n][1] = Root
           S == {n \in 0 .. L : Ends(n)}
<1> HIDE DEF L
<1>3. 0 \in S
  <2>1. \A g : Ascends(g, tree, Root) => g[0][1] = Root
    BY DEF Ascends
  <2>2. 0 \in 0 .. L
    BY <1>1
  <2>3. QED
    BY <1>2, <2>1, <2>2
<1>4. ASSUME NEW n \in 0 .. L - 1, n \in S
      PROVE  n + 1 \in S
  <2>1. n \in Nat /\ n + 1 \in 0 .. L
    BY <1>1
  <2>2. ASSUME NEW x \in f[n + 1], NEW g, Ascends(g, tree, x)
        PROVE  g[n + 1][1] = Root
    <3>1. CASE x \in f[n]
      <4>1. g[n][1] = Root
        BY <1>4, <2>2, <3>1
      <4>2. QED
        BY <2>1, <2>2, <4>1 DEF Ascends, Climb
    <3>2. CASE x \notin f[n]
      <4>1. x \in Ids(tree) \ {Root} /\ Node(tree, x).parent \in f[n]
        BY <1>2, <2>1, <3>2
      <4>2. Node(tree, x).parent \in Ids(tree)
        BY <4>1, TreeShape
      <4>3. PICK above : Ascends(above, tree, Node(tree, x).parent)
        BY <4>2, PathClimbs
      <4>4. g[n + 1] = Append(above[n], x)
        BY <2>1, <2>2, <4>1, <4>3, ClimbChild
      <4>5. above[n] \in Seq(Ids(tree)) \ {<<>>} /\ above[n][1] = Root
        BY <1>4, <2>1, <4>1, <4>3 DEF Ascends
      <4>6. QED
        BY <4>1, <4>4, <4>5, ClimbStep
    <3>3. QED
      BY <3>1, <3>2
  <2>3. QED
    BY <2>1, <2>2
<1>5. 0 .. L \subseteq S
  <2> HIDE DEF S
  <2>1. QED
    BY <1>1, <1>3, <1>4, BoundedInduction
<1>6. L \in 0 .. L
  BY <1>1
<1>7. Ends(L)
  BY <1>5, <1>6
<1>8. QED
  BY <1>2, <1>7 DEF L

(* The path to a node is that to its parent, and the node.                  *)
LEMMA PathFacts ==
  ASSUME NEW tree \in Trees, WellFormed(tree)
  PROVE  /\ PathTo(tree, Root) = <<Root>>
         /\ \A id \in Ids(tree) \ {Root} :
              PathTo(tree, id) = Append(PathTo(tree, Node(tree, id).parent), id)
         /\ \A id \in Ids(tree) : PathTo(tree, id) \in Seq(Ids(tree)) \ {<<>>}
<1> DEFINE L == Len(tree.nodes)
<1>1. L \in Nat
  BY LenProperties DEF Trees
<1>2. Root \in Ids(tree)
  BY TreeShape
<1>3. PathTo(tree, Root) = <<Root>>
  <2>1. PICK up : Ascends(up, tree, Root) /\ PathTo(tree, Root) = up[L]
    BY <1>2, PathClimbs
  <2> DEFINE S == {n \in Nat : up[n] = <<Root>>}
  <2>2. 0 \in S
    BY <2>1 DEF Ascends
  <2>3. \A n \in Nat : n \in S => n + 1 \in S
    <3>1. Climb(tree, <<Root>>) = <<Root>>
      BY DEF Climb
    <3>2. ASSUME NEW n \in Nat PROVE up[n + 1] = Climb(tree, up[n])
      BY <2>1 DEF Ascends
    <3>3. QED
      BY <3>1, <3>2
  <2>4. Nat \subseteq S
    <3> HIDE DEF S
    <3>1. QED
      BY <2>2, <2>3, SetInduction
  <2>5. QED
    BY <1>1, <2>1, <2>4
<1>4. ASSUME NEW id \in Ids(tree) \ {Root}
      PROVE  PathTo(tree, id) = Append(PathTo(tree, Node(tree, id).parent), id)
  <2>1. Node(tree, id).parent \in Ids(tree)
    BY TreeShape
  <2>2. PICK up : Ascends(up, tree, id) /\ PathTo(tree, id) = up[L]
    BY PathClimbs
  <2>3. PICK above : /\ Ascends(above, tree, Node(tree, id).parent)
                     /\ PathTo(tree, Node(tree, id).parent) = above[L]
    BY <2>1, PathClimbs
  <2>4. up[L + 1] = Append(above[L], id)
    BY <1>1, <2>2, <2>3, ClimbChild
  <2>5. up[L + 1] = Climb(tree, up[L]) /\ up[L][1] = Root
    BY <1>1, <2>2, ClimbEnds DEF Ascends
  <2>6. QED
    BY <2>2, <2>3, <2>4, <2>5 DEF Climb
<1>5. ASSUME NEW id \in Ids(tree)
      PROVE  PathTo(tree, id) \in Seq(Ids(tree)) \ {<<>>}
  <2>1. PICK up : Ascends(up, tree, id) /\ PathTo(tree, id) = up[L]
    BY PathClimbs
  <2> HIDE DEF L
  <2>2. QED
    BY <1>1, <2>1 DEF Ascends
<1>6. QED
  BY <1>3, <1>4, <1>5

(* What is below a node: the node, and what has its parent below it.        *)
LEMMA SubtreeByParent ==
  ASSUME NEW tree \in Trees, WellFormed(tree), NEW id \in Ids(tree)
  PROVE  /\ id \in Subtree(tree, id) /\ Subtree(tree, id) \subseteq Ids(tree)
         /\ Root \in Subtree(tree, id) <=> id = Root
         /\ \A x \in Ids(tree) \ {Root} :
              x \in Subtree(tree, id) <=>
                x = id \/ Node(tree, x).parent \in Subtree(tree, id)
<1>1. /\ \A x \in Ids(tree) \ {Root} :
           /\ Node(tree, x).parent \in Ids(tree)
           /\ x \in Range(Children(tree, Node(tree, x).parent))
      /\ \A y \in Ids(tree) :
           /\ Range(Children(tree, y)) \subseteq Ids(tree) \ {Root}
           /\ \A child \in Range(Children(tree, y)) : Node(tree, child).parent = y
  <2>1. \A x \in Ids(tree) \ {Root} :
          x \in Range(Children(tree, Node(tree, x).parent))
    <3> SUFFICES ASSUME NEW x \in Ids(tree) \ {Root}
                 PROVE  x \in Range(Children(tree, Node(tree, x).parent))
      OBVIOUS
    <3> DEFINE c == Children(tree, Node(tree, x).parent)
    <3>1. c \in Seq(NodeIds) /\ \E k \in 1 .. Len(c) : c[k] = x
      BY TreeShape
    <3> HIDE DEF c
    <3>2. DOMAIN c = 1 .. Len(c)
      BY <3>1, LenProperties
    <3>3. x \in Range(c)
      BY <3>1, <3>2 DEF Range
    <3>4. QED
      BY <3>3 DEF c
  <2>2. QED
    BY <2>1, TreeShape
<1>2. /\ id \in Subtree(tree, id) /\ Subtree(tree, id) \subseteq Ids(tree)
      /\ \A x \in Subtree(tree, id) \ {id} :
           \E y \in Subtree(tree, id) : x \in Range(Children(tree, y))
  BY <1>1, SubtreeFacts
<1>3. \A x \in Subtree(tree, id) : Range(Children(tree, x)) \subseteq Subtree(tree, id)
  BY <1>1, SubtreeClosed
<1>4. QED
  BY <1>1, <1>2, <1>3

(* One list begins with another.                                            *)
Starts(p, q) == Len(p) <= Len(q) /\ \A i \in 1 .. Len(p) : p[i] = q[i]

(* A node is below another when its path begins with that of the other, or  *)
(* comes through it.                                                        *)
LEMMA SubtreePaths ==
  ASSUME NEW tree \in Trees, WellFormed(tree), NEW id \in Ids(tree), NEW x \in Ids(tree)
  PROVE  /\ x \in Subtree(tree, id) <=> Starts(PathTo(tree, id), PathTo(tree, x))
         /\ x \in Subtree(tree, id) <=> id \in Range(PathTo(tree, x))
         /\ Len(PathTo(tree, x)) \in Nat \ {0}
         /\ PathTo(tree, x)[Len(PathTo(tree, x))] = x
<1> DEFINE P(y) == PathTo(tree, y)
           Ends(y) == Len(P(y)) \in Nat \ {0} /\ P(y)[Len(P(y))] = y
           Below(y) == /\ y \in Subtree(tree, id) <=> Starts(P(id), P(y))
                       /\ y \in Subtree(tree, id) <=> id \in Range(P(y))
           X == {y \in Ids(tree) : Below(y)}
<1>1. Root \in Ids(tree)
  BY TreeShape
<1>2. P(Root) = <<Root>> /\ Range(<<Root>>) = {Root} /\ Len(<<Root>>) = 1
  BY PathFacts DEF Range
<1>3. ASSUME NEW y \in Ids(tree) \ {Root}
      PROVE  LET m == Node(tree, y).parent
             IN  /\ m \in Ids(tree)
                 /\ Len(P(m)) \in Nat \ {0} /\ Len(P(y)) = Len(P(m)) + 1
                 /\ \A i \in 1 .. Len(P(m)) : P(y)[i] = P(m)[i]
                 /\ P(y)[Len(P(m)) + 1] = y
                 /\ Range(P(y)) = Range(P(m)) \cup {y}
  <2> DEFINE m == Node(tree, y).parent
  <2>1. m \in Ids(tree)
    BY TreeShape
  <2>2. P(m) \in Seq(Ids(tree)) \ {<<>>} /\ P(y) = Append(P(m), y)
    BY <2>1, PathFacts
  <2> DEFINE q == P(m)
  <2> HIDE DEF q
  <2>3. /\ Len(q) \in Nat \ {0} /\ Len(Append(q, y)) = Len(q) + 1
        /\ \A i \in 1 .. Len(q) : Append(q, y)[i] = q[i]
        /\ Append(q, y)[Len(q) + 1] = y
        /\ Range(Append(q, y)) = Range(q) \cup {y}
    BY <2>2, EmptySeq, AppendProperties, PushElements DEF q
  <2>4. QED
    BY <2>1, <2>2, <2>3 DEF q
<1> HIDE DEF P
<1>4. \A y \in Ids(tree) : Ends(y)
  <2>1. Ends(Root)
    BY <1>2
  <2>2. QED
    BY <2>1, <1>3
<1>5. Root \in X
  <2>1. Root \in Subtree(tree, id) <=> id = Root
    BY SubtreeByParent
  <2>2. id # Root => Len(P(id)) > 1
    BY <1>3
  <2>3. id = Root => Starts(P(id), P(Root))
    <3>1. Starts(P(Root), P(Root))
      BY <1>1, <1>4 DEF Starts
    <3>2. QED
      BY <3>1
  <2>4. id # Root => ~Starts(P(id), P(Root))
    BY <1>2, <2>2 DEF Starts
  <2>5. QED
    BY <1>1, <1>2, <2>1, <2>3, <2>4
<1>6. ASSUME NEW y \in Ids(tree) \ {Root}, Node(tree, y).parent \in X
      PROVE  y \in X
  <2> DEFINE m == Node(tree, y).parent
  <2>1. y \in Subtree(tree, id) <=> y = id \/ m \in Subtree(tree, id)
    BY SubtreeByParent
  <2>2. /\ m \in Ids(tree) /\ Len(P(m)) \in Nat \ {0} /\ Len(P(y)) = Len(P(m)) + 1
        /\ \A i \in 1 .. Len(P(m)) : P(y)[i] = P(m)[i]
        /\ P(y)[Len(P(m)) + 1] = y
        /\ Range(P(y)) = Range(P(m)) \cup {y}
    BY <1>3
  <2>3. Below(m)
    BY <1>6
  <2>4. Ends(id)
    BY <1>4
  <2> HIDE DEF m
  <2>5. Starts(P(id), P(y)) <=> y = id \/ Starts(P(id), P(m))
    <3>1. y = id => Starts(P(id), P(y))
      BY <2>4 DEF Starts
    <3>2. Starts(P(id), P(m)) => Starts(P(id), P(y))
      BY <2>2, <2>4 DEF Starts
    <3>3. ASSUME Starts(P(id), P(y)), Len(P(id)) = Len(P(y))
          PROVE  y = id
      BY <2>2, <2>4, <3>3 DEF Starts
    <3>4. ASSUME Starts(P(id), P(y)), Len(P(id)) # Len(P(y))
          PROVE  Starts(P(id), P(m))
      BY <2>2, <2>4, <3>4 DEF Starts
    <3>5. QED
      BY <3>1, <3>2, <3>3, <3>4
  <2>6. QED
    BY <2>1, <2>2, <2>3, <2>5
<1>7. Ids(tree) \subseteq X
  <2> HIDE DEF X
  <2>1. QED
    BY <1>5, <1>6, TreeInduction
<1>8. Below(x) /\ Ends(x)
  BY <1>4, <1>7
<1>9. QED
  BY <1>8 DEF P

(* Lists that agree so far have the same beginning.                         *)
LEMMA SameBeginning ==
  ASSUME NEW S, NEW s \in Seq(S), NEW t \in Seq(S), NEW n \in Nat,
         n <= Len(s), n <= Len(t), \A i \in 1 .. n : s[i] = t[i]
  PROVE  SubSeq(s, 1, n) = SubSeq(t, 1, n)
<1>1. Len(s) \in Nat /\ Len(t) \in Nat
  BY LenProperties
<1>2. \A i \in 1 .. n : s[i] \in S /\ t[i] \in S
  BY <1>1, ElementOfSeq
<1>3. n - 1 + 1 = n /\ (1 <= n \/ n = 0)
  OBVIOUS
<1>4. /\ SubSeq(s, 1, n) \in Seq(S) /\ Len(SubSeq(s, 1, n)) = n
      /\ \A i \in 1 .. n : SubSeq(s, 1, n)[i] = s[1 + i - 1]
  BY <1>2, <1>3, SubSeqProperties
<1>5. /\ SubSeq(t, 1, n) \in Seq(S) /\ Len(SubSeq(t, 1, n)) = n
      /\ \A i \in 1 .. n : SubSeq(t, 1, n)[i] = t[1 + i - 1]
  BY <1>2, <1>3, SubSeqProperties
<1>6. \A i \in 1 .. n : 1 + i - 1 = i
  OBVIOUS
<1> DEFINE a == SubSeq(s, 1, n)
           b == SubSeq(t, 1, n)
<1> HIDE DEF a, b
<1>7. a \in Seq(S) /\ b \in Seq(S) /\ Len(a) = Len(b) /\ \A i \in 1 .. Len(a) : a[i] = b[i]
  BY <1>4, <1>5, <1>6 DEF a, b
<1>8. a = b
  BY <1>7, SeqEqual
<1>9. QED
  BY <1>8 DEF a, b

(* What is below a node below another is below that one.                    *)
LEMMA SubtreeTransitive ==
  ASSUME NEW tree \in Trees, WellFormed(tree), NEW id \in Ids(tree), NEW x \in Subtree(tree, id)
  PROVE  Subtree(tree, x) \subseteq Subtree(tree, id)
<1> SUFFICES ASSUME NEW y \in Subtree(tree, x)
             PROVE  y \in Subtree(tree, id)
  OBVIOUS
<1>1. x \in Ids(tree) /\ y \in Ids(tree)
  BY SubtreeByParent
<1>2. Starts(PathTo(tree, id), PathTo(tree, x)) /\ Starts(PathTo(tree, x), PathTo(tree, y))
  BY <1>1, SubtreePaths
<1>3. /\ Len(PathTo(tree, id)) \in Nat /\ Len(PathTo(tree, x)) \in Nat
      /\ Len(PathTo(tree, y)) \in Nat
  BY <1>1, SubtreePaths
<1>4. Starts(PathTo(tree, id), PathTo(tree, y))
  BY <1>2, <1>3 DEF Starts
<1>5. QED
  BY <1>1, <1>4, SubtreePaths

(* And further from the root.                                               *)
LEMMA LongerBelow ==
  ASSUME NEW tree \in Trees, WellFormed(tree), NEW id \in Ids(tree),
         NEW x \in Subtree(tree, id) \ {id}
  PROVE  Len(PathTo(tree, x)) > Len(PathTo(tree, id))
<1> DEFINE p == PathTo(tree, id)
           q == PathTo(tree, x)
<1>1. x \in Ids(tree)
  BY SubtreeByParent
<1>2. /\ Starts(p, q) /\ Len(p) \in Nat \ {0} /\ Len(q) \in Nat \ {0}
      /\ p[Len(p)] = id /\ q[Len(q)] = x
  BY <1>1, SubtreePaths
<1> HIDE DEF p, q
<1>3. Len(p) <= Len(q) /\ (Len(p) = Len(q) => p[Len(p)] = q[Len(q)])
  BY <1>2 DEF Starts
<1>4. Len(q) > Len(p)
  BY <1>2, <1>3
<1>5. QED
  BY <1>4 DEF p, q

(* The subtrees of the children make up that of a node.                     *)
LEMMA SubtreeParts ==
  ASSUME NEW tree \in Trees, WellFormed(tree), NEW x \in Ids(tree)
  PROVE  LET c == Children(tree, x)
         IN  /\ c \in Seq(NodeIds)
             /\ \A k \in 1 .. Len(c) :
                  /\ c[k] \in Ids(tree) \ {Root} /\ Node(tree, c[k]).parent = x
                  /\ c[k] \in Range(c)
                  /\ SiblingIndex(tree, c[k]) = k - 1
                  /\ Subtree(tree, c[k]) \subseteq Subtree(tree, x) \ {x}
                  /\ Len(PathTo(tree, c[k])) = Len(PathTo(tree, x)) + 1
                  /\ PathTo(tree, c[k])[Len(PathTo(tree, x)) + 1] = c[k]
                  /\ \A i \in 1 .. Len(PathTo(tree, x)) :
                       PathTo(tree, c[k])[i] = PathTo(tree, x)[i]
             /\ \A y \in Subtree(tree, x) \ {x} : \E k \in 1 .. Len(c) : y \in Subtree(tree, c[k])
<1> DEFINE c == Children(tree, x)
<1>1. /\ \A y \in Ids(tree) : Range(Children(tree, y)) \subseteq Ids(tree)
      /\ c \in Seq(NodeIds) /\ IsInjective(c)
      /\ Range(c) \subseteq Ids(tree) \ {Root}
      /\ \A child \in Range(c) : Node(tree, child).parent = x
  BY TreeShape
<1>2. DOMAIN c = 1 .. Len(c) /\ Len(c) \in Nat
  BY <1>1, LenProperties
<1> HIDE DEF c
<1>3. /\ \A k \in 1 .. Len(c) : c[k] \in Range(c)
      /\ \A j, k \in 1 .. Len(c) : c[j] = c[k] => j = k
  BY <1>1, <1>2 DEF Range, IsInjective
<1>4. ASSUME NEW k \in 1 .. Len(c)
      PROVE  /\ c[k] \in Ids(tree) \ {Root} /\ Node(tree, c[k]).parent = x
             /\ SiblingIndex(tree, c[k]) = k - 1
             /\ Subtree(tree, c[k]) \subseteq Subtree(tree, x) \ {x}
             /\ Len(PathTo(tree, c[k])) = Len(PathTo(tree, x)) + 1
             /\ PathTo(tree, c[k])[Len(PathTo(tree, x)) + 1] = c[k]
             /\ \A i \in 1 .. Len(PathTo(tree, x)) : PathTo(tree, c[k])[i] = PathTo(tree, x)[i]
  <2>1. c[k] \in Ids(tree) \ {Root} /\ Node(tree, c[k]).parent = x
    BY <1>1, <1>3
  <2>2. SiblingIndex(tree, c[k]) = k - 1
    <3>1. k - 1 \in 0 .. Len(c) - 1 /\ k - 1 + 1 = k
      BY <1>2
    <3>2. \A i \in 0 .. Len(c) - 1 : c[i + 1] = c[k] => i = k - 1
      BY <1>2, <1>3
    <3>3. SiblingIndex(tree, c[k]) = CHOOSE i \in 0 .. Len(c) - 1 : c[i + 1] = c[k]
      BY <2>1 DEF SiblingIndex, c
    <3>4. QED
      BY <3>1, <3>2, <3>3
  <2> DEFINE p == PathTo(tree, x)
             q == PathTo(tree, c[k])
  <2>3. p \in Seq(Ids(tree)) \ {<<>>} /\ q = Append(p, c[k])
    BY <2>1, PathFacts
  <2> HIDE DEF p, q
  <2>4. /\ Len(q) = Len(p) + 1 /\ q[Len(p) + 1] = c[k]
        /\ \A i \in 1 .. Len(p) : q[i] = p[i]
    BY <2>1, <2>3, AppendProperties
  <2>5. Subtree(tree, c[k]) \subseteq Subtree(tree, x) \ {x}
    <3> SUFFICES ASSUME NEW y \in Subtree(tree, c[k])
                 PROVE  y \in Subtree(tree, x) /\ y # x
      OBVIOUS
    <3>1. y \in Ids(tree)
      BY <2>1, SubtreeByParent
    <3> DEFINE r == PathTo(tree, y)
    <3>2. Starts(q, r)
      BY <2>1, <3>1, SubtreePaths DEF q
    <3>3. Len(p) \in Nat \ {0} /\ Len(r) \in Nat \ {0}
      BY <3>1, SubtreePaths DEF p
    <3> HIDE DEF r
    <3>4. Starts(p, r) /\ Len(r) > Len(p)
      BY <2>4, <3>2, <3>3 DEF Starts
    <3>5. y # x
      BY <3>3, <3>4 DEF p, r
    <3>6. y \in Subtree(tree, x)
      BY <3>1, <3>4, SubtreePaths DEF p, r
    <3>7. QED
      BY <3>5, <3>6
  <2>6. QED
    BY <2>1, <2>2, <2>4, <2>5 DEF p, q
<1>5. ASSUME NEW y \in Subtree(tree, x) \ {x}
      PROVE  \E k \in 1 .. Len(c) : y \in Subtree(tree, c[k])
  <2> DEFINE parts == UNION {Subtree(tree, child) : child \in Range(c)}
             X == {x} \cup parts
  <2>1. Range(c) \subseteq parts
    BY <1>1, SubtreeByParent
  <2>2. ASSUME NEW child \in Range(c), NEW z \in Subtree(tree, child)
        PROVE  Range(Children(tree, z)) \subseteq parts
    <3>1. Range(Children(tree, z)) \subseteq Subtree(tree, child)
      BY <1>1, <2>2, SubtreeClosed
    <3>2. QED
      BY <3>1
  <2>3. \A z \in Ids(tree) \cap X : Range(Children(tree, z)) \subseteq X
    BY <2>1, <2>2 DEF c
  <2>4. Subtree(tree, x) \subseteq X
    <3> x \in X
      OBVIOUS
    <3> HIDE DEF X
    <3>1. QED
      BY <1>1, <2>3, SubtreeWithin
  <2>5. PICK child \in Range(c) : y \in Subtree(tree, child)
    BY <2>4
  <2>6. PICK k \in 1 .. Len(c) : c[k] = child
    BY <1>2, <2>5 DEF Range
  <2>7. QED
    BY <2>5, <2>6
<1>6. QED
  BY <1>1, <1>3, <1>4, <1>5 DEF c

(* A node comes before what is below it.                                    *)
LEMMA PrecedesBelow ==
  ASSUME NEW tree \in Trees, WellFormed(tree), NEW x \in Ids(tree), NEW y \in Subtree(tree, x),
         x # y
  PROVE  Precedes(tree, x, y)
<1> DEFINE p == PathTo(tree, x)
           q == PathTo(tree, y)
<1>1. y \in Ids(tree)
  BY SubtreeByParent
<1>2. Starts(p, q)
  BY <1>1, SubtreePaths
<1>3. p \in Seq(Ids(tree)) /\ q \in Seq(Ids(tree)) /\ Len(p) \in Nat
  BY <1>1, PathFacts, SubtreePaths
<1> HIDE DEF p, q
<1>4. Len(p) <= Len(p) /\ Len(p) <= Len(q) /\ \A i \in 1 .. Len(p) : p[i] = q[i]
  BY <1>2, <1>3 DEF Starts
<1>5. SubSeq(p, 1, Len(p)) = SubSeq(q, 1, Len(p))
  BY <1>3, <1>4, SameBeginning
<1>6. IsPrefix(p, q)
  BY <1>4, <1>5 DEF IsPrefix
<1>7. QED
  BY <1>6 DEF Precedes, p, q

(* What is below a child comes before what is below a later one.            *)
LEMMA PrecedesBeside ==
  ASSUME NEW tree \in Trees, WellFormed(tree), NEW x \in Ids(tree),
         NEW j \in 1 .. Len(Children(tree, x)), NEW k \in 1 .. Len(Children(tree, x)), j < k,
         NEW y \in Subtree(tree, Children(tree, x)[j]),
         NEW z \in Subtree(tree, Children(tree, x)[k])
  PROVE  Precedes(tree, y, z)
<1> DEFINE c == Children(tree, x)
           a == PathTo(tree, x)
           p == PathTo(tree, y)
           q == PathTo(tree, z)
           n == Len(a)
<1>1. /\ c[j] \in Ids(tree) /\ c[k] \in Ids(tree)
      /\ SiblingIndex(tree, c[j]) = j - 1 /\ SiblingIndex(tree, c[k]) = k - 1
      /\ Len(PathTo(tree, c[j])) = n + 1 /\ Len(PathTo(tree, c[k])) = n + 1
      /\ PathTo(tree, c[j])[n + 1] = c[j] /\ PathTo(tree, c[k])[n + 1] = c[k]
      /\ \A i \in 1 .. n : PathTo(tree, c[j])[i] = a[i] /\ PathTo(tree, c[k])[i] = a[i]
  BY SubtreeParts
<1>2. y \in Ids(tree) /\ z \in Ids(tree)
  BY <1>1, SubtreeByParent
<1>3. Starts(PathTo(tree, c[j]), p) /\ Starts(PathTo(tree, c[k]), q)
  BY <1>1, <1>2, SubtreePaths
<1>4. /\ p \in Seq(Ids(tree)) /\ q \in Seq(Ids(tree))
      /\ Len(p) \in Nat /\ Len(q) \in Nat /\ n \in Nat \ {0}
  BY <1>2, PathFacts, SubtreePaths
<1>5. Len(Children(tree, x)) \in Nat
  BY SubtreeParts, LenProperties
<1> HIDE DEF a, p, q, n, c
<1>6. /\ n + 1 <= Len(p) /\ n + 1 <= Len(q) /\ p[n + 1] = c[j] /\ q[n + 1] = c[k]
      /\ \A i \in 1 .. n : p[i] = q[i]
  BY <1>1, <1>3, <1>4 DEF Starts
<1>7. SubSeq(p, 1, n) = SubSeq(q, 1, n)
  <2>1. n \in Nat /\ n <= Len(p) /\ n <= Len(q)
    BY <1>4, <1>6
  <2>2. QED
    BY <1>4, <1>6, <2>1, SameBeginning
<1>8. /\ n + 1 \in 2 .. Len(p) \cap 2 .. Len(q) /\ n + 1 - 1 = n
      /\ SiblingIndex(tree, p[n + 1]) < SiblingIndex(tree, q[n + 1])
  BY <1>1, <1>4, <1>5, <1>6
<1>9. p[n + 1] # q[n + 1]
  BY <1>8, <1>1, <1>5, <1>6
<1>10. y # z
  BY <1>9 DEF p, q
<1>11. \E i \in 2 .. Len(p) \cap 2 .. Len(q) :
         /\ SubSeq(p, 1, i - 1) = SubSeq(q, 1, i - 1)
         /\ p[i] # q[i]
         /\ SiblingIndex(tree, p[i]) < SiblingIndex(tree, q[i])
  <2> DEFINE i == n + 1
  <2>1. i - 1 = n
    BY <1>4
  <2>2. SubSeq(p, 1, i - 1) = SubSeq(q, 1, i - 1)
    BY <1>7, <2>1
  <2> HIDE DEF i
  <2>3. /\ i \in 2 .. Len(p) \cap 2 .. Len(q) /\ p[i] # q[i]
        /\ SiblingIndex(tree, p[i]) < SiblingIndex(tree, q[i])
    BY <1>8, <1>9 DEF i
  <2>4. QED
    BY <2>2, <2>3
<1>12. QED
  BY <1>10, <1>11 DEF Precedes, p, q

-----------------------------------------------------------------------------
(* The list of variation_graph                                              *)

PendingRecords(tree) == [id : Ids(tree), depth : Nat, sibling_index : Nat]

ProjectedRecords(tree) ==
  [id : Ids(tree), parent : NodeIds \cup {None}, depth : Nat, sibling_index : Nat,
   main_variation : BOOLEAN, on_current_path : BOOLEAN]

(* The children of a node wait in reverse, so that the first is on top.     *)
LEMMA ReversedChildren ==
  ASSUME NEW tree, NEW children \in Seq(Ids(tree)), NEW depth \in Nat
  PROVE  LET more == PendingChildren(children, depth)
             L == Len(children)
         IN  /\ more \in Seq(PendingRecords(tree)) /\ Len(more) = L
             /\ \A i \in 1 .. L :
                  /\ L - i + 1 \in 1 .. L
                  /\ more[i].id = children[L - i + 1]
                  /\ more[i].depth = depth
<1> DEFINE R == PendingRecords(tree)
           L == Len(children)
           e(i) == Pending(children[i], depth, i - 1)
           s == [i \in DOMAIN children |-> e(i)]
<1>1. L \in Nat /\ DOMAIN children = 1 .. L
  BY LenProperties
<1>2. \A i \in 1 .. L : children[i] \in Ids(tree)
  BY ElementOfSeq
<1>3. \A i \in 1 .. L : e(i) \in R /\ e(i).id = children[i] /\ e(i).depth = depth
  BY <1>1, <1>2 DEF Pending, PendingRecords
<1> HIDE DEF e, L
<1>4. s \in Seq(R) /\ s = [i \in 1 .. L |-> e(i)]
  BY <1>1, <1>3, IsASeq
<1>5. Len(s) = L
  BY <1>1, <1>4, LenProperties
<1> DEFINE t == [i \in 1 .. L |-> s[L - i + 1]]
<1>6. PendingChildren(children, depth) = t
  BY <1>5 DEF PendingChildren, Reverse, e
<1>7. \A i \in 1 .. L : L - i + 1 \in 1 .. L
  BY <1>1
<1>8. \A i \in 1 .. L : t[i] = e(L - i + 1)
  BY <1>4, <1>7
<1>9. \A i \in 1 .. L : t[i] \in R
  BY <1>3, <1>7, <1>8
<1> HIDE DEF s
<1>10. t \in Seq(R) /\ Len(t) = L
  <2> DEFINE g(i) == s[L - i + 1]
  <2>1. \A i \in 1 .. L : g(i) \in R
    BY <1>9
  <2> HIDE DEF g
  <2>2. [i \in 1 .. L |-> g(i)] \in Seq(R)
    BY <1>1, <2>1, IsASeq
  <2>3. t \in Seq(R)
    BY <2>2 DEF g
  <2>4. DOMAIN t = 1 .. L
    OBVIOUS
  <2> HIDE DEF t
  <2>5. QED
    BY <1>1, <2>3, <2>4, LenProperties
<1> HIDE DEF t
<1>11. QED
  BY <1>3, <1>6, <1>7, <1>8, <1>10 DEF L

(* The top of a stack has given way to other elements.                      *)
TopReplaced(s, more, t, n) ==
  /\ n \in Nat /\ n + 1 = Len(s) /\ Last(s) = s[Len(s)]
  /\ Len(t) = n + Len(more) /\ Len(more) \in Nat
  /\ \A i \in 1 .. n : i \in 1 .. Len(s) /\ i \in 1 .. Len(t) /\ t[i] = s[i]
  /\ \A i \in 1 .. Len(more) : n + i \in 1 .. Len(t) /\ t[n + i] = more[i]
  /\ \A i \in 1 .. Len(t) :
       i \in 1 .. n \/ (i - n \in 1 .. Len(more) /\ t[i] = more[i - n])

(* As it has when lists are joined without it.                              *)
LEMMA PoppedPushed ==
  ASSUME NEW S, NEW s \in Seq(S), s # <<>>, NEW more \in Seq(S)
  PROVE  /\ Front(s) \o more \in Seq(S)
         /\ TopReplaced(s, more, Front(s) \o more, Len(s) - 1)
<1> DEFINE f == Front(s)
           t == f \o more
           n == Len(s) - 1
<1>1. /\ f \in Seq(S) /\ Len(f) = n /\ \A i \in 1 .. n : f[i] = s[i]
      /\ Last(s) \in S
  BY PopElements
<1>2. Len(s) \in Nat \ {0} /\ Last(s) = s[Len(s)]
  BY EmptySeq DEF Last
<1>3. n \in Nat /\ n + 1 = Len(s)
  BY <1>2
<1> HIDE DEF f, n
<1>4. /\ t \in Seq(S) /\ Len(t) = n + Len(more)
      /\ \A i \in 1 .. n + Len(more) : t[i] = IF i <= n THEN f[i] ELSE more[i - n]
  BY <1>1, ConcatProperties
<1>5. Len(more) \in Nat
  BY LenProperties
<1> HIDE DEF t
<1>6. \A i \in 1 .. n : i \in 1 .. Len(s) /\ i \in 1 .. Len(t) /\ t[i] = s[i]
  BY <1>1, <1>3, <1>4, <1>5
<1>7. \A i \in 1 .. Len(more) : n + i \in 1 .. Len(t) /\ t[n + i] = more[i]
  <2> SUFFICES ASSUME NEW i \in 1 .. Len(more)
               PROVE  n + i \in 1 .. Len(t) /\ t[n + i] = more[i]
    OBVIOUS
  <2> DEFINE k == n + i
  <2>1. k \in 1 .. n + Len(more) /\ ~(k <= n) /\ k - n = i
    BY <1>3, <1>5
  <2> HIDE DEF k
  <2>2. t[k] = more[i] /\ k \in 1 .. Len(t)
    BY <1>4, <2>1
  <2>3. QED
    BY <2>2 DEF k
<1>8. \A i \in 1 .. Len(t) :
        i \in 1 .. n \/ (i - n \in 1 .. Len(more) /\ t[i] = more[i - n])
  BY <1>3, <1>4, <1>5
<1>9. QED
  <2>1. TopReplaced(s, more, t, n)
    BY <1>2, <1>3, <1>4, <1>5, <1>6, <1>7, <1>8 DEF TopReplaced
  <2>2. QED
    BY <1>4, <2>1 DEF t, f, n

(* Of two nodes that wait, all below the upper one comes first; what is     *)
(* listed comes before all that waits, and in order.                        *)
InOrder(tree, pending, nodes) ==
  /\ \A i, j \in 1 .. Len(pending) : i < j =>
       \A y \in Subtree(tree, pending[j].id), z \in Subtree(tree, pending[i].id) :
         Precedes(tree, y, z)
  /\ \A i \in 1 .. Len(nodes), j \in 1 .. Len(pending) :
       \A z \in Subtree(tree, pending[j].id) : Precedes(tree, nodes[i].id, z)
  /\ \A i, j \in 1 .. Len(nodes) : i < j => Precedes(tree, nodes[i].id, nodes[j].id)

(* What is pushed for a node: its children, in reverse, or nothing.         *)
Expands(tree, item, more) ==
  \/ more = <<>>
  \/ more = PendingChildren(Children(tree, item.id), item.depth + 1)

(* Below the pushed nodes is all that is below the node.                    *)
Covers(tree, item, more) ==
  \A y \in Subtree(tree, item.id) \ {item.id} :
    \E i \in 1 .. Len(more) : y \in Subtree(tree, more[i].id)

(* The children that are pushed are further down, in order, and cover all   *)
(* that is below the node.                                                  *)
LEMMA Expansion ==
  ASSUME NEW tree \in Trees, WellFormed(tree), NEW item \in PendingRecords(tree),
         NEW more, Expands(tree, item, more)
  PROVE  /\ more \in Seq(PendingRecords(tree))
         /\ \A i \in 1 .. Len(more) :
              /\ more[i].id \in Ids(tree) \ {Root}
              /\ Node(tree, more[i].id).parent = item.id
              /\ more[i].depth = item.depth + 1
              /\ Len(PathTo(tree, more[i].id)) = Len(PathTo(tree, item.id)) + 1
              /\ Subtree(tree, more[i].id) \subseteq Subtree(tree, item.id) \ {item.id}
         /\ \A i, j \in 1 .. Len(more) : i < j =>
              \A y \in Subtree(tree, more[j].id), z \in Subtree(tree, more[i].id) :
                Precedes(tree, y, z)
         /\ more = PendingChildren(Children(tree, item.id), item.depth + 1) =>
              Covers(tree, item, more)
<1> DEFINE x == item.id
           c == Children(tree, x)
           L == Len(c)
           all == PendingChildren(c, item.depth + 1)
           R == PendingRecords(tree)
<1>1. x \in Ids(tree) /\ item.depth + 1 \in Nat
  BY DEF PendingRecords
<1> HIDE DEF x
<1>2. /\ c \in Seq(NodeIds)
      /\ \A k \in 1 .. L :
           /\ c[k] \in Ids(tree) \ {Root} /\ Node(tree, c[k]).parent = x
           /\ Subtree(tree, c[k]) \subseteq Subtree(tree, x) \ {x}
           /\ Len(PathTo(tree, c[k])) = Len(PathTo(tree, x)) + 1
      /\ \A y \in Subtree(tree, x) \ {x} : \E k \in 1 .. L : y \in Subtree(tree, c[k])
  BY <1>1, SubtreeParts
<1>3. \A j, k \in 1 .. L : j < k =>
        \A y \in Subtree(tree, c[j]), z \in Subtree(tree, c[k]) : Precedes(tree, y, z)
  BY <1>1, PrecedesBeside
<1> HIDE DEF c
<1>4. L \in Nat /\ DOMAIN c = 1 .. L
  BY <1>2, LenProperties
<1>5. c \in Seq(Ids(tree))
  BY <1>2, LenProperties, SeqDef
<1>6. /\ all \in Seq(R) /\ Len(all) = L
      /\ \A i \in 1 .. L :
           /\ L - i + 1 \in 1 .. L
           /\ all[i].id = c[L - i + 1]
           /\ all[i].depth = item.depth + 1
  BY <1>1, <1>5, ReversedChildren
<1> HIDE DEF all, R
<1>7. ASSUME NEW i \in 1 .. L, NEW j \in 1 .. L, i < j,
             NEW y \in Subtree(tree, all[j].id), NEW z \in Subtree(tree, all[i].id)
      PROVE  Precedes(tree, y, z)
  <2>1. L - j + 1 < L - i + 1
    BY <1>4, <1>7
  <2>2. L - j + 1 \in 1 .. L /\ L - i + 1 \in 1 .. L
    BY <1>6
  <2>3. y \in Subtree(tree, c[L - j + 1]) /\ z \in Subtree(tree, c[L - i + 1])
    BY <1>6, <1>7
  <2>4. QED
    BY <1>3, <2>1, <2>2, <2>3
<1>8. ASSUME NEW y \in Subtree(tree, x) \ {x}
      PROVE  \E i \in 1 .. L : y \in Subtree(tree, all[i].id)
  <2>1. PICK k \in 1 .. L : y \in Subtree(tree, c[k])
    BY <1>2
  <2>2. L - k + 1 \in 1 .. L /\ L - (L - k + 1) + 1 = k
    BY <1>4
  <2>3. all[L - k + 1].id = c[L - (L - k + 1) + 1]
    BY <1>6, <2>2
  <2>4. all[L - k + 1].id = c[k]
    BY <2>2, <2>3
  <2>5. QED
    BY <2>1, <2>2, <2>4
<1>9. CASE more = <<>>
  <2>1. Len(more) = 0 /\ more \in Seq(R)
    BY <1>9, EmptySeq
  <2>2. \A i \in 1 .. Len(more) : FALSE
    BY <2>1
  <2>3. more = all => L = 0
    BY <1>6, <2>1
  <2>4. ASSUME more = all, NEW y \in Subtree(tree, x) \ {x} PROVE FALSE
    BY <1>8, <2>3, <2>4
  <2>5. QED
    BY <2>1, <2>2, <2>4 DEF all, c, x, R, Covers
<1>10. CASE more = all
  <2>1. \A i \in 1 .. L :
          /\ all[i].id \in Ids(tree) \ {Root}
          /\ Node(tree, all[i].id).parent = x
          /\ all[i].depth = item.depth + 1
          /\ Len(PathTo(tree, all[i].id)) = Len(PathTo(tree, x)) + 1
          /\ Subtree(tree, all[i].id) \subseteq Subtree(tree, x) \ {x}
    BY <1>2, <1>6
  <2>2. Len(more) = L
    BY <1>6, <1>10
  <2>3. QED
    BY <1>6, <1>7, <1>8, <1>10, <2>1, <2>2 DEF x, R, Covers
<1>11. QED
  BY <1>9, <1>10 DEF Expands, all, c, x

(* Listing the top node and pushing its children keeps the order.           *)
LEMMA OrderKept ==
  ASSUME NEW tree \in Trees, WellFormed(tree),
         NEW pending \in Seq(PendingRecords(tree)), pending # <<>>,
         NEW nodes \in Seq(ProjectedRecords(tree)),
         NEW node \in ProjectedRecords(tree), node.id = Last(pending).id,
         NEW more, Expands(tree, Last(pending), more),
         InOrder(tree, pending, nodes)
  PROVE  InOrder(tree, Front(pending) \o more, Append(nodes, node))
<1> DEFINE item == Last(pending)
           x == item.id
           R == PendingRecords(tree)
           rest == Front(pending) \o more
           list == Append(nodes, node)
           n == Len(pending) - 1
           m == Len(nodes)
           below(y) == Subtree(tree, y)
<1>1. item \in R
  BY PopElements
<1>2. x \in Ids(tree)
  BY <1>1 DEF PendingRecords
<1>3. /\ more \in Seq(R)
      /\ \A i \in 1 .. Len(more) : below(more[i].id) \subseteq below(x) \ {x}
      /\ \A i, j \in 1 .. Len(more) : i < j =>
           \A y \in below(more[j].id), z \in below(more[i].id) : Precedes(tree, y, z)
  BY <1>1, Expansion
<1>4. TopReplaced(pending, more, rest, n)
  BY <1>3, PoppedPushed
<1>5. /\ Len(list) = m + 1 /\ m \in Nat
      /\ \A i \in 1 .. m : list[i] = nodes[i]
      /\ list[m + 1].id = x
  BY AppendProperties, LenProperties
<1>6. /\ \A i, j \in 1 .. Len(pending) : i < j =>
           \A y \in below(pending[j].id), z \in below(pending[i].id) : Precedes(tree, y, z)
      /\ \A i \in 1 .. m, j \in 1 .. Len(pending) :
           \A z \in below(pending[j].id) : Precedes(tree, nodes[i].id, z)
      /\ \A i, j \in 1 .. m : i < j => Precedes(tree, nodes[i].id, nodes[j].id)
  BY DEF InOrder
<1>7. x \in below(x) /\ \A y \in below(x) : x # y => Precedes(tree, x, y)
  BY <1>2, PrecedesBelow, SubtreeByParent
<1> HIDE DEF rest, list, n, m, x, R, item, below
<1>8. /\ n \in Nat /\ n + 1 = Len(pending) /\ item = pending[Len(pending)]
      /\ Len(rest) = n + Len(more) /\ Len(more) \in Nat
      /\ \A i \in 1 .. n : i \in 1 .. Len(pending) /\ rest[i] = pending[i]
  BY <1>4 DEF TopReplaced, item
<1>9. \A i \in 1 .. Len(rest) :
         i \in 1 .. n \/ (i - n \in 1 .. Len(more) /\ rest[i] = more[i - n])
  BY <1>4 DEF TopReplaced
<1>10. /\ \A i \in 1 .. n : \A y \in below(x), z \in below(pending[i].id) : Precedes(tree, y, z)
      /\ \A i \in 1 .. m : \A z \in below(x) : Precedes(tree, nodes[i].id, z)
  <2>1. Len(pending) \in 1 .. Len(pending) /\ \A i \in 1 .. n : i < Len(pending)
    BY <1>8
  <2>2. below(pending[Len(pending)].id) = below(x)
    BY <1>8 DEF x
  <2>3. QED
    BY <1>8, <1>6, <2>1, <2>2
<1>11. ASSUME NEW i \in 1 .. Len(rest), NEW j \in 1 .. Len(rest), i < j,
             NEW y \in below(rest[j].id), NEW z \in below(rest[i].id)
      PROVE  Precedes(tree, y, z)
  <2>1. CASE i \in 1 .. n /\ j \in 1 .. n
    BY <1>8, <1>6, <1>11, <2>1
  <2>2. CASE i \in 1 .. n /\ j \notin 1 .. n
    <3>1. y \in below(x)
      BY <1>3, <1>8, <1>9, <1>11, <2>2
    <3>2. z \in below(pending[i].id)
      BY <1>8, <1>11, <2>2
    <3>3. QED
      BY <1>10, <2>2, <3>1, <3>2
  <2>3. CASE i \notin 1 .. n
    <3>1. j \notin 1 .. n
      BY <1>8, <1>11, <2>3
    <3>2. /\ i - n \in 1 .. Len(more) /\ rest[i] = more[i - n]
          /\ j - n \in 1 .. Len(more) /\ rest[j] = more[j - n]
      <4>1. i - n \in 1 .. Len(more) /\ rest[i] = more[i - n]
        BY <1>9, <2>3
      <4>2. j - n \in 1 .. Len(more) /\ rest[j] = more[j - n]
        BY <1>9, <3>1
      <4>3. QED
        BY <4>1, <4>2
    <3>3. i - n < j - n
      BY <1>8, <1>11
    <3>4. QED
      BY <1>3, <1>11, <3>2, <3>3
  <2>4. QED
    BY <2>1, <2>2, <2>3
<1>12. ASSUME NEW i \in 1 .. Len(list), NEW j \in 1 .. Len(rest), NEW z \in below(rest[j].id)
       PROVE  Precedes(tree, list[i].id, z)
  <2>1. CASE j \in 1 .. n
    <3>1. z \in below(pending[j].id) /\ j \in 1 .. Len(pending)
      BY <1>8, <1>12, <2>1
    <3>2. CASE i \in 1 .. m
      BY <1>5, <1>6, <3>1, <3>2
    <3>3. CASE i = m + 1
      BY <1>5, <1>7, <1>10, <2>1, <3>1, <3>3
    <3>4. QED
      BY <1>5, <3>2, <3>3
  <2>2. CASE j \notin 1 .. n
    <3>1. z \in below(x) /\ z # x
      <4>1. j - n \in 1 .. Len(more) /\ rest[j] = more[j - n]
        BY <1>9, <2>2
      <4>2. z \in below(more[j - n].id)
        BY <1>12, <4>1
      <4>3. QED
        BY <1>3, <4>1, <4>2
    <3>2. CASE i \in 1 .. m
      BY <1>5, <1>10, <3>1, <3>2
    <3>3. CASE i = m + 1
      BY <1>5, <1>7, <3>1, <3>3
    <3>4. QED
      BY <1>5, <3>2, <3>3
  <2>3. QED
    BY <2>1, <2>2
<1>13. ASSUME NEW i \in 1 .. Len(list), NEW j \in 1 .. Len(list), i < j
       PROVE  Precedes(tree, list[i].id, list[j].id)
  <2>1. i \in 1 .. m
    BY <1>5, <1>13
  <2>2. CASE j \in 1 .. m
    BY <1>5, <1>6, <1>13, <2>1, <2>2
  <2>3. CASE j = m + 1
    BY <1>5, <1>7, <1>10, <2>1, <2>3
  <2>4. QED
    BY <1>5, <2>2, <2>3
<1>14. InOrder(tree, rest, list)
  BY <1>11, <1>12, <1>13 DEF InOrder, below
<1>15. QED
  BY <1>14 DEF rest, list

(* The nodes within the limits of a query.                                  *)
Within(tree, query) ==
  {id \in Subtree(tree, query.from) :
     Len(PathTo(tree, id)) - Len(PathTo(tree, query.from)) <= query.max_depth}

(* What waits and what is listed is within the limits, and its parent is    *)
(* listed before it, except for the first.                                  *)
Linked(tree, query, path, pending, nodes) ==
  /\ \A i \in 1 .. Len(pending) :
       LET id == pending[i].id
       IN  /\ id \in Within(tree, query)
           /\ pending[i].depth = Len(PathTo(tree, id)) - Len(PathTo(tree, query.from))
           /\ nodes # <<>> => /\ id # Root
                              /\ \E k \in 1 .. Len(nodes) : nodes[k].id = Node(tree, id).parent
  /\ nodes = <<>> => Len(pending) <= 1
  /\ \A i \in 1 .. Len(nodes) :
       /\ nodes[i].id \in Within(tree, query)
       /\ nodes[i].parent = Node(tree, nodes[i].id).parent
       /\ nodes[i].on_current_path <=> nodes[i].id \in Range(path)
  /\ \A i \in 2 .. Len(nodes) :
       nodes[i].id # Root /\ \E k \in 1 .. i - 1 : nodes[k].id = nodes[i].parent

(* Listing the top node and pushing its children keeps the links.           *)
LEMMA LinkedKept ==
  ASSUME NEW tree \in Trees, WellFormed(tree),
         NEW query, query.from \in Ids(tree), query.max_depth \in Nat, NEW path,
         NEW pending \in Seq(PendingRecords(tree)), pending # <<>>,
         NEW nodes \in Seq(ProjectedRecords(tree)),
         Projected(tree, Last(pending), path) \in ProjectedRecords(tree),
         NEW more, Expands(tree, Last(pending), more),
         more = <<>> \/ Last(pending).depth < query.max_depth,
         Linked(tree, query, path, pending, nodes)
  PROVE  Linked(tree, query, path, Front(pending) \o more,
                Append(nodes, Projected(tree, Last(pending), path)))
<1> DEFINE item == Last(pending)
           x == item.id
           R == PendingRecords(tree)
           Q == ProjectedRecords(tree)
           node == Projected(tree, item, path)
           rest == Front(pending) \o more
           list == Append(nodes, node)
           n == Len(pending) - 1
           m == Len(nodes)
           p(y) == Len(PathTo(tree, y))
           root == query.from
<1>1. item \in R
  BY PopElements
<1>2. x \in Ids(tree) /\ item.depth \in Nat
  BY <1>1 DEF PendingRecords
<1>3. /\ more \in Seq(R)
      /\ \A i \in 1 .. Len(more) :
           /\ more[i].id \in Ids(tree) \ {Root}
           /\ Node(tree, more[i].id).parent = x
           /\ more[i].depth = item.depth + 1
           /\ p(more[i].id) = p(x) + 1
  BY <1>1, Expansion
<1>4. TopReplaced(pending, more, rest, n)
  BY <1>3, PoppedPushed
<1>5. /\ Len(list) = m + 1 /\ m \in Nat /\ list # <<>>
      /\ \A i \in 1 .. m : list[i] = nodes[i]
      /\ list[m + 1] = node
      /\ nodes # <<>> <=> m # 0
  BY AppendProperties, LenProperties, EmptySeq
<1>6. /\ node.id = x /\ node.parent = Node(tree, x).parent
      /\ node.on_current_path <=> x \in Range(path)
  BY DEF Projected
<1>7. p(x) \in Nat /\ p(root) \in Nat
  BY <1>2, SubtreePaths
<1>8. ASSUME NEW i \in 1 .. Len(more)
      PROVE  more[i].id \in Subtree(tree, root) <=>
               more[i].id = root \/ x \in Subtree(tree, root)
  <2>1. more[i].id \in Ids(tree) \ {Root} /\ Node(tree, more[i].id).parent = x
    BY <1>3
  <2> HIDE DEF x
  <2>2. QED
    BY <2>1, SubtreeByParent
<1> HIDE DEF rest, list, n, m, x, R, Q, item, node, p, root
<1>9. /\ n \in Nat /\ n + 1 = Len(pending) /\ item = pending[Len(pending)]
      /\ Len(rest) = n + Len(more) /\ Len(more) \in Nat
      /\ \A i \in 1 .. n : i \in 1 .. Len(pending) /\ rest[i] = pending[i]
  BY <1>4 DEF TopReplaced, item
<1>10. \A i \in 1 .. Len(rest) :
         i \in 1 .. n \/ (i - n \in 1 .. Len(more) /\ rest[i] = more[i - n])
  BY <1>4 DEF TopReplaced
<1>11. /\ \A i \in 1 .. Len(pending) :
            /\ pending[i].id \in Within(tree, query)
            /\ pending[i].depth = p(pending[i].id) - p(root)
            /\ nodes # <<>> =>
                 /\ pending[i].id # Root
                 /\ \E k \in 1 .. m : nodes[k].id = Node(tree, pending[i].id).parent
       /\ nodes = <<>> => Len(pending) <= 1
       /\ \A i \in 1 .. m :
            /\ nodes[i].id \in Within(tree, query)
            /\ nodes[i].parent = Node(tree, nodes[i].id).parent
            /\ nodes[i].on_current_path <=> nodes[i].id \in Range(path)
       /\ \A i \in 2 .. m :
            nodes[i].id # Root /\ \E k \in 1 .. i - 1 : nodes[k].id = nodes[i].parent
  BY DEF Linked, p, m, root
<1>12. /\ x \in Within(tree, query) /\ item.depth = p(x) - p(root)
       /\ nodes # <<>> => x # Root /\ \E k \in 1 .. m : nodes[k].id = Node(tree, x).parent
  <2>1. Len(pending) \in 1 .. Len(pending)
    BY <1>9
  <2>2. pending[Len(pending)].id = x
    BY <1>9 DEF x
  <2>3. pending[Len(pending)].depth = item.depth
    BY <1>9
  <2>4. QED
    BY <1>11, <2>1, <2>2, <2>3
<1>13. ASSUME NEW i \in 1 .. Len(rest)
       PROVE  /\ rest[i].id \in Within(tree, query)
              /\ rest[i].depth = p(rest[i].id) - p(root)
              /\ rest[i].id # Root
              /\ \E k \in 1 .. m + 1 : list[k].id = Node(tree, rest[i].id).parent
  <2>1. CASE i \in 1 .. n
    <3>1. i \in 1 .. Len(pending) /\ rest[i] = pending[i]
      BY <1>9, <2>1
    <3>2. nodes # <<>>
      BY <1>9, <1>11, <2>1
    <3>3. PICK k \in 1 .. m : nodes[k].id = Node(tree, pending[i].id).parent
      BY <1>11, <3>1, <3>2
    <3>4. k \in 1 .. m + 1 /\ list[k].id = Node(tree, pending[i].id).parent
      BY <1>5, <3>3
    <3>5. QED
      BY <1>11, <3>1, <3>2, <3>4
  <2>2. CASE i \notin 1 .. n
    <3> DEFINE e == more[i - n]
    <3>1. i - n \in 1 .. Len(more) /\ rest[i] = e
      BY <1>10, <2>2
    <3>2. /\ e.id \in Ids(tree) \ {Root} /\ Node(tree, e.id).parent = x
          /\ e.depth = item.depth + 1 /\ p(e.id) = p(x) + 1
          /\ e.id \in Subtree(tree, root) <=> e.id = root \/ x \in Subtree(tree, root)
      BY <1>3, <1>8, <3>1
    <3>3. item.depth < query.max_depth
      <4>1. more # <<>>
        BY <3>1, EmptySeq
      <4>2. QED
        BY <4>1 DEF item
    <3> HIDE DEF e
    <3>4. e.id \in Within(tree, query)
      <4>1. e.id \in Subtree(tree, root)
        BY <1>12, <3>2 DEF Within, root
      <4>2. p(e.id) - p(root) <= query.max_depth
        BY <1>2, <1>7, <1>12, <3>2, <3>3
      <4>3. QED
        BY <4>1, <4>2 DEF Within, p, root
    <3>5. e.depth = p(e.id) - p(root)
      BY <1>2, <1>7, <1>12, <3>2
    <3>6. m + 1 \in 1 .. m + 1 /\ list[m + 1].id = Node(tree, e.id).parent
      BY <1>5, <1>6, <3>2
    <3>7. QED
      BY <3>1, <3>2, <3>4, <3>5, <3>6
  <2>3. QED
    BY <2>1, <2>2
<1>14. ASSUME NEW i \in 1 .. m + 1
       PROVE  /\ list[i].id \in Within(tree, query)
              /\ list[i].parent = Node(tree, list[i].id).parent
              /\ list[i].on_current_path <=> list[i].id \in Range(path)
  <2>1. CASE i \in 1 .. m
    BY <1>5, <1>11, <2>1
  <2>2. CASE i = m + 1
    BY <1>5, <1>6, <1>12, <2>2
  <2>3. QED
    BY <1>5, <2>1, <2>2
<1>15. ASSUME NEW i \in 2 .. m + 1
       PROVE  list[i].id # Root /\ \E k \in 1 .. i - 1 : list[k].id = list[i].parent
  <2>1. CASE i \in 2 .. m
    <3>1. PICK k \in 1 .. i - 1 : nodes[k].id = nodes[i].parent
      BY <1>11, <2>1
    <3>2. k \in 1 .. m /\ i \in 1 .. m
      BY <1>5, <2>1, <3>1
    <3>3. QED
      BY <1>5, <1>11, <2>1, <3>1, <3>2
  <2>2. CASE i = m + 1
    <3>1. nodes # <<>> /\ i - 1 = m
      BY <1>5, <2>2
    <3>2. PICK k \in 1 .. m : nodes[k].id = Node(tree, x).parent
      BY <1>12, <3>1
    <3>3. QED
      BY <1>5, <1>6, <1>12, <2>2, <3>1, <3>2
  <2>3. QED
    BY <1>5, <2>1, <2>2
<1>16. Linked(tree, query, path, rest, list)
  BY <1>5, <1>13, <1>14, <1>15 DEF Linked, p, root
<1>17. QED
  BY <1>16 DEF rest, list, node, item

(* What is listed, and what is below the nodes that wait.                   *)
ShownIds(nodes) == {nodes[i].id : i \in 1 .. Len(nodes)}

Awaited(tree, pending) ==
  UNION {Subtree(tree, pending[i].id) : i \in 1 .. Len(pending)}

(* No node within the limits is left out, unless the list is full and the   *)
(* node comes after it; truncated says whether a node of the subtree is.    *)
Complete(tree, query, pending, nodes, truncated) ==
  /\ \A id \in Within(tree, query) \ ShownIds(nodes) :
       \/ id \in Awaited(tree, pending)
       \/ /\ pending = <<>> /\ Len(nodes) = query.max_nodes
          /\ \A i \in 1 .. Len(nodes) : Precedes(tree, nodes[i].id, id)
  /\ truncated <=>
       \E y \in Subtree(tree, query.from) : y \notin ShownIds(nodes) /\ y \notin Awaited(tree, pending)

(* What is below the top is neither listed nor below another node that      *)
(* waits.                                                                   *)
LEMMA BelowTopApart ==
  ASSUME NEW tree \in Trees, NEW pending \in Seq(PendingRecords(tree)), pending # <<>>,
         NEW nodes \in Seq(ProjectedRecords(tree)), InOrder(tree, pending, nodes),
         NEW y \in Subtree(tree, Last(pending).id)
  PROVE  /\ y \notin ShownIds(nodes)
         /\ \A i \in 1 .. Len(pending) - 1 : y \notin Subtree(tree, pending[i].id)
<1>1. Len(pending) \in Nat \ {0} /\ Last(pending) = pending[Len(pending)]
  BY EmptySeq DEF Last
<1>2. ~Precedes(tree, y, y)
  BY DEF Precedes
<1>3. Len(pending) \in 1 .. Len(pending) /\ \A i \in 1 .. Len(pending) - 1 :
        i \in 1 .. Len(pending) /\ i < Len(pending)
  BY <1>1
<1>4. y \notin ShownIds(nodes)
  BY <1>1, <1>2, <1>3 DEF InOrder, ShownIds
<1>5. \A i \in 1 .. Len(pending) - 1 : y \notin Subtree(tree, pending[i].id)
  BY <1>1, <1>2, <1>3 DEF InOrder
<1>6. QED
  BY <1>4, <1>5

(* A full list leaves out all that still waits.                             *)
LEMMA CompleteWhenFull ==
  ASSUME NEW tree \in Trees, WellFormed(tree),
         NEW query, query.from \in Ids(tree), query.max_nodes \in Nat, NEW path,
         NEW pending \in Seq(PendingRecords(tree)), pending # <<>>,
         NEW nodes \in Seq(ProjectedRecords(tree)), Len(nodes) = query.max_nodes,
         NEW truncated, InOrder(tree, pending, nodes), Linked(tree, query, path, pending, nodes),
         Complete(tree, query, pending, nodes, truncated)
  PROVE  Complete(tree, query, <<>>, nodes, TRUE)
<1> DEFINE x == Last(pending).id
<1>1. Len(pending) \in Nat \ {0} /\ Last(pending) = pending[Len(pending)]
  BY EmptySeq DEF Last
<1>2. Len(pending) \in 1 .. Len(pending)
  BY <1>1
<1>3. x \in Within(tree, query)
  BY <1>1, <1>2 DEF Linked
<1>4. x \in Subtree(tree, query.from) /\ x \in Ids(tree)
  BY <1>3, SubtreeByParent DEF Within
<1>5. x \notin ShownIds(nodes)
  <2>1. x \in Subtree(tree, x)
    BY <1>4, SubtreeByParent
  <2>2. QED
    BY <2>1, BelowTopApart
<1>6. Awaited(tree, <<>>) = {}
  <2>1. \A i \in 1 .. Len(<<>>) : FALSE
    BY EmptySeq
  <2>2. QED
    BY <2>1 DEF Awaited
<1>7. ASSUME NEW id \in Within(tree, query) \ ShownIds(nodes)
      PROVE  \A i \in 1 .. Len(nodes) : Precedes(tree, nodes[i].id, id)
  <2>1. id \in Awaited(tree, pending)
    BY <1>7 DEF Complete
  <2>2. PICK j \in 1 .. Len(pending) : id \in Subtree(tree, pending[j].id)
    BY <2>1 DEF Awaited
  <2>3. QED
    BY <2>2 DEF InOrder
<1> HIDE DEF x
<1>8. QED
  BY <1>4, <1>5, <1>6, <1>7 DEF Complete

(* Listing the top node leaves out what is below it, at the depth limit,    *)
(* and nothing otherwise.                                                   *)
LEMMA CompleteKept ==
  ASSUME NEW tree \in Trees, WellFormed(tree),
         NEW query, query.from \in Ids(tree), query.max_depth \in Nat, NEW path,
         NEW pending \in Seq(PendingRecords(tree)), pending # <<>>,
         NEW nodes \in Seq(ProjectedRecords(tree)),
         NEW node \in ProjectedRecords(tree), node.id = Last(pending).id,
         NEW truncated \in BOOLEAN,
         InOrder(tree, pending, nodes), Linked(tree, query, path, pending, nodes),
         Complete(tree, query, pending, nodes, truncated),
         NEW more, NEW missing \in BOOLEAN,
         LET item == Last(pending)
             children == Children(tree, item.id)
         IN  \/ /\ item.depth < query.max_depth
                /\ more = PendingChildren(children, item.depth + 1)
                /\ missing = truncated
             \/ /\ item.depth >= query.max_depth
                /\ more = <<>>
                /\ missing = (truncated \/ children # <<>>)
  PROVE  Complete(tree, query, Front(pending) \o more, Append(nodes, node), missing)
<1> DEFINE item == Last(pending)
           x == item.id
           c == Children(tree, x)
           R == PendingRecords(tree)
           rest == Front(pending) \o more
           list == Append(nodes, node)
           n == Len(pending) - 1
           m == Len(nodes)
           below(y) == Subtree(tree, y)
           shown == ShownIds(nodes)
           ahead == Awaited(tree, pending)
           from == query.from
<1>1. item \in R
  BY PopElements
<1>2. x \in Ids(tree) /\ item.depth \in Nat
  BY <1>1 DEF PendingRecords
<1>3. Expands(tree, item, more)
  BY DEF Expands
<1>4. /\ more \in Seq(R)
      /\ \A i \in 1 .. Len(more) : below(more[i].id) \subseteq below(x) \ {x}
      /\ more = PendingChildren(c, item.depth + 1) =>
           \A y \in below(x) \ {x} : \E i \in 1 .. Len(more) : y \in below(more[i].id)
  <2>1. more \in Seq(R) /\ \A i \in 1 .. Len(more) : below(more[i].id) \subseteq below(x) \ {x}
    BY <1>1, <1>3, Expansion
  <2>2. ASSUME more = PendingChildren(c, item.depth + 1)
        PROVE  \A y \in below(x) \ {x} : \E i \in 1 .. Len(more) : y \in below(more[i].id)
    <3>1. item \in PendingRecords(tree) /\ more = PendingChildren(Children(tree, item.id), item.depth + 1)
      BY <1>1, <2>2
    <3>2. Covers(tree, item, more)
      BY <1>3, <3>1, Expansion
    <3>3. QED
      BY <3>2 DEF Covers
  <2>3. QED
    BY <2>1, <2>2
<1>5. TopReplaced(pending, more, rest, n)
  BY <1>4, PoppedPushed
<1>6. /\ Len(list) = m + 1 /\ m \in Nat
      /\ \A i \in 1 .. m : list[i] = nodes[i]
      /\ list[m + 1].id = x
  BY AppendProperties, LenProperties
<1>7. x \in below(x) /\ below(x) \subseteq Ids(tree)
  BY <1>2, SubtreeByParent
<1>8. \A y \in below(x) : y \notin shown /\ \A i \in 1 .. n : y \notin below(pending[i].id)
  BY BelowTopApart
<1>9. c # <<>> <=> below(x) \ {x} # {}
  <2>1. /\ c \in Seq(NodeIds)
        /\ \A k \in 1 .. Len(c) : c[k] \in Ids(tree) /\ below(c[k]) \subseteq below(x) \ {x}
        /\ \A y \in below(x) \ {x} : \E k \in 1 .. Len(c) : y \in below(c[k])
    <3> HIDE DEF x
    <3>1. QED
      BY <1>2, SubtreeParts
  <2>2. \A k \in 1 .. Len(c) : c[k] \in below(c[k])
    BY <2>1, SubtreeByParent
  <2> HIDE DEF c, below
  <2>3. c = <<>> => \A k \in 1 .. Len(c) : FALSE
    BY EmptySeq
  <2>4. c # <<>> => 1 \in 1 .. Len(c)
    BY <2>1, EmptySeq
  <2>5. QED
    BY <2>1, <2>2, <2>3, <2>4
<1>10. x \in Within(tree, query) /\ item.depth = Len(PathTo(tree, x)) - Len(PathTo(tree, from))
  <2>1. Len(pending) \in 1 .. Len(pending) /\ item = pending[Len(pending)]
    BY EmptySeq DEF Last
  <2>2. QED
    BY <2>1 DEF Linked
<1>11. below(x) \subseteq below(from)
  BY <1>2, <1>10, SubtreeTransitive DEF Within
<1>12. \A y \in below(x) \ {x} : Len(PathTo(tree, y)) > Len(PathTo(tree, x))
  BY <1>2, LongerBelow
<1> HIDE DEF rest, list, n, m, x, R, item, below, c, from
<1>13. /\ n \in Nat /\ n + 1 = Len(pending) /\ item = pending[Len(pending)]
       /\ Len(rest) = n + Len(more) /\ Len(more) \in Nat
       /\ \A i \in 1 .. n : i \in 1 .. Len(pending) /\ i \in 1 .. Len(rest) /\ rest[i] = pending[i]
       /\ \A i \in 1 .. Len(more) : n + i \in 1 .. Len(rest) /\ rest[n + i] = more[i]
  BY <1>5 DEF TopReplaced, item
<1>14. \A i \in 1 .. Len(rest) :
         i \in 1 .. n \/ (i - n \in 1 .. Len(more) /\ rest[i] = more[i - n])
  BY <1>5 DEF TopReplaced
<1>15. ShownIds(list) = shown \cup {x}
  <2>1. \A i \in 1 .. m + 1 : i \in 1 .. m \/ i = m + 1
    BY <1>6
  <2>2. m + 1 \in 1 .. m + 1 /\ \A i \in 1 .. m : i \in 1 .. m + 1
    BY <1>6
  <2>3. QED
    BY <1>6, <2>1, <2>2 DEF ShownIds, m
<1>16. ahead = below(x) \cup UNION {below(pending[i].id) : i \in 1 .. n}
  <2>1. \A i \in 1 .. Len(pending) : i \in 1 .. n \/ i = Len(pending)
    BY <1>13
  <2>2. Len(pending) \in 1 .. Len(pending) /\ pending[Len(pending)].id = x
    BY <1>13 DEF x
  <2>3. QED
    BY <1>13, <2>1, <2>2 DEF Awaited, below
<1>17. Awaited(tree, rest) = (UNION {below(pending[i].id) : i \in 1 .. n})
                             \cup (UNION {below(more[i].id) : i \in 1 .. Len(more)})
  <2>1. ASSUME NEW y, NEW i \in 1 .. Len(rest), y \in below(rest[i].id)
        PROVE  \/ \E j \in 1 .. n : y \in below(pending[j].id)
               \/ \E j \in 1 .. Len(more) : y \in below(more[j].id)
    BY <1>13, <1>14, <2>1
  <2>2. ASSUME NEW y, NEW j \in 1 .. n, y \in below(pending[j].id)
        PROVE  \E i \in 1 .. Len(rest) : y \in below(rest[i].id)
    BY <1>13, <2>2
  <2>3. ASSUME NEW y, NEW j \in 1 .. Len(more), y \in below(more[j].id)
        PROVE  \E i \in 1 .. Len(rest) : y \in below(rest[i].id)
    <3> DEFINE k == n + j
    <3>1. k \in 1 .. Len(rest) /\ rest[k] = more[j]
      BY <1>13
    <3> HIDE DEF k
    <3>2. QED
      BY <2>3, <3>1
  <2>4. QED
    BY <2>1, <2>2, <2>3 DEF Awaited, below
<1>18. UNION {below(more[i].id) : i \in 1 .. Len(more)} \subseteq below(x) \ {x}
  BY <1>4
<1>19. CASE /\ item.depth < query.max_depth
            /\ more = PendingChildren(c, item.depth + 1)
            /\ missing = truncated
  <2>1. UNION {below(more[i].id) : i \in 1 .. Len(more)} = below(x) \ {x}
    BY <1>4, <1>18, <1>19
  <2>2. ShownIds(list) \cup Awaited(tree, rest) = shown \cup ahead
    BY <1>7, <1>15, <1>16, <1>17, <2>1
  <2>3. \A id \in Within(tree, query) \ ShownIds(list) : id \in Awaited(tree, rest)
    BY <1>15, <2>2 DEF Complete
  <2>4. missing <=> \E y \in below(from) : y \notin ShownIds(list) /\ y \notin Awaited(tree, rest)
    BY <1>19, <2>2 DEF Complete, below, from
  <2>5. QED
    BY <2>3, <2>4 DEF Complete, rest, list, below, from
<1>20. CASE /\ item.depth >= query.max_depth
            /\ more = <<>>
            /\ missing = (truncated \/ c # <<>>)
  <2>1. UNION {below(more[i].id) : i \in 1 .. Len(more)} = {}
    <3>1. \A i \in 1 .. Len(more) : FALSE
      BY <1>20, EmptySeq
    <3>2. QED
      BY <3>1
  <2>2. \A y : y \in ShownIds(list) \cup Awaited(tree, rest) <=>
                 y \in shown \cup ahead /\ y \notin below(x) \ {x}
    <3> DEFINE parts == UNION {below(pending[i].id) : i \in 1 .. n}
    <3>1. ahead = below(x) \cup parts /\ Awaited(tree, rest) = parts
      BY <1>16, <1>17, <2>1
    <3>2. \A y \in below(x) : y \notin shown /\ y \notin parts
      BY <1>8
    <3> HIDE DEF parts, ahead, shown
    <3>3. QED
      BY <1>7, <1>15, <3>1, <3>2
  <2>3. ASSUME NEW id \in Within(tree, query) \ ShownIds(list)
        PROVE  id \in Awaited(tree, rest)
    <3>1. id \in ahead
      BY <1>15, <2>3 DEF Complete
    <3>2. id \notin below(x) \ {x}
      <4>1. id \in Ids(tree) /\ Len(PathTo(tree, id)) - Len(PathTo(tree, from)) <= query.max_depth
        BY <2>3, SubtreeByParent DEF Within, from
      <4>2. Len(PathTo(tree, id)) \in Nat /\ Len(PathTo(tree, x)) \in Nat
            /\ Len(PathTo(tree, from)) \in Nat
        BY <1>2, <4>1, SubtreePaths DEF from
      <4>3. QED
        BY <1>10, <1>12, <1>20, <4>1, <4>2
    <3>3. QED
      BY <2>2, <2>3, <3>1, <3>2
  <2>4. truncated <=> \E y \in below(from) : y \notin shown /\ y \notin ahead
    BY DEF Complete, below, from
  <2>5. missing <=> \E y \in below(from) : y \notin ShownIds(list) /\ y \notin Awaited(tree, rest)
    BY <1>9, <1>11, <1>20, <2>2, <2>4
  <2>6. QED
    BY <2>3, <2>5 DEF Complete, rest, list, below, from
<1>21. QED
  BY <1>19, <1>20 DEF item, c, x

(* The list under way after n rounds.                                       *)
Listings(tree) ==
  [pending : Seq(PendingRecords(tree)), nodes : Seq(ProjectedRecords(tree)),
   truncated : BOOLEAN]

Listed(tree, query, path, w, n) ==
  /\ w \in Listings(tree)
  /\ InOrder(tree, w.pending, w.nodes)
  /\ Linked(tree, query, path, w.pending, w.nodes)
  /\ Complete(tree, query, w.pending, w.nodes, w.truncated)
  /\ Len(w.nodes) <= query.max_nodes
  /\ w.pending = <<>> \/ Len(w.nodes) = n

(* A query that variation_graph answers.                                    *)
Answerable(tree, query) ==
  /\ tree \in Trees /\ WellFormed(tree)
  /\ query.from \in Ids(tree) /\ query.max_nodes \in Nat /\ query.max_depth \in Nat

StartListing(tree, query) ==
  LET index == IF query.from = Root THEN 0 ELSE SiblingIndex(tree, query.from)
  IN  [pending |-> <<Pending(query.from, 0, index)>>, nodes |-> <<>>, truncated |-> FALSE]

(* It holds for the first node, before the first round.                     *)
LEMMA StartListed ==
  ASSUME NEW tree, NEW query, Answerable(tree, query), NEW path
  PROVE  Listed(tree, query, path, StartListing(tree, query), 0)
<1> DEFINE from == query.from
           index == IF from = Root THEN 0 ELSE SiblingIndex(tree, from)
           first == Pending(from, 0, index)
           p == <<first>>
           R == PendingRecords(tree)
<1>1. /\ tree \in Trees /\ WellFormed(tree) /\ from \in Ids(tree)
      /\ query.max_nodes \in Nat /\ query.max_depth \in Nat
  BY DEF Answerable
<1>2. index \in Nat
  <2> SUFFICES ASSUME from # Root
               PROVE  SiblingIndex(tree, from) \in Nat
    OBVIOUS
  <2> DEFINE x == Node(tree, from).parent
             c == Children(tree, x)
  <2>1. x \in Ids(tree) /\ \E k \in 1 .. Len(c) : c[k] = from
    BY <1>1, TreeShape
  <2>2. c \in Seq(NodeIds) /\ \A k \in 1 .. Len(c) : SiblingIndex(tree, c[k]) = k - 1
    <3> HIDE DEF x
    <3>1. QED
      BY <1>1, <2>1, SubtreeParts
  <2>3. Len(c) \in Nat
    BY <2>2, LenProperties
  <2> HIDE DEF c
  <2>4. QED
    BY <2>1, <2>2, <2>3
<1> HIDE DEF index
<1>3. first \in R /\ first.id = from /\ first.depth = 0
  BY <1>1, <1>2 DEF Pending, PendingRecords
<1> HIDE DEF first
<1>4. /\ p \in Seq(R) /\ Len(p) = 1
      /\ \A i \in 1 .. Len(p) : i = 1 /\ p[i] = first
  BY <1>3
<1> HIDE DEF R, p
<1>5. /\ <<>> \in Seq(ProjectedRecords(tree)) /\ Len(<<>>) = 0
      /\ \A i \in 1 .. Len(<<>>) : FALSE
      /\ \A i \in 2 .. Len(<<>>) : FALSE
  <2>1. <<>> \in Seq(ProjectedRecords(tree)) /\ Len(<<>>) = 0
    BY EmptySeq
  <2>2. QED
    BY <2>1
<1>6. InOrder(tree, p, <<>>)
  <2>1. \A i, j \in 1 .. Len(p) : ~(i < j)
    BY <1>4
  <2>2. QED
    BY <1>5, <2>1 DEF InOrder
<1>7. from \in Within(tree, query) /\ 0 = Len(PathTo(tree, from)) - Len(PathTo(tree, from))
  <2>1. from \in Subtree(tree, from) /\ Len(PathTo(tree, from)) \in Nat
    BY <1>1, SubtreeByParent, SubtreePaths
  <2>2. 0 = Len(PathTo(tree, from)) - Len(PathTo(tree, from))
    BY <2>1
  <2>3. QED
    BY <1>1, <2>1, <2>2 DEF Within
<1>8. Linked(tree, query, path, p, <<>>)
  <2>1. Len(p) <= 1
    BY <1>4
  <2>2. \A i \in 1 .. Len(p) :
          /\ p[i].id \in Within(tree, query)
          /\ p[i].depth = Len(PathTo(tree, p[i].id)) - Len(PathTo(tree, from))
    BY <1>3, <1>4, <1>7
  <2>3. QED
    BY <1>5, <2>1, <2>2 DEF Linked
<1>9. Complete(tree, query, p, <<>>, FALSE)
  <2>1. Awaited(tree, p) = Subtree(tree, from)
    <3>1. 1 \in 1 .. Len(p) /\ p[1].id = from /\ \A i \in 1 .. Len(p) : p[i].id = from
      BY <1>3, <1>4
    <3>2. QED
      BY <3>1 DEF Awaited
  <2>2. \A id \in Within(tree, query) : id \in Subtree(tree, from)
    BY DEF Within
  <2>3. QED
    BY <2>1, <2>2 DEF Complete
<1>10. StartListing(tree, query) = [pending |-> p, nodes |-> <<>>, truncated |-> FALSE]
  BY DEF StartListing, p, first, index
<1>11. 0 <= query.max_nodes
  BY <1>1
<1> DEFINE s == StartListing(tree, query)
<1>12. s \in Listings(tree)
  BY <1>4, <1>5, <1>10 DEF Listings, R
<1>13. s.pending = p /\ s.nodes = <<>> /\ s.truncated = FALSE
  BY <1>10
<1> HIDE DEF s
<1>14. Listed(tree, query, path, s, 0)
  BY <1>5, <1>6, <1>8, <1>9, <1>11, <1>12, <1>13 DEF Listed
<1>15. QED
  BY <1>14 DEF s

(* A node is shown with its parent, and marked when it is on the line.      *)
LEMMA ProjectedTyped ==
  ASSUME NEW tree \in Trees, WellFormed(tree), NEW item \in PendingRecords(tree), NEW path
  PROVE  Projected(tree, item, path) \in ProjectedRecords(tree)
<1>1. item.id \in Ids(tree) /\ item.depth \in Nat /\ item.sibling_index \in Nat
  BY DEF PendingRecords
<1>2. Node(tree, item.id) \in NodeRecords
  BY <1>1, TreeShape, NodeAt
<1>3. Node(tree, item.id).parent \in NodeIds \cup {None}
  BY <1>2 DEF NodeRecords
<1>4. QED
  BY <1>1, <1>3 DEF Projected, ProjectedRecords

(* A round lists a node, or finds the list full, or the stack empty.        *)
LEMMA ListedKept ==
  ASSUME NEW tree, NEW query, Answerable(tree, query), NEW path,
         NEW w, NEW n \in Nat, Listed(tree, query, path, w, n)
  PROVE  Listed(tree, query, path, ListNode(tree, w, query, path), n + 1)
<1> DEFINE R == PendingRecords(tree)
           Q == ProjectedRecords(tree)
           next == ListNode(tree, w, query, path)
           item == Last(w.pending)
           node == Projected(tree, item, path)
           children == Children(tree, item.id)
           listed == [w EXCEPT !.pending = Front(@), !.nodes = Append(@, node)]
<1>1. /\ tree \in Trees /\ WellFormed(tree) /\ query.from \in Ids(tree)
      /\ query.max_nodes \in Nat /\ query.max_depth \in Nat
  BY DEF Answerable
<1>2. /\ w.pending \in Seq(R) /\ w.nodes \in Seq(Q) /\ w.truncated \in BOOLEAN
      /\ w = [pending |-> w.pending, nodes |-> w.nodes, truncated |-> w.truncated]
  BY DEF Listed, Listings
<1>3. /\ InOrder(tree, w.pending, w.nodes)
      /\ Linked(tree, query, path, w.pending, w.nodes)
      /\ Complete(tree, query, w.pending, w.nodes, w.truncated)
      /\ Len(w.nodes) <= query.max_nodes
      /\ w.pending = <<>> \/ Len(w.nodes) = n
      /\ Len(w.nodes) \in Nat
  BY <1>2, LenProperties DEF Listed
<1>4. CASE w.pending = <<>>
  BY <1>4 DEF ListNode, Listed
<1>5. CASE w.pending # <<>> /\ Len(w.nodes) >= query.max_nodes
  <2>1. next = [pending |-> <<>>, nodes |-> w.nodes, truncated |-> TRUE]
    BY <1>2, <1>5 DEF ListNode
  <2>2. Len(w.nodes) = query.max_nodes
    BY <1>1, <1>3, <1>5
  <2>3. Complete(tree, query, <<>>, w.nodes, TRUE)
    <3> DEFINE p == w.pending
               l == w.nodes
               t == w.truncated
    <3>1. p \in Seq(R) /\ l \in Seq(Q) /\ p # <<>> /\ Len(l) = query.max_nodes
          /\ InOrder(tree, p, l) /\ Linked(tree, query, path, p, l)
          /\ Complete(tree, query, p, l, t)
      BY <1>2, <1>3, <1>5, <2>2
    <3> HIDE DEF p, l, t
    <3>2. Complete(tree, query, <<>>, l, TRUE)
      BY <1>1, <3>1, CompleteWhenFull
    <3>3. QED
      BY <3>2 DEF l
  <2>4. <<>> \in Seq(R) /\ \A i \in 1 .. Len(<<>>) : FALSE
    <3>1. <<>> \in Seq(R) /\ Len(<<>>) = 0
      BY EmptySeq
    <3>2. QED
      BY <3>1
  <2>5. InOrder(tree, <<>>, w.nodes)
    BY <1>3, <2>4 DEF InOrder
  <2>6. Linked(tree, query, path, <<>>, w.nodes)
    <3>1. Len(<<>>) <= 1
      BY EmptySeq
    <3>2. QED
      BY <1>3, <2>4, <3>1 DEF Linked
  <2>7. next \in Listings(tree)
    BY <1>2, <2>1, <2>4 DEF Listings
  <2> HIDE DEF next
  <2>8. next.pending = <<>> /\ next.nodes = w.nodes /\ next.truncated = TRUE
    BY <2>1
  <2>9. Listed(tree, query, path, next, n + 1)
    BY <1>3, <2>3, <2>5, <2>6, <2>7, <2>8 DEF Listed
  <2>10. QED
    BY <2>9 DEF next
<1>6. CASE w.pending # <<>> /\ ~(Len(w.nodes) >= query.max_nodes)
  <2> DEFINE deep == item.depth >= query.max_depth
             more == IF deep THEN <<>> ELSE PendingChildren(children, item.depth + 1)
             missing == IF deep THEN w.truncated \/ children # <<>> ELSE w.truncated
             rest == Front(w.pending) \o more
             list == Append(w.nodes, node)
  <2>1. item \in R
    BY <1>2, <1>6, PopElements
  <2>2. item.id \in Ids(tree) /\ item.depth \in Nat /\ node \in Q /\ node.id = item.id
    BY <1>1, <2>1, ProjectedTyped DEF PendingRecords, Projected
  <2>3. /\ Expands(tree, item, more) /\ (more = <<>> \/ item.depth < query.max_depth)
        /\ missing \in BOOLEAN
        /\ \/ /\ item.depth < query.max_depth
              /\ more = PendingChildren(children, item.depth + 1)
              /\ missing = w.truncated
           \/ /\ item.depth >= query.max_depth
              /\ more = <<>>
              /\ missing = (w.truncated \/ children # <<>>)
    <3>1. deep <=> ~(item.depth < query.max_depth)
      BY <1>1, <2>2
    <3>2. CASE deep
      <4>1. more = <<>> /\ missing = (w.truncated \/ children # <<>>)
        BY <3>2
      <4>2. missing \in BOOLEAN
        BY <4>1
      <4> HIDE DEF more, missing, item
      <4>3. QED
        BY <3>2, <4>1, <4>2 DEF Expands
    <3>3. CASE ~deep
      <4>1. more = PendingChildren(children, item.depth + 1) /\ missing = w.truncated
        BY <3>3
      <4>2. missing \in BOOLEAN /\ item.depth < query.max_depth
        BY <1>2, <3>1, <3>3, <4>1
      <4> HIDE DEF more, missing
      <4>3. QED
        BY <4>1, <4>2 DEF Expands
    <3>4. QED
      BY <3>2, <3>3
  <2>4. Front(w.pending) \in Seq(R) /\ more \in Seq(R) /\ list \in Seq(Q)
        /\ Len(list) = Len(w.nodes) + 1
    <3>1. Front(w.pending) \in Seq(R)
      BY <1>2, <1>6, PopElements
    <3>2. more \in Seq(R)
      <4> HIDE DEF item, more
      <4>1. QED
        BY <1>1, <2>1, <2>3, Expansion
    <3>3. list \in Seq(Q) /\ Len(list) = Len(w.nodes) + 1
      <4> HIDE DEF node
      <4>1. QED
        BY <1>2, <2>2, AppendProperties
    <3>4. QED
      BY <3>1, <3>2, <3>3
  <2>5. rest \in Seq(R)
    <3> HIDE DEF R, more
    <3>1. QED
      BY <2>4, ConcatProperties
  <2>6. next = [pending |-> rest, nodes |-> list, truncated |-> missing]
    <3>1. listed = [pending |-> Front(w.pending), nodes |-> list, truncated |-> w.truncated]
      <4> DEFINE f == Front(w.pending)
      <4> HIDE DEF node, f
      <4>1. [w EXCEPT !.pending = f, !.nodes = list]
              = [pending |-> f, nodes |-> list, truncated |-> w.truncated]
        <5> DEFINE p == w.pending
                   l == w.nodes
                   t == w.truncated
                   v == [w EXCEPT !.pending = f]
        <5>1. w = [pending |-> p, nodes |-> l, truncated |-> t]
          BY <1>2
        <5> HIDE DEF p, l, t, list
        <5>2. v = [pending |-> f, nodes |-> l, truncated |-> t]
          BY <5>1
        <5>3. [w EXCEPT !.pending = f, !.nodes = list] = [v EXCEPT !.nodes = list]
          OBVIOUS
        <5> HIDE DEF v
        <5>4. [v EXCEPT !.nodes = list] = [pending |-> f, nodes |-> list, truncated |-> t]
          BY <5>2
        <5>5. QED
          BY <5>3, <5>4 DEF t
      <4>2. QED
        BY <4>1 DEF f
    <3>2. next = BelowDepth(tree, listed, item, query.max_depth)
      BY <1>6 DEF ListNode
    <3>3. CASE deep
      <4>1. rest = Front(w.pending)
        BY <2>4, <3>3, ConcatEmptySeq
      <4>2. BelowDepth(tree, listed, item, query.max_depth) =
              [listed EXCEPT !.truncated = @ \/ children # <<>>]
        BY <3>3 DEF BelowDepth
      <4> HIDE DEF listed, next, list, rest
      <4>3. QED
        BY <3>1, <3>2, <3>3, <4>1, <4>2
    <3>4. CASE ~deep
      <4>1. BelowDepth(tree, listed, item, query.max_depth) =
              [listed EXCEPT !.pending = @ \o PendingChildren(children, item.depth + 1)]
        BY <3>4 DEF BelowDepth
      <4>2. rest = Front(w.pending) \o PendingChildren(children, item.depth + 1)
        BY <3>4
      <4> HIDE DEF listed, next, list, rest
      <4>3. QED
        BY <3>1, <3>2, <3>4, <4>1, <4>2
    <3>5. QED
      BY <3>3, <3>4
  <2>7. InOrder(tree, rest, list)
    <3> HIDE DEF node, more
    <3>1. QED
      BY <1>1, <1>2, <1>3, <1>6, <2>2, <2>3, OrderKept
  <2>8. Linked(tree, query, path, rest, list)
    <3> HIDE DEF more
    <3>1. QED
      BY <1>1, <1>2, <1>3, <1>6, <2>2, <2>3, LinkedKept
  <2>9. Complete(tree, query, rest, list, missing)
    <3> HIDE DEF node, more, missing
    <3>1. QED
      BY <1>1, <1>2, <1>3, <1>6, <2>2, <2>3, CompleteKept
  <2>10. Len(list) <= query.max_nodes /\ Len(list) = n + 1
    BY <1>1, <1>3, <1>6, <2>4
  <2>11. next \in Listings(tree)
    BY <2>3, <2>4, <2>5, <2>6 DEF Listings
  <2> HIDE DEF next, rest, list, missing
  <2>12. next.pending = rest /\ next.nodes = list /\ next.truncated = missing
    BY <2>6
  <2>13. Listed(tree, query, path, next, n + 1)
    BY <2>7, <2>8, <2>9, <2>10, <2>11, <2>12 DEF Listed
  <2>14. QED
    BY <2>13 DEF next
<1>7. QED
  BY <1>4, <1>5, <1>6

(* The answer is what is listed, and the edges to all but the first.        *)
AnswerOf(graph, w) ==
  /\ graph.nodes = w.nodes /\ graph.truncated = w.truncated
  /\ graph.edges =
       [i \in 1 .. Len(w.nodes) - 1 |->
          [parent |-> w.nodes[i + 1].parent, child |-> w.nodes[i + 1].id,
           main_variation |-> w.nodes[i + 1].main_variation]]

(* What the loop of variation_graph ends with.                              *)
LEMMA ListingRounds ==
  ASSUME NEW tree, NEW query, Answerable(tree, query), NEW current
  PROVE  \E w : /\ Listed(tree, query, PathTo(tree, current), w, Len(tree.nodes) + 1)
                /\ AnswerOf(VariationGraph(tree, current, query), w)
<1> DEFINE path == PathTo(tree, current)
           L == Len(tree.nodes)
           V == {w \in Listings(tree) : \E n \in Nat : Listed(tree, query, path, w, n)}
           start == StartListing(tree, query)
           step == [w \in V |-> ListNode(tree, w, query, path)]
           Is(g) == g = [n \in Nat |-> IF n = 0 THEN start
                                       ELSE ListNode(tree, g[n - 1], query, path)]
           walk == CHOOSE g : Is(g)
<1>1. \A w : \A n \in Nat : Listed(tree, query, path, w, n) => w \in V
  BY DEF Listed
<1>2. start \in V
  BY <1>1, StartListed
<1>3. step \in [V -> V]
  <2>1. \A w \in V : ListNode(tree, w, query, path) \in V
    <3> SUFFICES ASSUME NEW w \in V
                 PROVE  ListNode(tree, w, query, path) \in V
      OBVIOUS
    <3>1. PICK n \in Nat : Listed(tree, query, path, w, n)
      OBVIOUS
    <3>2. Listed(tree, query, path, ListNode(tree, w, query, path), n + 1)
      BY <3>1, ListedKept
    <3>3. n + 1 \in Nat
      OBVIOUS
    <3> HIDE DEF V
    <3>4. QED
      BY <1>1, <3>2, <3>3
  <2> HIDE DEF V
  <2>2. QED
    BY <2>1
<1> HIDE DEF V
<1>4. PICK g \in [Nat -> V] : g[0] = start /\ \A n \in Nat : g[n + 1] = step[g[n]]
  <2> HIDE DEF step, start
  <2>1. QED
    BY <1>2, <1>3, StepsExist
<1>5. Is(g)
  <2>1. \A n \in Nat : g[n] = IF n = 0 THEN start ELSE ListNode(tree, g[n - 1], query, path)
    <3> SUFFICES ASSUME NEW n \in Nat, n # 0
                 PROVE  g[n] = ListNode(tree, g[n - 1], query, path)
      BY <1>4
    <3>1. n - 1 \in Nat /\ n - 1 + 1 = n
      OBVIOUS
    <3>2. g[n - 1 + 1] = step[g[n - 1]] /\ g[n - 1] \in V
      BY <3>1, <1>4
    <3>3. QED
      BY <3>1, <3>2
  <2>2. QED
    BY <1>4, <2>1
<1>6. Is(walk)
  BY <1>5
<1> DEFINE done == walk[L + 1]
<1>7. VariationGraph(tree, current, query) =
        [nodes |-> done.nodes,
         edges |-> [i \in 1 .. Len(done.nodes) - 1 |->
                      [parent |-> done.nodes[i + 1].parent, child |-> done.nodes[i + 1].id,
                       main_variation |-> done.nodes[i + 1].main_variation]],
         truncated |-> done.truncated]
  BY DEF VariationGraph, StartListing
<1> HIDE DEF walk
<1>8. walk[0] = start /\ \A n \in Nat : walk[n + 1] = ListNode(tree, walk[n], query, path)
  <2>1. \A n \in Nat : walk[n] = IF n = 0 THEN start ELSE ListNode(tree, walk[n - 1], query, path)
    BY <1>6
  <2>2. \A n \in Nat : n + 1 \in Nat /\ n + 1 # 0 /\ n + 1 - 1 = n
    OBVIOUS
  <2>3. QED
    BY <2>1, <2>2
<1> DEFINE S == {n \in Nat : Listed(tree, query, path, walk[n], n)}
<1>9. 0 \in S
  BY <1>8, StartListed
<1>10. \A n \in Nat : n \in S => n + 1 \in S
  BY <1>8, ListedKept
<1>11. Nat \subseteq S
  <2> HIDE DEF S
  <2>1. QED
    BY <1>9, <1>10, SetInduction
<1>12. L + 1 \in Nat
  BY LenProperties DEF Answerable, Trees
<1>13. Listed(tree, query, path, done, L + 1)
  BY <1>11, <1>12
<1> HIDE DEF done
<1>14. AnswerOf(VariationGraph(tree, current, query), done)
  BY <1>7 DEF AnswerOf
<1>15. QED
  BY <1>13, <1>14

(* No node is listed twice, so by then nothing waits any more.              *)
LEMMA ListingEnds ==
  ASSUME NEW tree, NEW query, Answerable(tree, query), NEW path, NEW w,
         Listed(tree, query, path, w, Len(tree.nodes) + 1)
  PROVE  w.pending = <<>>
<1> DEFINE N == Len(tree.nodes)
           l == w.nodes
           ids == [i \in 1 .. N + 1 |-> l[i].id]
<1>1. tree \in Trees /\ N \in Nat
  BY LenProperties DEF Answerable, Trees
<1> SUFFICES ASSUME w.pending # <<>>
             PROVE  FALSE
  OBVIOUS
<1>2. Len(l) = N + 1 /\ l \in Seq(ProjectedRecords(tree)) /\ InOrder(tree, w.pending, l)
  BY DEF Listed, Listings
<1>3. IsFiniteSet(Ids(tree)) /\ Cardinality(Ids(tree)) <= N /\ Cardinality(Ids(tree)) \in Nat
  BY <1>1, IdsFinite, FS_CardinalityType
<1> HIDE DEF N, l
<1>4. \A i \in 1 .. N + 1 : l[i].id \in Ids(tree)
  <2>1. \A i \in 1 .. N + 1 : l[i] \in ProjectedRecords(tree)
    BY <1>2, ElementOfSeq
  <2>2. QED
    BY <2>1 DEF ProjectedRecords
<1>5. IsFiniteSet(1 .. N + 1) /\ Cardinality(1 .. N + 1) = N + 1
  <2>1. 1 \in Int /\ N + 1 \in Int /\ ~(1 > N + 1) /\ (N + 1) - 1 + 1 = N + 1
    BY <1>1
  <2>2. QED
    BY <2>1, FS_Interval
<1>6. ids \in [1 .. N + 1 -> Ids(tree)]
  BY <1>4
<1>7. Cardinality(Ids(tree)) < Cardinality(1 .. N + 1)
  BY <1>1, <1>3, <1>5
<1>8. PICK i \in 1 .. N + 1, j \in 1 .. N + 1 : i # j /\ ids[i] = ids[j]
  <2> HIDE DEF ids
  <2>1. QED
    BY <1>3, <1>5, <1>6, <1>7, FS_PigeonHole
<1>9. l[i].id = l[j].id
  BY <1>8
<1>10. i < j \/ j < i
  BY <1>1, <1>8
<1>11. Precedes(tree, l[i].id, l[j].id) \/ Precedes(tree, l[j].id, l[i].id)
  BY <1>2, <1>10 DEF InOrder
<1>12. QED
  BY <1>9, <1>11 DEF Precedes

(* What variation_graph answers, whatever the tree and the query: the nodes *)
(* of the subtree within the limits, in the order of the tree and without a *)
(* gap, each after its parent; it says truncated exactly when one of the    *)
(* subtree is missing, and marks the part of the current line it shows.     *)
THEOREM ProjectionLists ==
  ASSUME NEW tree, NEW query, Answerable(tree, query), NEW current \in Ids(tree)
  PROVE  LET graph == VariationGraph(tree, current, query)
             shown == [i \in DOMAIN graph.nodes |-> graph.nodes[i].id]
             within == Within(tree, query)
         IN  /\ Range(shown) \subseteq within
             /\ \A i, j \in DOMAIN shown : i < j => Precedes(tree, shown[i], shown[j])
             /\ \A id \in within \ Range(shown) :
                  /\ Len(shown) = query.max_nodes
                  /\ \A i \in DOMAIN shown : Precedes(tree, shown[i], id)
             /\ graph.truncated <=> Range(shown) # Subtree(tree, query.from)
             /\ \A i \in DOMAIN graph.edges :
                  /\ \E k \in 1 .. i : shown[k] = graph.edges[i].parent
                  /\ graph.edges[i].child \in Range(Children(tree, graph.edges[i].parent))
             /\ \A i \in DOMAIN shown :
                  graph.nodes[i].on_current_path <=> current \in Subtree(tree, shown[i])
<1> DEFINE graph == VariationGraph(tree, current, query)
           path == PathTo(tree, current)
           within == Within(tree, query)
           from == query.from
<1>1. /\ tree \in Trees /\ WellFormed(tree) /\ from \in Ids(tree)
      /\ query.max_nodes \in Nat
  BY DEF Answerable
<1>2. PICK w : Listed(tree, query, path, w, Len(tree.nodes) + 1) /\ AnswerOf(graph, w)
  BY ListingRounds
<1> HIDE DEF graph, path, within
<1>3. w.pending = <<>>
  BY <1>2, ListingEnds
<1> DEFINE l == w.nodes
           shown == [i \in DOMAIN l |-> l[i].id]
           m == Len(l)
<1>4. /\ l \in Seq(ProjectedRecords(tree)) /\ InOrder(tree, <<>>, l)
      /\ Linked(tree, query, path, <<>>, l) /\ Complete(tree, query, <<>>, l, w.truncated)
  BY <1>2, <1>3 DEF Listed, Listings
<1>5. m \in Nat /\ DOMAIN l = 1 .. m
  BY <1>4, LenProperties
<1>6. /\ \A i \in 1 .. m : l[i].id \in Ids(tree)
      /\ \A i \in 1 .. m : l[i] \in ProjectedRecords(tree)
  <2>1. \A i \in 1 .. m : l[i] \in ProjectedRecords(tree)
    BY <1>4, ElementOfSeq
  <2>2. QED
    BY <2>1 DEF ProjectedRecords
<1> HIDE DEF l, m
<1>7. /\ DOMAIN shown = 1 .. m /\ \A i \in 1 .. m : shown[i] = l[i].id
      /\ Range(shown) = ShownIds(l)
  BY <1>5 DEF Range, ShownIds, m
<1>8. Len(shown) = m
  <2>1. shown \in Seq(Ids(tree))
    <3> DEFINE e(i) == l[i].id
    <3> HIDE DEF e
    <3>1. [i \in 1 .. m |-> e(i)] \in Seq(Ids(tree))
      BY <1>5, <1>6, IsASeq DEF e
    <3>2. QED
      BY <1>5, <3>1 DEF e
  <2> HIDE DEF shown
  <2>2. QED
    BY <1>5, <1>7, <2>1, LenProperties
<1> HIDE DEF shown
<1>9. /\ Range(shown) \subseteq within
      /\ \A i \in 1 .. m : l[i].on_current_path <=> current \in Subtree(tree, shown[i])
  <2>1. \A i \in 1 .. m : l[i].id \in within
    BY <1>4 DEF Linked, m, within
  <2>2. \A i \in 1 .. m : l[i].on_current_path <=> l[i].id \in Range(path)
    BY <1>4 DEF Linked, m
  <2>3. \A i \in 1 .. m : l[i].id \in Range(path) <=> current \in Subtree(tree, l[i].id)
    BY <1>1, <1>6, SubtreePaths DEF path
  <2>4. Range(shown) \subseteq within
    <3> SUFFICES ASSUME NEW y \in Range(shown)
                 PROVE  y \in within
      OBVIOUS
    <3>1. PICK i \in 1 .. m : y = l[i].id
      BY <1>7 DEF ShownIds, m
    <3>2. QED
      BY <2>1, <3>1
  <2>5. \A i \in 1 .. m : l[i].on_current_path <=> current \in Subtree(tree, shown[i])
    BY <1>7, <2>3, <2>2
  <2>6. QED
    BY <2>4, <2>5
<1>10. \A i, j \in DOMAIN shown : i < j => Precedes(tree, shown[i], shown[j])
  BY <1>4, <1>7 DEF InOrder, m
<1>11. Awaited(tree, <<>>) = {}
  <2>1. \A i \in 1 .. Len(<<>>) : FALSE
    BY EmptySeq
  <2>2. QED
    BY <2>1 DEF Awaited
<1>12. \A id \in within \ Range(shown) :
         /\ Len(shown) = query.max_nodes
         /\ \A i \in DOMAIN shown : Precedes(tree, shown[i], id)
  BY <1>4, <1>7, <1>8, <1>11 DEF Complete, m, within
<1>13. w.truncated <=> Range(shown) # Subtree(tree, from)
  <2>1. w.truncated <=> \E y \in Subtree(tree, from) : y \notin Range(shown)
    BY <1>4, <1>7, <1>11 DEF Complete
  <2>2. Range(shown) \subseteq Subtree(tree, from)
    BY <1>9 DEF Within, within
  <2>3. QED
    BY <2>1, <2>2
<1>14. ASSUME NEW i \in 1 .. m - 1
       PROVE  /\ \E k \in 1 .. i : shown[k] = l[i + 1].parent
              /\ l[i + 1].id \in Range(Children(tree, l[i + 1].parent))
  <2> DEFINE j == i + 1
  <2>1. j \in 2 .. m /\ j \in 1 .. m /\ j - 1 = i /\ i \in Nat
    BY <1>5
  <2> HIDE DEF j
  <2>2. /\ l[j].id # Root /\ \E k \in 1 .. j - 1 : l[k].id = l[j].parent
        /\ l[j].parent = Node(tree, l[j].id).parent
    BY <1>4, <2>1 DEF Linked, m
  <2>3. \E k \in 1 .. i : shown[k] = l[j].parent
    <3>1. PICK k \in 1 .. i : l[k].id = l[j].parent
      BY <2>1, <2>2
    <3>2. k \in 1 .. m
      BY <1>5, <2>1
    <3>3. QED
      BY <1>7, <3>1, <3>2
  <2>4. l[j].id \in Range(Children(tree, l[j].parent))
    <3> DEFINE x == l[j].id
               c == Children(tree, l[j].parent)
    <3>1. x \in Ids(tree) \ {Root} /\ l[j].parent = Node(tree, x).parent
      BY <1>6, <2>1, <2>2
    <3> HIDE DEF x
    <3>2. l[j].parent \in Ids(tree) /\ \E k \in 1 .. Len(c) : c[k] = x
      BY <1>1, <3>1, TreeShape
    <3>3. c \in Seq(NodeIds)
      BY <1>1, <3>2, TreeShape
    <3> HIDE DEF c
    <3>4. x \in Range(c)
      BY <3>2, <3>3, LenProperties DEF Range
    <3>5. QED
      BY <3>4 DEF x, c
  <2>5. QED
    BY <2>3, <2>4 DEF j
<1>15. ASSUME NEW i \in DOMAIN graph.edges
       PROVE  /\ \E k \in 1 .. i : shown[k] = graph.edges[i].parent
              /\ graph.edges[i].child \in Range(Children(tree, graph.edges[i].parent))
  <2>1. /\ i \in 1 .. m - 1
        /\ graph.edges[i].parent = l[i + 1].parent /\ graph.edges[i].child = l[i + 1].id
    BY <1>2 DEF l, m, AnswerOf
  <2>2. QED
    BY <1>14, <2>1
<1>16. graph.nodes = l /\ graph.truncated = w.truncated
       /\ shown = [i \in DOMAIN graph.nodes |-> graph.nodes[i].id]
  BY <1>2 DEF l, shown, AnswerOf
<1>17. QED
  <2>1. \A i \in DOMAIN shown :
          graph.nodes[i].on_current_path <=> current \in Subtree(tree, shown[i])
    BY <1>7, <1>9, <1>16
  <2>2. graph.truncated <=> Range(shown) # Subtree(tree, from)
    BY <1>13, <1>16
  <2>3. QED
    BY <1>9, <1>10, <1>12, <1>15, <1>16, <2>1, <2>2 DEF graph, within
=============================================================================
