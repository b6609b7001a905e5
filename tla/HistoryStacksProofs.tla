------------------------- MODULE HistoryStacksProofs -------------------------
(***************************************************************************)
(* Proofs about the two stacks of a session: what pushing, popping and     *)
(* trimming leave, and what they do to the bytes the entries stand for.    *)
(***************************************************************************)
EXTENDS HistoryStacks, ListLemmas

-----------------------------------------------------------------------------
(* Bytes *)

(* Bytes adds up the costs from the oldest entry on. *)
LEMMA BytesSums ==
  ASSUME NEW E, \A e \in E : e.cost \in Nat, NEW h \in Seq(E)
  PROVE  \E total \in [0 .. Len(h) -> Nat] :
           /\ total[0] = 0
           /\ \A n \in 1 .. Len(h) : total[n] = total[n - 1] + h[n].cost
           /\ Bytes(h) = total[Len(h)]
<1> DEFINE N == Len(h)
           step == [p \in (1 .. N) \X Nat |-> p[2] + h[p[1]].cost]
           Sums(g) == g = [n \in 0 .. N |-> IF n = 0 THEN 0 ELSE g[n - 1] + h[n].cost]
           total == CHOOSE g : Sums(g)
<1>1. N \in Nat /\ \A n \in 1 .. N : h[n].cost \in Nat
  BY LenProperties, ElementOfSeq
<1>2. step \in [(1 .. N) \X Nat -> Nat] /\ 0 \in Nat
  BY <1>1
<1>3. \A n \in 1 .. N, v \in Nat : step[<<n, v>>] = v + h[n].cost
  OBVIOUS
<1>4. Bytes(h) = total[N]
  BY DEF Bytes
<1> DEFINE zero == 0
           V == Nat
<1>5. PICK g \in [0 .. N -> V] : Computes(g, N, zero, step)
  <2>1. zero \in V /\ step \in [(1 .. N) \X V -> V]
    BY <1>2
  <2> HIDE DEF zero, V, step, N
  <2>2. QED
    BY <1>1, <2>1, RecursionExists
<1>a. g[0] = 0 /\ \A n \in 1 .. N : g[n] = step[<<n, g[n - 1]>>]
  BY <1>5 DEF Computes
<1> HIDE DEF step, N
<1>6. ASSUME NEW n \in 1 .. N
      PROVE  g[n] = g[n - 1] + h[n].cost
  <2>1. n - 1 \in 0 .. N
    BY <1>1
  <2>2. g[n - 1] \in Nat
    BY <1>5, <2>1
  <2>3. QED
    BY <1>3, <1>a, <2>2
<1>7. Sums(g)
  BY <1>1, <1>5, <1>a, <1>6
<1> HIDE DEF Sums
<1>8. Sums(total)
  BY <1>7
<1> HIDE DEF total
<1>9. /\ total = [n \in 0 .. N |-> IF n = 0 THEN 0 ELSE total[n - 1] + h[n].cost]
      /\ 0 \in 0 .. N
      /\ \A n \in 1 .. N : n \in 0 .. N /\ n # 0
  BY <1>1, <1>8 DEF Sums
<1>10. /\ total[0] = 0
       /\ \A n \in 1 .. N : total[n] = total[n - 1] + h[n].cost
  BY <1>9
<1>11. \A n \in 0 .. N : total[n] \in Nat
  <2> DEFINE S == {n \in 0 .. N : total[n] \in Nat}
  <2>1. 0 \in S
    BY <1>9, <1>10
  <2>2. ASSUME NEW n \in 0 .. N - 1, n \in S
        PROVE  n + 1 \in S
    <3>1. n + 1 \in 1 .. N /\ n + 1 - 1 = n /\ n + 1 \in 0 .. N
      BY <1>1
    <3>2. total[n + 1] = total[n] + h[n + 1].cost
      BY <1>10, <3>1
    <3>3. QED
      BY <1>1, <2>2, <3>1, <3>2
  <2> HIDE DEF S
  <2>3. 0 .. N \subseteq S
    BY <1>1, <2>1, <2>2, BoundedInduction
  <2>4. QED
    BY <2>3 DEF S
<1>12. total \in [0 .. N -> Nat]
  BY <1>9, <1>11
<1>13. QED
  BY <1>4, <1>10, <1>12 DEF N

(* The sum only depends on the costs, and up to n only on the first n.      *)
LEMMA BytesPrefix ==
  ASSUME NEW E, \A e \in E : e.cost \in Nat, NEW h \in Seq(E),
         NEW F, \A e \in F : e.cost \in Nat, NEW k \in Seq(F),
         Len(h) <= Len(k),
         \A n \in 1 .. Len(h) : h[n].cost = k[n].cost
  PROVE  /\ Len(h) = Len(k) => Bytes(k) = Bytes(h)
         /\ Len(k) = Len(h) + 1 => Bytes(k) = Bytes(h) + k[Len(k)].cost
<1>1. PICK t \in [0 .. Len(h) -> Nat] :
        /\ t[0] = 0
        /\ \A n \in 1 .. Len(h) : t[n] = t[n - 1] + h[n].cost
        /\ Bytes(h) = t[Len(h)]
  BY BytesSums
<1>2. PICK u \in [0 .. Len(k) -> Nat] :
        /\ u[0] = 0
        /\ \A n \in 1 .. Len(k) : u[n] = u[n - 1] + k[n].cost
        /\ Bytes(k) = u[Len(k)]
  BY BytesSums
<1>3. Len(h) \in Nat /\ Len(k) \in Nat
  BY LenProperties
<1> DEFINE S == {n \in 0 .. Len(h) : u[n] = t[n]}
<1>4. 0 \in S
  BY <1>1, <1>2, <1>3
<1>5. ASSUME NEW n \in 0 .. Len(h) - 1, n \in S
      PROVE  n + 1 \in S
  <2>1. n + 1 \in 1 .. Len(h) /\ n + 1 \in 1 .. Len(k) /\ n + 1 - 1 = n
    BY <1>3
  <2>2. t[n + 1] = t[n] + h[n + 1].cost /\ u[n + 1] = u[n] + k[n + 1].cost
    BY <1>1, <1>2, <2>1
  <2>3. QED
    BY <1>5, <2>1, <2>2
<1> HIDE DEF S
<1>6. 0 .. Len(h) \subseteq S
  BY <1>3, <1>4, <1>5, BoundedInduction
<1>7. u[Len(h)] = t[Len(h)]
  BY <1>3, <1>6 DEF S
<1>8. ASSUME Len(k) = Len(h) + 1
      PROVE  Bytes(k) = Bytes(h) + k[Len(k)].cost
  <2>1. Len(k) \in 1 .. Len(k) /\ Len(k) - 1 = Len(h)
    BY <1>3, <1>8
  <2>2. u[Len(k)] = u[Len(h)] + k[Len(k)].cost
    BY <1>2, <2>1
  <2>3. QED
    BY <1>1, <1>2, <1>7, <2>2
<1>9. QED
  BY <1>1, <1>2, <1>7, <1>8

(* Pushing an entry adds its cost, popping one takes its cost away, and the *)
(* bytes of a stack with one entry are the cost of that entry.              *)
LEMMA BytesOfStacks ==
  ASSUME NEW E, \A e \in E : e.cost \in Nat, NEW h \in Seq(E)
  PROVE  /\ Bytes(h) \in Nat
         /\ h = <<>> => Bytes(h) = 0
         /\ Len(h) = 1 => Bytes(h) = h[1].cost
         /\ \A e \in E : Bytes(Append(h, e)) = Bytes(h) + e.cost
         /\ h # <<>> => Bytes(h) = Bytes(Front(h)) + Last(h).cost
<1>1. Bytes(h) \in Nat
  BY BytesSums, LenProperties
<1>2. Len(h) \in Nat /\ <<>> \in Seq(E) /\ Len(<<>>) = 0 /\ (h = <<>> <=> Len(h) = 0)
  BY LenProperties, EmptySeq
<1>3. Bytes(<<>>) = 0
  BY <1>2, BytesSums
<1>4. ASSUME Len(h) = 1
      PROVE  Bytes(h) = h[1].cost
  <2> DEFINE none == <<>>
  <2>1. none \in Seq(E) /\ Len(none) = 0 /\ Bytes(none) = 0
    BY <1>2, <1>3
  <2> HIDE DEF none
  <2>a. /\ Len(none) <= Len(h) /\ Len(h) = Len(none) + 1
        /\ \A n \in 1 .. Len(none) : none[n].cost = h[n].cost
    BY <1>4, <2>1
  <2>2. Bytes(h) = Bytes(none) + h[Len(h)].cost
    BY <2>1, <2>a, BytesPrefix
  <2>3. h[1].cost \in Nat
    BY <1>4, ElementOfSeq
  <2>4. QED
    BY <1>4, <2>1, <2>2, <2>3
<1>5. ASSUME NEW e \in E
      PROVE  Bytes(Append(h, e)) = Bytes(h) + e.cost
  <2> DEFINE k == Append(h, e)
  <2>1. /\ k \in Seq(E) /\ Len(k) = Len(h) + 1 /\ k[Len(k)] = e
        /\ \A n \in 1 .. Len(h) : k[n] = h[n]
    BY AppendProperties
  <2> HIDE DEF k
  <2>2. Bytes(k) = Bytes(h) + k[Len(k)].cost
    BY <1>2, <2>1, BytesPrefix
  <2>3. QED
    BY <2>1, <2>2 DEF k
<1>6. ASSUME h # <<>>
      PROVE  Bytes(h) = Bytes(Front(h)) + Last(h).cost
  <2> DEFINE f == Front(h)
  <2>1. /\ f \in Seq(E) /\ Len(f) = Len(h) - 1
        /\ \A n \in 1 .. Len(h) - 1 : f[n] = h[n]
    BY <1>6, PopElements
  <2> HIDE DEF f
  <2>2. Len(f) <= Len(h) /\ Len(h) = Len(f) + 1 /\ \A n \in 1 .. Len(f) : f[n].cost = h[n].cost
    BY <1>2, <2>1
  <2>3. Bytes(h) = Bytes(f) + h[Len(h)].cost
    BY <2>1, <2>2, BytesPrefix
  <2>4. QED
    BY <2>3 DEF f, Last
<1>7. QED
  BY <1>1, <1>3, <1>4, <1>5, <1>6

-----------------------------------------------------------------------------
(* What the actions that move entries do to the two stacks                  *)

(* store_history pushes the entry and drops the k - 1 oldest ones.          *)
LEMMA StoreStacks ==
  ASSUME NEW E, undo_history \in Seq(E), NEW e \in E, StoreHistory(e)
  PROVE  \E k \in 1 .. Len(undo_history) + 1 :
           /\ undo_history' \in Seq(E)
           /\ undo_history' # <<>>
           /\ Last(undo_history') = e
           /\ Len(undo_history') = Len(undo_history) + 2 - k
           /\ undo_history'[Len(undo_history')] = e
           /\ \A i \in 1 .. Len(undo_history') - 1 :
                undo_history'[i] = undo_history[i + k - 1]
           /\ Range(undo_history') \subseteq Range(undo_history) \cup {e}
           /\ redo_history' = <<>>
<1> DEFINE next == Append(undo_history, e)
<1>1. PICK k \in 1 .. Len(next) : undo_history' = SubSeq(next, k, Len(next))
  BY DEF StoreHistory
<1>2. redo_history' = <<>>
  BY DEF StoreHistory
<1> HIDE DEF next
<1>3. /\ next \in Seq(E)
      /\ Len(next) = Len(undo_history) + 1
      /\ \A i \in 1 .. Len(undo_history) : next[i] = undo_history[i]
      /\ Last(next) = e
      /\ Range(next) = Range(undo_history) \cup {e}
  BY PushElements DEF next
<1>4. /\ undo_history' \in Seq(E)
      /\ undo_history' # <<>>
      /\ Len(undo_history') = Len(next) - k + 1
      /\ \A i \in 1 .. Len(undo_history') : undo_history'[i] = next[i + k - 1]
      /\ Last(undo_history') = Last(next)
      /\ Range(undo_history') \subseteq Range(next)
  BY <1>1, <1>3, TrimElements
<1>5. Len(undo_history) \in Nat
  BY LenProperties
<1>6. Len(undo_history') = Len(undo_history) + 2 - k
  BY <1>3, <1>4, <1>5
<1>7. \A i \in 1 .. Len(undo_history') - 1 :
        undo_history'[i] = undo_history[i + k - 1]
  <2> TAKE i \in 1 .. Len(undo_history') - 1
  <2>1. i \in 1 .. Len(undo_history') /\ i + k - 1 \in 1 .. Len(undo_history)
    BY <1>3, <1>5, <1>6
  <2>2. QED
    BY <2>1, <1>3, <1>4
<1>8. undo_history'[Len(undo_history')] = e
  BY <1>3, <1>4 DEF Last
<1>9. QED
  BY <1>2, <1>3, <1>4, <1>5, <1>6, <1>7, <1>8

(* The entry on top of a stack, what is under it, and what the step that    *)
(* moves it to the other stack leaves there.                                *)
LEMMA MoveTop ==
  ASSUME NEW E, NEW from \in Seq(E), from # <<>>, NEW to \in Seq(E)
  PROVE  LET e == Last(from)
             f == Front(from)
             t == Append(to, e)
         IN  /\ e \in E
             /\ e \in Range(from)
             /\ e = from[Len(from)]
             /\ Len(from) \in Nat \ {0}
             /\ f \in Seq(E)
             /\ Len(f) = Len(from) - 1
             /\ \A i \in 1 .. Len(f) : f[i] = from[i]
             /\ f # <<>> => Len(f) # 0 /\ Last(f) = from[Len(from) - 1]
             /\ t \in Seq(E)
             /\ t # <<>>
             /\ Len(t) = Len(to) + 1
             /\ \A i \in 1 .. Len(to) : t[i] = to[i]
             /\ t[Len(to) + 1] = e
             /\ Last(t) = e
             /\ Range(f) \subseteq Range(from)
             /\ Range(t) = Range(to) \cup {e}
<1> DEFINE e == Last(from)
           f == Front(from)
           t == Append(to, e)
<1>1. /\ f \in Seq(E)
      /\ Len(f) = Len(from) - 1
      /\ \A i \in 1 .. Len(from) - 1 : f[i] = from[i]
      /\ e \in E
      /\ e \in Range(from)
      /\ Range(f) \subseteq Range(from)
  BY PopElements
<1>2. Len(from) \in Nat \ {0} /\ Len(to) \in Nat
  BY EmptySeq, LenProperties
<1>3. e = from[Len(from)]
  BY DEF Last
<1> HIDE DEF f
<1>4. f # <<>> => Len(f) # 0 /\ Last(f) = from[Len(from) - 1]
  <2> SUFFICES ASSUME f # <<>>
               PROVE  Len(f) # 0 /\ Last(f) = from[Len(from) - 1]
    OBVIOUS
  <2>1. Len(f) \in Nat \ {0}
    BY <1>1, EmptySeq
  <2>2. QED
    BY <1>1, <1>2, <2>1 DEF Last
<1> HIDE DEF e
<1>5. /\ t \in Seq(E)
      /\ t # <<>>
      /\ Len(t) = Len(to) + 1
      /\ \A i \in 1 .. Len(to) : t[i] = to[i]
      /\ Last(t) = e
      /\ Range(t) = Range(to) \cup {e}
  BY <1>1, PushElements
<1>6. t[Len(to) + 1] = e
  BY <1>1, AppendProperties
<1>7. QED
  BY <1>1, <1>2, <1>3, <1>4, <1>5, <1>6 DEF e, f

(* What there is to say of a stack that loses its top and of one that gets  *)
(* it.                                                                      *)
TopMoves(E, from, to, f, t) ==
  /\ Last(from) = from[Len(from)]
  /\ Len(from) \in Nat \ {0}
  /\ Len(f) = Len(from) - 1
  /\ \A i \in 1 .. Len(f) : f[i] = from[i]
  /\ f # <<>> => Len(f) # 0 /\ Last(f) = from[Len(from) - 1]
  /\ Len(t) = Len(to) + 1
  /\ \A i \in 1 .. Len(to) : t[i] = to[i]
  /\ t[Len(to) + 1] = Last(from)
  /\ Last(t) = Last(from)

(* This is what undo and redo do to the two stacks.                         *)
LEMMA MovedTop ==
  ASSUME NEW E, NEW from \in Seq(E), from # <<>>, NEW to \in Seq(E),
         NEW f, f = Front(from), NEW t, t = Append(to, Last(from))
  PROVE  TopMoves(E, from, to, f, t)
<1>1. /\ f \in Seq(E) /\ Len(f) = Len(from) - 1 /\ Last(from) \in E
      /\ \A i \in 1 .. Len(from) - 1 : f[i] = from[i]
  BY PopElements
<1>2. Last(from) = from[Len(from)] /\ Len(from) \in Nat \ {0}
  BY EmptySeq, LenProperties DEF Last
<1>3. f # <<>> => Len(f) # 0 /\ Last(f) = from[Len(from) - 1]
  <2> SUFFICES ASSUME f # <<>>
               PROVE  Len(f) # 0 /\ Last(f) = from[Len(from) - 1]
    OBVIOUS
  <2>1. Len(f) \in Nat \ {0} /\ Last(f) = f[Len(f)]
    BY <1>1, EmptySeq DEF Last
  <2>2. QED
    BY <1>1, <1>2, <2>1
<1> DEFINE e == Last(from)
<1> HIDE DEF e
<1>4. /\ Len(t) = Len(to) + 1 /\ \A i \in 1 .. Len(to) : t[i] = to[i]
      /\ t[Len(to) + 1] = e /\ Last(t) = e
  <2>1. e \in E /\ t = Append(to, e)
    BY <1>1 DEF e
  <2>2. QED
    BY <2>1, PushElements, AppendProperties
<1>5. QED
  BY <1>1, <1>2, <1>3, <1>4 DEF TopMoves, e
=============================================================================
