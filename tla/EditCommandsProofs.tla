------------------------- MODULE EditCommandsProofs -------------------------
(***************************************************************************)
(* What the inverse data of a command is good for: undo works out exactly  *)
(* the content the document had before the command, redo exactly the one   *)
(* it had after it, storage order included.  First what taking elements    *)
(* out of a list and putting them back does, then the facts about trees,   *)
(* then one lemma for each kind of command.                                *)
(***************************************************************************)
EXTENDS EditCommands, ListLemmas

-----------------------------------------------------------------------------
(* Sublists *)

(* f[n] is what the first n elements contribute to Sublist(s, I). *)
Filters(f, s, I) ==
  /\ f[0] = <<>>
  /\ \A n \in 1 .. Len(s) :
       f[n] = IF n \in I THEN Append(f[n - 1], s[n]) ELSE f[n - 1]

(* Sublist goes through the list once. *)
LEMMA SublistSteps ==
  ASSUME NEW S, NEW s \in Seq(S), NEW I
  PROVE  \E f \in [0 .. Len(s) -> Seq(S)] :
           Filters(f, s, I) /\ Sublist(s, I) = f[Len(s)]
<1> DEFINE N == Len(s)
           V == Seq(S)
           none == <<>>
           step == [p \in (1 .. N) \X V |->
                      IF p[1] \in I THEN Append(p[2], s[p[1]]) ELSE p[2]]
           Is(g) == g = [n \in 0 .. N |->
                           IF n = 0 THEN <<>>
                           ELSE IF n \in I THEN Append(g[n - 1], s[n]) ELSE g[n - 1]]
           first == CHOOSE g : Is(g)
<1>1. N \in Nat /\ \A n \in 1 .. N : s[n] \in S
  BY LenProperties, ElementOfSeq
<1>2. none \in V
  BY EmptySeq
<1>3. \A n \in 1 .. N, v \in V : Append(v, s[n]) \in V
  BY <1>1, AppendProperties
<1>4. step \in [(1 .. N) \X V -> V]
  BY <1>3
<1>5. \A n \in 1 .. N, v \in V :
        step[<<n, v>>] = IF n \in I THEN Append(v, s[n]) ELSE v
  OBVIOUS
<1>6. Sublist(s, I) = first[N]
  BY DEF Sublist
<1>7. PICK g \in [0 .. N -> V] : Computes(g, N, none, step)
  <2> HIDE DEF N, V, none, step
  <2>1. QED
    BY <1>1, <1>2, <1>4, RecursionExists
<1>8. /\ g[0] = <<>>
      /\ \A n \in 1 .. N : g[n] = step[<<n, g[n - 1]>>]
  BY <1>7 DEF Computes
<1> HIDE DEF N, V, step
<1>9. ASSUME NEW n \in 1 .. N
      PROVE  g[n] = IF n \in I THEN Append(g[n - 1], s[n]) ELSE g[n - 1]
  <2>1. n - 1 \in 0 .. N
    BY <1>1
  <2>2. g[n - 1] \in V
    BY <1>7, <2>1
  <2>3. QED
    BY <1>5, <1>8, <2>2
<1>10. Is(g)
  <2> DEFINE body(n) == IF n = 0 THEN <<>>
                        ELSE IF n \in I THEN Append(g[n - 1], s[n]) ELSE g[n - 1]
  <2>1. \A n \in 0 .. N : n = 0 \/ n \in 1 .. N
    BY <1>1
  <2>2. \A n \in 0 .. N : g[n] = body(n)
    BY <1>8, <1>9, <2>1
  <2> HIDE DEF body
  <2>3. g = [n \in 0 .. N |-> body(n)]
    BY <1>7, <2>2
  <2>4. QED
    BY <2>3 DEF body
<1> HIDE DEF Is
<1>11. Is(first)
  BY <1>10
<1> HIDE DEF first
<1>12. /\ first = [n \in 0 .. N |->
                     IF n = 0 THEN <<>>
                     ELSE IF n \in I THEN Append(first[n - 1], s[n]) ELSE first[n - 1]]
  BY <1>11 DEF Is
<1>a. 0 \in 0 .. N /\ \A n \in 1 .. N : n \in 0 .. N /\ n # 0
  BY <1>1
<1>13. /\ first[0] = <<>>
       /\ \A n \in 1 .. N :
            first[n] = IF n \in I THEN Append(first[n - 1], s[n]) ELSE first[n - 1]
  BY <1>12, <1>a
<1>14. \A n \in 0 .. N : first[n] \in V
  <2> DEFINE T == {n \in 0 .. N : first[n] \in V}
  <2>1. 0 \in T
    BY <1>2, <1>a, <1>13
  <2>2. ASSUME NEW n \in 0 .. N - 1, n \in T
        PROVE  n + 1 \in T
    <3>1. n + 1 \in 1 .. N /\ n + 1 - 1 = n /\ n + 1 \in 0 .. N
      BY <1>1
    <3>2. first[n + 1] = IF n + 1 \in I THEN Append(first[n], s[n + 1]) ELSE first[n]
      BY <1>13, <3>1
    <3>3. QED
      BY <1>3, <2>2, <3>1, <3>2
  <2> HIDE DEF T
  <2>3. 0 .. N \subseteq T
    BY <1>1, <2>1, <2>2, BoundedInduction
  <2>4. QED
    BY <2>3 DEF T
<1>15. first \in [0 .. N -> V]
  BY <1>12, <1>14
<1>16. Filters(first, s, I)
  BY <1>13 DEF Filters, N
<1>17. QED
  BY <1>6, <1>15, <1>16 DEF N, V

(* One step of the function that Sublist is defined by. *)
LEMMA FilterStep ==
  ASSUME NEW S, NEW s \in Seq(S), NEW I, NEW f, Filters(f, s, I),
         NEW n \in 0 .. Len(s) - 1
  PROVE  f[n + 1] = IF n + 1 \in I THEN Append(f[n], s[n + 1]) ELSE f[n]
<1>1. n + 1 \in 1 .. Len(s) /\ n + 1 - 1 = n
  BY LenProperties
<1>2. QED
  BY <1>1 DEF Filters

(* The elements of a sublist are elements of the list. *)
LEMMA SublistType ==
  ASSUME NEW S, NEW s \in Seq(S), NEW I
  PROVE  Sublist(s, I) \in Seq(S)
<1>1. Len(s) \in 0 .. Len(s)
  BY LenProperties
<1>2. QED
  BY <1>1, SublistSteps

(* Two lists that agree where either of them is selected from.              *)
LEMMA SublistSame ==
  ASSUME NEW S, NEW s \in Seq(S), NEW t \in Seq(S), Len(s) = Len(t), NEW I, NEW J,
         \A n \in 1 .. Len(s) : (n \in I <=> n \in J) /\ (n \in I => s[n] = t[n])
  PROVE  Sublist(s, I) = Sublist(t, J)
<1>1. PICK f \in [0 .. Len(s) -> Seq(S)] :
        Filters(f, s, I) /\ Sublist(s, I) = f[Len(s)]
  BY SublistSteps
<1>2. PICK g \in [0 .. Len(t) -> Seq(S)] :
        Filters(g, t, J) /\ Sublist(t, J) = g[Len(t)]
  BY SublistSteps
<1>3. Len(s) \in Nat
  BY LenProperties
<1> DEFINE T == {n \in 0 .. Len(s) : f[n] = g[n]}
<1>4. 0 \in T
  BY <1>1, <1>2, <1>3 DEF Filters
<1>5. ASSUME NEW n \in 0 .. Len(s) - 1, n \in T
      PROVE  n + 1 \in T
  <2>1. n + 1 \in 1 .. Len(s) /\ n + 1 - 1 = n
    BY <1>3
  <2>2. /\ f[n + 1] = IF n + 1 \in I THEN Append(f[n], s[n + 1]) ELSE f[n]
        /\ g[n + 1] = IF n + 1 \in J THEN Append(g[n], t[n + 1]) ELSE g[n]
    BY <1>1, <1>2, <2>1 DEF Filters
  <2>3. f[n] = g[n]
    BY <1>5
  <2> HIDE DEF T
  <2>4. f[n + 1] = g[n + 1]
    BY <2>1, <2>2, <2>3
  <2>5. QED
    BY <2>1, <2>4 DEF T
<1> HIDE DEF T
<1>6. 0 .. Len(s) \subseteq T
  BY <1>3, <1>4, <1>5, BoundedInduction
<1>7. QED
  BY <1>1, <1>2, <1>3, <1>6 DEF T

(* The last element is taken last. *)
LEMMA SublistAppend ==
  ASSUME NEW S, NEW s \in Seq(S), NEW x \in S, NEW I
  PROVE  Sublist(Append(s, x), I) =
           IF Len(s) + 1 \in I THEN Append(Sublist(s, I), x) ELSE Sublist(s, I)
<1> DEFINE t == Append(s, x)
<1>1. /\ t \in Seq(S) /\ Len(t) = Len(s) + 1 /\ t[Len(s) + 1] = x
      /\ \A n \in 1 .. Len(s) : t[n] = s[n]
  BY AppendProperties
<1> HIDE DEF t
<1>2. PICK f \in [0 .. Len(s) -> Seq(S)] :
        Filters(f, s, I) /\ Sublist(s, I) = f[Len(s)]
  BY SublistSteps
<1>3. PICK g \in [0 .. Len(t) -> Seq(S)] :
        Filters(g, t, I) /\ Sublist(t, I) = g[Len(t)]
  BY <1>1, SublistSteps
<1>4. Len(s) \in Nat
  BY LenProperties
<1> DEFINE T == {n \in 0 .. Len(s) : f[n] = g[n]}
<1>5. 0 \in T
  BY <1>2, <1>3, <1>4 DEF Filters
<1>6. ASSUME NEW n \in 0 .. Len(s) - 1, n \in T
      PROVE  n + 1 \in T
  <2>1. n + 1 \in 1 .. Len(s) /\ n + 1 \in 1 .. Len(t) /\ n + 1 - 1 = n
    BY <1>1, <1>4
  <2>2. /\ f[n + 1] = IF n + 1 \in I THEN Append(f[n], s[n + 1]) ELSE f[n]
        /\ g[n + 1] = IF n + 1 \in I THEN Append(g[n], t[n + 1]) ELSE g[n]
    BY <1>2, <1>3, <2>1 DEF Filters
  <2>3. f[n] = g[n]
    BY <1>6
  <2> HIDE DEF T
  <2>4. f[n + 1] = g[n + 1]
    BY <1>1, <2>1, <2>2, <2>3
  <2>5. QED
    BY <2>1, <2>4 DEF T
<1> HIDE DEF T
<1>7. 0 .. Len(s) \subseteq T
  BY <1>4, <1>5, <1>6, BoundedInduction
<1>8. f[Len(s)] = g[Len(s)]
  BY <1>4, <1>7 DEF T
<1>9. Len(t) \in 1 .. Len(t) /\ Len(t) - 1 = Len(s)
  BY <1>1, <1>4
<1>10. g[Len(t)] = IF Len(t) \in I THEN Append(g[Len(s)], t[Len(t)]) ELSE g[Len(s)]
  BY <1>3, <1>9 DEF Filters
<1>11. QED
  BY <1>1, <1>2, <1>3, <1>8, <1>10 DEF t

(* Taking every element gives the list, taking none the empty list, and     *)
(* what is taken keeps count.                                               *)
LEMMA SublistAll ==
  ASSUME NEW S, NEW s \in Seq(S), NEW I, 1 .. Len(s) \subseteq I
  PROVE  Sublist(s, I) = s
<1>1. PICK f \in [0 .. Len(s) -> Seq(S)] :
        Filters(f, s, I) /\ Sublist(s, I) = f[Len(s)]
  BY SublistSteps
<1>2. Len(s) \in Nat /\ Len(<<>>) = 0
  BY LenProperties, EmptySeq
<1> DEFINE Is(n) == /\ Len(f[n]) = n
                    /\ \A k \in 1 .. n : f[n][k] = s[k]
           T == {n \in 0 .. Len(s) : Is(n)}
<1>3. 0 \in T
  BY <1>1, <1>2 DEF Filters
<1>4. ASSUME NEW n \in 0 .. Len(s) - 1, n \in T
      PROVE  n + 1 \in T
  <2>1. n + 1 \in 1 .. Len(s) /\ n + 1 - 1 = n /\ n \in 0 .. Len(s)
    BY <1>2
  <2>a. f[n + 1] = IF n + 1 \in I THEN Append(f[n], s[n + 1]) ELSE f[n]
    BY <1>1, FilterStep
  <2>2. f[n + 1] = Append(f[n], s[n + 1]) /\ f[n] \in Seq(S) /\ s[n + 1] \in S
    BY <2>1, <2>a, ElementOfSeq
  <2>3. /\ Len(f[n + 1]) = Len(f[n]) + 1
        /\ \A k \in 1 .. Len(f[n]) : f[n + 1][k] = f[n][k]
        /\ f[n + 1][Len(f[n]) + 1] = s[n + 1]
    BY <2>2, AppendProperties
  <2>4. Len(f[n]) = n /\ \A k \in 1 .. n : f[n][k] = s[k]
    BY <1>4
  <2>5. Is(n + 1)
    BY <2>1, <2>3, <2>4
  <2> HIDE DEF Is
  <2>6. QED
    BY <2>1, <2>5
<1> HIDE DEF T
<1>5. 0 .. Len(s) \subseteq T
  BY <1>2, <1>3, <1>4, BoundedInduction
<1>6. Is(Len(s))
  BY <1>2, <1>5 DEF T
<1>7. f[Len(s)] \in Seq(S)
  BY <1>2
<1>8. f[Len(s)] = s
  BY <1>6, <1>7, SeqEqual
<1>9. QED
  BY <1>1, <1>8

(* No positions, no elements. *)
LEMMA SublistNone ==
  ASSUME NEW S, NEW s \in Seq(S), NEW I, \A n \in 1 .. Len(s) : n \notin I
  PROVE  Sublist(s, I) = <<>>
<1>1. PICK f \in [0 .. Len(s) -> Seq(S)] :
        Filters(f, s, I) /\ Sublist(s, I) = f[Len(s)]
  BY SublistSteps
<1>2. Len(s) \in Nat
  BY LenProperties
<1> DEFINE T == {n \in 0 .. Len(s) : f[n] = <<>>}
<1>3. 0 \in T
  BY <1>1, <1>2 DEF Filters
<1>4. ASSUME NEW n \in 0 .. Len(s) - 1, n \in T
      PROVE  n + 1 \in T
  <2>1. n + 1 \in 1 .. Len(s) /\ n + 1 - 1 = n
    BY <1>2
  <2>2. f[n + 1] = f[n]
    BY <1>1, <2>1 DEF Filters
  <2>3. QED
    BY <1>4, <2>1, <2>2
<1> HIDE DEF T
<1>5. 0 .. Len(s) \subseteq T
  BY <1>2, <1>3, <1>4, BoundedInduction
<1>6. QED
  BY <1>1, <1>2, <1>5 DEF T

(* What is taken comes from the positions, and everything there is taken.   *)
LEMMA SublistElements ==
  ASSUME NEW S, NEW s \in Seq(S), NEW I
  PROVE  /\ \A k \in 1 .. Len(Sublist(s, I)) :
              \E n \in 1 .. Len(s) : n \in I /\ Sublist(s, I)[k] = s[n]
         /\ \A n \in 1 .. Len(s) : n \in I =>
              \E k \in 1 .. Len(Sublist(s, I)) : Sublist(s, I)[k] = s[n]
<1>1. PICK f \in [0 .. Len(s) -> Seq(S)] :
        Filters(f, s, I) /\ Sublist(s, I) = f[Len(s)]
  BY SublistSteps
<1>2. Len(s) \in Nat /\ Len(<<>>) = 0
  BY LenProperties, EmptySeq
<1> DEFINE From(n) == \A k \in 1 .. Len(f[n]) :
                        \E m \in 1 .. n : m \in I /\ f[n][k] = s[m]
           All(n) == \A m \in 1 .. n : m \in I =>
                       \E k \in 1 .. Len(f[n]) : f[n][k] = s[m]
           T == {n \in 0 .. Len(s) : From(n) /\ All(n)}
<1>3. 0 \in T
  BY <1>1, <1>2 DEF Filters
<1>4. ASSUME NEW n \in 0 .. Len(s) - 1, n \in T
      PROVE  n + 1 \in T
  <2>1. n + 1 \in 1 .. Len(s) /\ n + 1 - 1 = n /\ n \in 0 .. Len(s) /\ n + 1 \in 0 .. Len(s)
    BY <1>2
  <2>2. f[n] \in Seq(S) /\ s[n + 1] \in S
    BY <2>1, ElementOfSeq
  <2>3. Len(f[n]) \in Nat
    BY <2>2, LenProperties
  <2>4. From(n) /\ All(n)
    BY <1>4
  <2>5. CASE n + 1 \in I
    <3>1. f[n + 1] = Append(f[n], s[n + 1])
      <4>1. f[n + 1] = IF n + 1 \in I THEN Append(f[n + 1 - 1], s[n + 1]) ELSE f[n + 1 - 1]
        BY <1>1, <2>1 DEF Filters
      <4>2. QED
        BY <2>1, <2>5, <4>1
    <3>2. /\ Len(f[n + 1]) = Len(f[n]) + 1
          /\ \A k \in 1 .. Len(f[n]) : f[n + 1][k] = f[n][k]
          /\ f[n + 1][Len(f[n]) + 1] = s[n + 1]
      <4> DEFINE g == f[n]
                 x == s[n + 1]
      <4>1. g \in Seq(S) /\ x \in S
        BY <2>2
      <4> HIDE DEF g, x
      <4>2. /\ Len(Append(g, x)) = Len(g) + 1
            /\ \A k \in 1 .. Len(g) : Append(g, x)[k] = g[k]
            /\ Append(g, x)[Len(g) + 1] = x
        BY <4>1, AppendProperties
      <4>3. QED
        BY <3>1, <4>2 DEF g, x
    <3>3. ASSUME NEW k \in 1 .. Len(f[n + 1])
          PROVE  \E m \in 1 .. n + 1 : m \in I /\ f[n + 1][k] = s[m]
      <4>1. CASE k = Len(f[n]) + 1
        BY <2>1, <2>5, <3>2, <4>1
      <4>2. CASE k # Len(f[n]) + 1
        <5>1. k \in 1 .. Len(f[n])
          BY <2>3, <3>2, <4>2
        <5>2. PICK m \in 1 .. n : m \in I /\ f[n][k] = s[m]
          BY <2>4, <5>1
        <5>3. m \in 1 .. n + 1 /\ f[n + 1][k] = s[m]
          BY <3>2, <5>1, <5>2
        <5>4. QED
          BY <5>2, <5>3
      <4>3. QED
        BY <4>1, <4>2
    <3>4. ASSUME NEW m \in 1 .. n + 1, m \in I
          PROVE  \E k \in 1 .. Len(f[n + 1]) : f[n + 1][k] = s[m]
      <4>1. CASE m = n + 1
        <5>1. Len(f[n]) + 1 \in 1 .. Len(f[n + 1])
          BY <2>3, <3>2
        <5>2. QED
          BY <3>2, <4>1, <5>1
      <4>2. CASE m # n + 1
        <5>1. m \in 1 .. n
          BY <4>2
        <5>2. PICK k \in 1 .. Len(f[n]) : f[n][k] = s[m]
          BY <2>4, <3>4, <5>1
        <5>3. k \in 1 .. Len(f[n + 1]) /\ f[n + 1][k] = s[m]
          BY <2>3, <3>2, <5>2
        <5>4. QED
          BY <5>3
      <4>3. QED
        BY <4>1, <4>2
    <3>5. From(n + 1) /\ All(n + 1)
      BY <3>3, <3>4
    <3> HIDE DEF From, All
    <3>6. QED
      BY <2>1, <3>5
  <2>6. CASE n + 1 \notin I
    <3>1. f[n + 1] = f[n]
      BY <1>1, <2>1, <2>6 DEF Filters
    <3>2. From(n + 1)
      <4>1. \A m \in 1 .. n : m \in 1 .. n + 1
        OBVIOUS
      <4>2. QED
        BY <2>4, <3>1, <4>1
    <3>3. All(n + 1)
      <4>1. \A m \in 1 .. n + 1 : m \in I => m \in 1 .. n
        BY <2>6
      <4>2. QED
        BY <2>4, <3>1, <4>1
    <3> HIDE DEF From, All
    <3>4. QED
      BY <2>1, <3>2, <3>3
  <2>7. QED
    BY <2>5, <2>6
<1> HIDE DEF T
<1>5. 0 .. Len(s) \subseteq T
  BY <1>2, <1>3, <1>4, BoundedInduction
<1>6. From(Len(s)) /\ All(Len(s))
  BY <1>2, <1>5 DEF T
<1>7. QED
  BY <1>1, <1>6

(* Taking one more element, when everything before it is taken, puts it     *)
(* where it was in the list.                                                *)
LEMMA SublistInsert ==
  ASSUME NEW S, NEW s \in Seq(S), NEW I, NEW i \in 1 .. Len(s), i \notin I,
         \A n \in 1 .. i - 1 : n \in I
  PROVE  /\ i \in 1 .. Len(Sublist(s, I)) + 1
         /\ InsertAt(Sublist(s, I), i, s[i]) = Sublist(s, I \cup {i})
<1> DEFINE J == I \cup {i}
<1>a. \A n : n \in J <=> n \in I \/ n = i
  OBVIOUS
<1> HIDE DEF J
<1>1. PICK f \in [0 .. Len(s) -> Seq(S)] :
        Filters(f, s, I) /\ Sublist(s, I) = f[Len(s)]
  BY SublistSteps
<1>2. PICK g \in [0 .. Len(s) -> Seq(S)] :
        Filters(g, s, J) /\ Sublist(s, J) = g[Len(s)]
  BY SublistSteps
<1>3. Len(s) \in Nat /\ i \in Nat /\ Len(<<>>) = 0
  BY LenProperties, EmptySeq
<1> DEFINE Before(n) == n < i => f[n] = g[n] /\ Len(f[n]) = n
           From(n) == n >= i => /\ i <= Len(f[n]) + 1
                                /\ InsertAt(f[n], i, s[i]) = g[n]
           T == {n \in 0 .. Len(s) : Before(n) /\ From(n)}
<1>4. 0 \in T
  BY <1>1, <1>2, <1>3 DEF Filters
<1>5. ASSUME NEW n \in 0 .. Len(s) - 1, n \in T
      PROVE  n + 1 \in T
  <2>1. n + 1 \in 1 .. Len(s) /\ n + 1 - 1 = n /\ n \in 0 .. Len(s) /\ n + 1 \in 0 .. Len(s)
    BY <1>3
  <2>2. /\ f[n] \in Seq(S) /\ g[n] \in Seq(S) /\ s[n + 1] \in S /\ s[i] \in S
        /\ Len(f[n]) \in Nat
    BY <2>1, ElementOfSeq, LenProperties
  <2>3. /\ f[n + 1] = IF n + 1 \in I THEN Append(f[n], s[n + 1]) ELSE f[n]
        /\ g[n + 1] = IF n + 1 \in J THEN Append(g[n], s[n + 1]) ELSE g[n]
    <3> HIDE DEF T
    <3>1. f[n + 1] = IF n + 1 \in I THEN Append(f[n], s[n + 1]) ELSE f[n]
      BY <1>1, FilterStep
    <3>2. g[n + 1] = IF n + 1 \in J THEN Append(g[n], s[n + 1]) ELSE g[n]
      <4>1. \A m \in 1 .. Len(s) :
              g[m] = IF m \in J THEN Append(g[m - 1], s[m]) ELSE g[m - 1]
        BY <1>2 DEF Filters
      <4>2. QED
        BY <2>1, <4>1
    <3>3. QED
      BY <3>1, <3>2
  <2>4. Before(n) /\ From(n)
    BY <1>5
  <2>5. /\ Len(Append(f[n], s[n + 1])) = Len(f[n]) + 1
        /\ Append(f[n], s[n + 1]) \in Seq(S)
    BY <2>2, AppendProperties
  <2>6. CASE n + 1 < i
    <3>1. n + 1 \in I /\ n + 1 \in J /\ n < i
      BY <1>3, <1>a, <2>1, <2>6
    <3>2. Before(n + 1)
      BY <2>3, <2>4, <2>5, <3>1
    <3>3. From(n + 1)
      BY <1>3, <2>1, <2>6
    <3> HIDE DEF Before, From
    <3>4. QED
      BY <2>1, <3>2, <3>3
  <2>7. CASE n + 1 = i
    <3>1. n + 1 \notin I /\ n + 1 \in J /\ n < i
      BY <1>3, <1>a, <2>1, <2>7
    <3>2. f[n + 1] = f[n] /\ g[n + 1] = Append(f[n], s[i]) /\ Len(f[n]) = n
      BY <2>3, <2>4, <2>7, <3>1
    <3>3. InsertAt(f[n], Len(f[n]) + 1, s[i]) = Append(f[n], s[i])
      BY <2>2, InsertAtEnd
    <3>4. From(n + 1)
      BY <2>7, <3>2, <3>3, <1>3
    <3>5. Before(n + 1)
      BY <1>3, <2>7
    <3> HIDE DEF Before, From
    <3>6. QED
      BY <2>1, <3>4, <3>5
  <2>8. CASE n + 1 > i
    <3>1. n >= i /\ (n + 1 \in J <=> n + 1 \in I)
      BY <1>3, <1>a, <2>1, <2>8
    <3>2. i \in 1 .. Len(f[n]) + 1 /\ InsertAt(f[n], i, s[i]) = g[n]
      BY <1>3, <2>2, <2>4, <3>1
    <3>3. Append(InsertAt(f[n], i, s[i]), s[n + 1]) = InsertAt(Append(f[n], s[n + 1]), i, s[i])
      <4> DEFINE l == f[n]
                 e == s[i]
                 x == s[n + 1]
      <4>1. l \in Seq(S) /\ e \in S /\ x \in S /\ i \in 1 .. Len(l) + 1
        BY <2>2, <3>2
      <4> HIDE DEF l, e, x
      <4>2. Append(InsertAt(l, i, e), x) = InsertAt(Append(l, x), i, e)
        BY <4>1, InsertThenAppend
      <4>3. QED
        BY <4>2 DEF l, e, x
    <3>4. From(n + 1)
      BY <1>3, <2>2, <2>3, <2>5, <3>1, <3>2, <3>3
    <3>5. Before(n + 1)
      BY <1>3, <2>8
    <3> HIDE DEF Before, From
    <3>6. QED
      BY <2>1, <3>4, <3>5
  <2>9. QED
    BY <1>3, <2>1, <2>6, <2>7, <2>8
<1> HIDE DEF T
<1>6. 0 .. Len(s) \subseteq T
  BY <1>3, <1>4, <1>5, BoundedInduction
<1>7. From(Len(s))
  <2>1. Len(s) \in T
    BY <1>3, <1>6
  <2> HIDE DEF From, Before
  <2>2. QED
    BY <2>1 DEF T
<1>8. QED
  BY <1>1, <1>2, <1>3, <1>7, LenProperties DEF J

-----------------------------------------------------------------------------
(* Taking one element out of a list, and what Without leaves *)

(* A list without its element at i, with the element put back.              *)
LEMMA OneOut ==
  ASSUME NEW S, NEW s \in Seq(S), NEW i \in 1 .. Len(s)
  PROVE  LET rest == Sublist(s, (1 .. Len(s)) \ {i})
         IN  /\ rest \in Seq(S)
             /\ Len(rest) = Len(s) - 1
             /\ i \in 1 .. Len(rest) + 1
             /\ InsertAt(rest, i, s[i]) = s
             /\ Range(rest) \subseteq Range(s)
<1> DEFINE I == (1 .. Len(s)) \ {i}
           rest == Sublist(s, I)
<1>1. rest \in Seq(S) /\ s[i] \in S
  BY SublistType, ElementOfSeq
<1>2. i \notin I /\ \A n \in 1 .. i - 1 : n \in I
  BY LenProperties
<1>3. I \cup {i} = 1 .. Len(s)
  OBVIOUS
<1>4. DOMAIN s = 1 .. Len(s) /\ DOMAIN rest = 1 .. Len(rest)
  BY <1>1, LenProperties
<1>5. Range(rest) \subseteq Range(s)
  <2>1. \A k \in 1 .. Len(rest) : \E n \in 1 .. Len(s) : n \in I /\ rest[k] = s[n]
    BY SublistElements
  <2> HIDE DEF rest, I
  <2>2. QED
    BY <1>4, <2>1 DEF Range
<1> HIDE DEF I
<1>6. i \in 1 .. Len(rest) + 1 /\ InsertAt(rest, i, s[i]) = Sublist(s, I \cup {i})
  BY <1>2, SublistInsert
<1>7. Sublist(s, I \cup {i}) = s
  BY <1>3, SublistAll
<1> HIDE DEF rest
<1>8. Len(s) = Len(rest) + 1
  <2>1. Len(InsertAt(rest, i, s[i])) = Len(rest) + 1
    BY <1>1, <1>6, InsertProperties
  <2>2. QED
    BY <1>6, <1>7, <2>1
<1>9. Len(rest) = Len(s) - 1
  BY <1>1, <1>8, LenProperties
<1>10. QED
  BY <1>1, <1>5, <1>6, <1>7, <1>9 DEF rest, I

(* Removing an element that occurs once takes its position out.             *)
LEMMA WithoutOne ==
  ASSUME NEW S, NEW s \in Seq(S), NEW i \in 1 .. Len(s), IsInjective(s)
  PROVE  /\ Without(s, s[i]) \in Seq(S)
         /\ Len(Without(s, s[i])) = Len(s) - 1
         /\ i \in 1 .. Len(Without(s, s[i])) + 1
         /\ InsertAt(Without(s, s[i]), i, s[i]) = s
         /\ Range(Without(s, s[i])) = Range(s) \ {s[i]}
<1> DEFINE I == (1 .. Len(s)) \ {i}
           J == {n \in DOMAIN s : s[n] # s[i]}
           rest == Sublist(s, J)
<1>1. DOMAIN s = 1 .. Len(s)
  BY LenProperties
<1>2. I = J
  BY <1>1 DEF IsInjective
<1>3. /\ rest \in Seq(S)
      /\ Len(rest) = Len(s) - 1
      /\ i \in 1 .. Len(rest) + 1
      /\ InsertAt(rest, i, s[i]) = s
  <2> HIDE DEF J, rest
  <2>1. rest = Sublist(s, (1 .. Len(s)) \ {i})
    BY <1>2 DEF rest
  <2>2. QED
    BY <2>1, OneOut
<1>4. Range(rest) = Range(s) \ {s[i]}
  <2>a. \A n \in 1 .. Len(s) : n \in J <=> s[n] # s[i]
    BY <1>1
  <2> HIDE DEF J
  <2>1. /\ \A k \in 1 .. Len(rest) : \E n \in 1 .. Len(s) : n \in J /\ rest[k] = s[n]
        /\ \A n \in 1 .. Len(s) : n \in J => \E k \in 1 .. Len(rest) : rest[k] = s[n]
    BY SublistElements
  <2>2. DOMAIN rest = 1 .. Len(rest)
    BY <1>3, LenProperties
  <2> HIDE DEF rest
  <2>3. ASSUME NEW x \in Range(rest)
        PROVE  x \in Range(s) \ {s[i]}
    <3>1. PICK k \in 1 .. Len(rest) : x = rest[k]
      BY <2>2 DEF Range
    <3>2. PICK n \in 1 .. Len(s) : n \in J /\ rest[k] = s[n]
      BY <2>1, <3>1
    <3>3. QED
      BY <1>1, <2>a, <3>1, <3>2 DEF Range
  <2>4. ASSUME NEW x \in Range(s) \ {s[i]}
        PROVE  x \in Range(rest)
    <3>1. PICK n \in 1 .. Len(s) : x = s[n]
      BY <1>1 DEF Range
    <3>2. n \in J
      BY <2>a, <3>1
    <3>3. PICK k \in 1 .. Len(rest) : rest[k] = s[n]
      BY <2>1, <3>2
    <3>4. QED
      BY <2>2, <3>1, <3>3 DEF Range
  <2>5. QED
    BY <2>3, <2>4
<1>5. rest = Without(s, s[i])
  BY DEF Without
<1> HIDE DEF rest
<1>6. QED
  BY <1>3, <1>4, <1>5

(* Removing what was just inserted gives the list back.                     *)
LEMMA WithoutInserted ==
  ASSUME NEW S, NEW s \in Seq(S), NEW i \in 1 .. Len(s) + 1, NEW e \in S
  PROVE  (\A n \in 1 .. Len(s) : s[n] # e) => Without(InsertAt(s, i, e), e) = s
<1> DEFINE t == InsertAt(s, i, e)
           I == (1 .. Len(t)) \ {i}
           J == {n \in DOMAIN t : t[n] # e}
           rest == Sublist(t, I)
<1>1. /\ t \in Seq(S) /\ Len(t) = Len(s) + 1
      /\ \A k \in 1 .. i - 1 : t[k] = s[k]
      /\ t[i] = e
      /\ \A k \in i + 1 .. Len(s) + 1 : t[k] = s[k - 1]
  <2>1. Inserted(t, S, s, i, e)
    BY Insertion
  <2> HIDE DEF t
  <2>2. QED
    BY <2>1 DEF Inserted
<1>a. SUFFICES ASSUME \A n \in 1 .. Len(s) : s[n] # e
               PROVE  Without(t, e) = s
  OBVIOUS
<1> HIDE DEF t
<1>2. Len(s) \in Nat /\ i \in 1 .. Len(t) /\ DOMAIN t = 1 .. Len(t)
  BY <1>1, LenProperties
<1>3. ASSUME NEW n \in 1 .. Len(t), n # i
      PROVE  t[n] # e
  <2>1. CASE n < i
    <3>1. n \in 1 .. i - 1 /\ n \in 1 .. Len(s)
      BY <1>2, <2>1
    <3>2. QED
      BY <1>1, <1>a, <3>1
  <2>2. CASE n > i
    <3>1. n \in i + 1 .. Len(s) + 1 /\ n - 1 \in 1 .. Len(s)
      BY <1>1, <1>2, <2>2
    <3>2. QED
      BY <1>1, <1>a, <3>1
  <2>3. QED
    BY <1>2, <1>3, <2>1, <2>2
<1>4. I = J
  BY <1>1, <1>2, <1>3
<1>5. /\ rest \in Seq(S)
      /\ Len(rest) = Len(t) - 1
      /\ InsertAt(rest, i, t[i]) = t
  BY <1>1, <1>2, OneOut
<1> HIDE DEF rest, I, J
<1>6. InsertAt(rest, i, e) = InsertAt(s, i, e) /\ Len(rest) = Len(s)
  BY <1>1, <1>2, <1>5 DEF t
<1>7. rest = s
  BY <1>5, <1>6, InsertCancels
<1>8. QED
  BY <1>4, <1>7 DEF Without, rest, J

-----------------------------------------------------------------------------
(* Putting elements back *)

(* Every stored element finds the list long enough when its turn comes.     *)
Fits(nodes, stored) ==
  \A k \in 1 .. Len(stored) : stored[k].storage_index <= Len(nodes) + k - 1

(* f[k] is the list after the first k stored elements.                      *)
Refills(f, nodes, stored) ==
  /\ f[0] = nodes
  /\ \A k \in 1 .. Len(stored) :
       f[k] = InsertAt(f[k - 1], stored[k].storage_index + 1, stored[k].node)

StoredOf(S) == [storage_index : Nat, node : S]

(* restore_subtree node by node: the storage grows by one node at a time. *)
LEMMA RefillSteps ==
  ASSUME NEW S, NEW nodes \in Seq(S), NEW stored \in Seq(StoredOf(S)),
         Fits(nodes, stored)
  PROVE  \E f \in [0 .. Len(stored) -> Seq(S)] :
           /\ Refills(f, nodes, stored)
           /\ \A k \in 0 .. Len(stored) : Len(f[k]) = Len(nodes) + k
           /\ Refill(nodes, stored) = f[Len(stored)]
<1> DEFINE N == Len(stored)
           at(k) == stored[k].storage_index + 1
           put(v, k) == InsertAt(v, at(k), stored[k].node)
           V == {v \in Seq(S) : Len(v) >= Len(nodes)}
           U(k) == {v \in Seq(S) : Len(v) = Len(nodes) + k}
           Is(g) == g = [k \in 0 .. N |->
                           IF k = 0 THEN nodes
                           ELSE InsertAt(g[k - 1], stored[k].storage_index + 1, stored[k].node)]
           filled == CHOOSE g : Is(g)
           step == [p \in (1 .. N) \X Seq(S) |->
                      IF p[2] \in U(p[1] - 1) THEN put(p[2], p[1]) ELSE p[2]]
<1>1. N \in Nat /\ Len(nodes) \in Nat
  BY LenProperties
<1>2. ASSUME NEW k \in 1 .. N
      PROVE  at(k) \in Nat /\ 1 <= at(k) /\ at(k) <= Len(nodes) + k /\ stored[k].node \in S
  <2>1. stored[k] \in StoredOf(S)
    BY ElementOfSeq
  <2>2. stored[k].storage_index \in Nat /\ stored[k].node \in S
    BY <2>1 DEF StoredOf
  <2>3. stored[k].storage_index <= Len(nodes) + k - 1
    BY DEF Fits
  <2>4. QED
    BY <1>1, <2>2, <2>3
<1>3. ASSUME NEW k \in 1 .. N, NEW v \in U(k - 1)
      PROVE  put(v, k) \in U(k)
  <2> DEFINE i == at(k)
             e == stored[k].node
  <2>1. v \in Seq(S) /\ Len(v) = Len(nodes) + (k - 1)
    OBVIOUS
  <2>2. i \in 1 .. Len(v) + 1 /\ e \in S
    <3> HIDE DEF U
    <3>1. QED
      BY <1>1, <1>2, <2>1
  <2> HIDE DEF i, e
  <2>3. InsertAt(v, i, e) \in Seq(S) /\ Len(InsertAt(v, i, e)) = Len(v) + 1
    BY <2>1, <2>2, InsertProperties
  <2>4. QED
    BY <1>1, <2>1, <2>3 DEF i, e
<1>4. step \in [(1 .. N) \X Seq(S) -> Seq(S)]
  <2> HIDE DEF put, N
  <2>1. ASSUME NEW k \in 1 .. N, NEW v \in Seq(S)
        PROVE  (IF v \in U(k - 1) THEN put(v, k) ELSE v) \in Seq(S)
    BY <1>3
  <2> HIDE DEF U
  <2>2. QED
    BY <2>1
<1>5. \A k \in 1 .. N, v \in Seq(S) : v \in U(k - 1) => step[<<k, v>>] = put(v, k)
  <2> HIDE DEF U, put, N
  <2> QED
    OBVIOUS
<1>6. Refill(nodes, stored) = filled[N]
  BY DEF Refill
<1>7. PICK g \in [0 .. N -> Seq(S)] : Computes(g, N, nodes, step)
  <2> HIDE DEF N, step
  <2>1. QED
    BY <1>1, <1>4, RecursionExists
<1> HIDE DEF put, step, N, U
<1>8. ASSUME NEW h, h[0] = nodes,
             \A k \in 1 .. N : h[k - 1] \in U(k - 1) => h[k] = put(h[k - 1], k)
      PROVE  \A k \in 0 .. N : h[k] \in U(k)
  <2> DEFINE T == {k \in 0 .. N : h[k] \in U(k)}
  <2>1. 0 \in T
    BY <1>1, <1>8 DEF U
  <2>2. ASSUME NEW k \in 0 .. N - 1, k \in T
        PROVE  k + 1 \in T
    <3>1. k + 1 \in 1 .. N /\ k + 1 - 1 = k /\ k + 1 \in 0 .. N
      BY <1>1
    <3>2. h[k + 1] = put(h[k], k + 1)
      BY <1>8, <2>2, <3>1
    <3>3. put(h[k], k + 1) \in U(k + 1)
      BY <1>3, <2>2, <3>1
    <3>4. QED
      BY <3>1, <3>2, <3>3
  <2> HIDE DEF T
  <2>3. 0 .. N \subseteq T
    BY <1>1, <2>1, <2>2, BoundedInduction
  <2>4. QED
    BY <2>3 DEF T
<1>9. \A k \in 0 .. N : g[k] \in U(k)
  <2>1. g[0] = nodes
    BY <1>7 DEF Computes
  <2>2. ASSUME NEW k \in 1 .. N, g[k - 1] \in U(k - 1)
        PROVE  g[k] = put(g[k - 1], k)
    <3>1. g[k] = step[<<k, g[k - 1]>>] /\ g[k - 1] \in Seq(S)
      BY <1>1, <1>7 DEF Computes
    <3>2. QED
      BY <1>5, <2>2, <3>1
  <2>3. QED
    BY <1>8, <2>1, <2>2
<1>10. Is(g)
  <2> DEFINE body(k) == IF k = 0 THEN nodes
                        ELSE InsertAt(g[k - 1], stored[k].storage_index + 1, stored[k].node)
  <2>1. ASSUME NEW k \in 1 .. N
        PROVE  g[k] = put(g[k - 1], k)
    <3>1. g[k] = step[<<k, g[k - 1]>>] /\ g[k - 1] \in Seq(S) /\ k - 1 \in 0 .. N
      BY <1>1, <1>7 DEF Computes
    <3>2. QED
      BY <1>5, <1>9, <3>1
  <2>2. \A k \in 0 .. N : k = 0 \/ k \in 1 .. N
    BY <1>1
  <2>3. \A k \in 0 .. N : g[k] = body(k)
    BY <1>7, <2>1, <2>2 DEF put, Computes
  <2> HIDE DEF body
  <2>4. g = [k \in 0 .. N |-> body(k)]
    BY <1>7, <2>3
  <2>5. QED
    BY <2>4 DEF body
<1> HIDE DEF Is
<1>11. Is(filled)
  BY <1>10
<1> HIDE DEF filled
<1>12. filled = [k \in 0 .. N |->
                   IF k = 0 THEN nodes
                   ELSE InsertAt(filled[k - 1], stored[k].storage_index + 1, stored[k].node)]
  BY <1>11 DEF Is
<1>13. 0 \in 0 .. N /\ \A k \in 1 .. N : k \in 0 .. N /\ k # 0
  BY <1>1
<1>14. /\ filled[0] = nodes
       /\ \A k \in 1 .. N : filled[k] = put(filled[k - 1], k)
  BY <1>12, <1>13 DEF put
<1>15. \A k \in 0 .. N : filled[k] \in U(k)
  BY <1>8, <1>14
<1>16. filled \in [0 .. N -> Seq(S)] /\ \A k \in 0 .. N : Len(filled[k]) = Len(nodes) + k
  BY <1>12, <1>15 DEF U
<1>17. Refills(filled, nodes, stored)
  BY <1>14 DEF Refills, put, N
<1>18. QED
  BY <1>6, <1>16, <1>17 DEF N

(* The last stored element is put back last. *)
LEMMA RefillAppend ==
  ASSUME NEW S, NEW nodes \in Seq(S), NEW stored \in Seq(StoredOf(S)),
         NEW x \in StoredOf(S), Fits(nodes, stored),
         x.storage_index <= Len(nodes) + Len(stored)
  PROVE  /\ Fits(nodes, Append(stored, x))
         /\ Refill(nodes, Append(stored, x)) =
              InsertAt(Refill(nodes, stored), x.storage_index + 1, x.node)
<1> DEFINE more == Append(stored, x)
<1>1. /\ more \in Seq(StoredOf(S)) /\ Len(more) = Len(stored) + 1
      /\ more[Len(stored) + 1] = x
      /\ \A n \in 1 .. Len(stored) : more[n] = stored[n]
  BY AppendProperties
<1> HIDE DEF more
<1>2. Len(stored) \in Nat /\ Len(nodes) \in Nat
  BY LenProperties
<1>3. Fits(nodes, more)
  <2> SUFFICES ASSUME NEW k \in 1 .. Len(more)
               PROVE  more[k].storage_index <= Len(nodes) + k - 1
    BY DEF Fits
  <2>1. CASE k = Len(stored) + 1
    BY <1>1, <1>2, <2>1
  <2>2. CASE k # Len(stored) + 1
    <3>1. k \in 1 .. Len(stored)
      BY <1>1, <1>2, <2>2
    <3>2. QED
      BY <1>1, <3>1 DEF Fits
  <2>3. QED
    BY <2>1, <2>2
<1>4. PICK f \in [0 .. Len(stored) -> Seq(S)] :
        /\ Refills(f, nodes, stored)
        /\ Refill(nodes, stored) = f[Len(stored)]
  BY RefillSteps
<1>5. PICK g \in [0 .. Len(more) -> Seq(S)] :
        /\ Refills(g, nodes, more)
        /\ Refill(nodes, more) = g[Len(more)]
  BY <1>1, <1>3, RefillSteps
<1>6. /\ f[0] = nodes /\ g[0] = nodes
      /\ \A k \in 1 .. Len(stored) :
           f[k] = InsertAt(f[k - 1], stored[k].storage_index + 1, stored[k].node)
      /\ \A k \in 1 .. Len(more) :
           g[k] = InsertAt(g[k - 1], more[k].storage_index + 1, more[k].node)
  BY <1>4, <1>5 DEF Refills
<1> DEFINE T == {n \in 0 .. Len(stored) : f[n] = g[n]}
<1>7. 0 \in T
  BY <1>2, <1>6
<1>8. ASSUME NEW n \in 0 .. Len(stored) - 1, n \in T
      PROVE  n + 1 \in T
  <2>1. n + 1 \in 1 .. Len(stored) /\ n + 1 \in 1 .. Len(more) /\ n + 1 - 1 = n
    BY <1>1, <1>2
  <2>2. f[n] = g[n]
    BY <1>8
  <2> HIDE DEF T
  <2>3. f[n + 1] = g[n + 1]
    <3>1. f[n + 1] = InsertAt(f[n], stored[n + 1].storage_index + 1, stored[n + 1].node)
      BY <1>6, <2>1
    <3>2. g[n + 1] = InsertAt(g[n], more[n + 1].storage_index + 1, more[n + 1].node)
      BY <1>6, <2>1
    <3>3. QED
      BY <1>1, <2>1, <2>2, <3>1, <3>2
  <2>4. QED
    BY <2>1, <2>3 DEF T
<1> HIDE DEF T
<1>9. 0 .. Len(stored) \subseteq T
  BY <1>2, <1>7, <1>8, BoundedInduction
<1>10. f[Len(stored)] = g[Len(stored)]
  <2>1. Len(stored) \in T
    BY <1>2, <1>9
  <2>2. QED
    BY <2>1 DEF T
<1>11. g[Len(more)] = InsertAt(g[Len(stored)], x.storage_index + 1, x.node)
  <2>1. Len(more) \in 1 .. Len(more) /\ Len(more) - 1 = Len(stored) /\ more[Len(more)] = x
    BY <1>1, <1>2
  <2>2. QED
    BY <1>6, <2>1
<1>12. QED
  BY <1>3, <1>4, <1>5, <1>10, <1>11 DEF more

(* What Stored keeps, put back into what was kept, is the list it was taken *)
(* from: each element finds everything that was before it in place.         *)
LEMMA RefillRestores ==
  ASSUME NEW S, NEW nodes \in Seq(S), NEW J
  PROVE  LET all    == [i \in DOMAIN nodes |-> [storage_index |-> i - 1, node |-> nodes[i]]]
             base   == Sublist(nodes, (1 .. Len(nodes)) \ J)
             stored == Sublist(all, J)
         IN  /\ stored \in Seq(StoredOf(S))
             /\ Fits(base, stored)
             /\ Refill(base, stored) = nodes
<1> DEFINE all == [i \in DOMAIN nodes |-> [storage_index |-> i - 1, node |-> nodes[i]]]
           N == Len(nodes)
           base == Sublist(nodes, (1 .. N) \ J)
           K(n) == ((1 .. N) \ J) \cup (1 .. n)
<1>1. N \in Nat /\ DOMAIN nodes = 1 .. N /\ \A n \in 1 .. N : nodes[n] \in S
  BY LenProperties, ElementOfSeq
<1>2. /\ all \in Seq(StoredOf(S)) /\ Len(all) = N
      /\ \A n \in 1 .. N : all[n] = [storage_index |-> n - 1, node |-> nodes[n]]
  <2>1. all = [i \in 1 .. N |-> [storage_index |-> i - 1, node |-> nodes[i]]]
    BY <1>1
  <2>2. \A n \in 1 .. N : [storage_index |-> n - 1, node |-> nodes[n]] \in StoredOf(S)
    BY <1>1 DEF StoredOf
  <2> HIDE DEF all
  <2>3. /\ all \in [1 .. N -> StoredOf(S)]
        /\ \A n \in 1 .. N : all[n] = [storage_index |-> n - 1, node |-> nodes[n]]
    BY <2>1, <2>2
  <2>4. QED
    BY <1>1, <2>3, IsASeq, LenProperties
<1> HIDE DEF all
<1>3. base \in Seq(S)
  BY SublistType
<1>4. PICK f \in [0 .. Len(all) -> Seq(StoredOf(S))] :
        Filters(f, all, J) /\ Sublist(all, J) = f[Len(all)]
  <2> DEFINE V == StoredOf(S)
  <2> HIDE DEF V
  <2>1. all \in Seq(V)
    BY <1>2 DEF V
  <2>2. \E f \in [0 .. Len(all) -> Seq(V)] : Filters(f, all, J) /\ Sublist(all, J) = f[Len(all)]
    BY <2>1, SublistSteps
  <2>3. QED
    BY <2>2 DEF V
<1> DEFINE Is(n) == /\ Fits(base, f[n])
                    /\ Refill(base, f[n]) = Sublist(nodes, K(n))
           T == {n \in 0 .. N : Is(n)}
<1>5. 0 \in T
  <2>1. f[0] = <<>> /\ <<>> \in Seq(StoredOf(S)) /\ Len(<<>>) = 0
    BY <1>4, EmptySeq DEF Filters
  <2>2. Fits(base, <<>>)
    BY <2>1 DEF Fits
  <2>3. Refill(base, <<>>) = base
    <3> DEFINE none == <<>>
    <3>0. none \in Seq(StoredOf(S)) /\ Len(none) = 0 /\ Fits(base, none)
      BY <2>1, <2>2
    <3> HIDE DEF none, base
    <3>1. PICK h \in [0 .. Len(none) -> Seq(S)] :
            /\ Refills(h, base, none)
            /\ Refill(base, none) = h[Len(none)]
      BY <1>3, <3>0, RefillSteps
    <3>2. Refill(base, none) = base
      BY <3>0, <3>1 DEF Refills
    <3>3. QED
      BY <3>2 DEF none
  <2>4. K(0) = (1 .. N) \ J
    OBVIOUS
  <2> HIDE DEF K
  <2>5. Is(0)
    BY <2>1, <2>2, <2>3, <2>4
  <2> HIDE DEF Is
  <2>6. QED
    BY <1>1, <2>5
<1>6. ASSUME NEW n \in 0 .. N - 1, n \in T
      PROVE  n + 1 \in T
  <2>1. n + 1 \in 1 .. N /\ n + 1 \in 0 .. N /\ n \in 0 .. N
    BY <1>1
  <2>2. f[n + 1] = IF n + 1 \in J THEN Append(f[n], all[n + 1]) ELSE f[n]
    BY <1>2, <1>4, FilterStep
  <2>3. f[n] \in Seq(StoredOf(S))
    BY <1>2, <1>4, <2>1
  <2>4. Is(n)
    BY <1>6
  <2>5. CASE n + 1 \notin J
    <3>1. K(n + 1) = K(n)
      BY <2>1, <2>5
    <3> HIDE DEF K
    <3>2. Is(n + 1)
      BY <2>2, <2>4, <2>5, <3>1
    <3> HIDE DEF Is
    <3>3. QED
      BY <2>1, <3>2
  <2>6. CASE n + 1 \in J
    <3>1. K(n + 1) = K(n) \cup {n + 1}
      BY <2>1
    <3>2. n + 1 \notin K(n) /\ \A m \in 1 .. n : m \in K(n)
      BY <2>1, <2>6
    <3> DEFINE x == all[n + 1]
               L == K(n)
               i == n + 1
    <3>3. /\ i \in 1 .. N /\ i \notin L
          /\ \A m \in 1 .. i - 1 : m \in L
      BY <2>1, <3>2
    <3> HIDE DEF L, i
    <3>4. /\ i \in 1 .. Len(Sublist(nodes, L)) + 1
          /\ InsertAt(Sublist(nodes, L), i, nodes[i]) = Sublist(nodes, L \cup {i})
      BY <3>3, SublistInsert
    <3>5. x \in StoredOf(S) /\ x.storage_index = n /\ x.node = nodes[n + 1] /\ x.storage_index + 1 = n + 1
      <4>1. x \in StoredOf(S)
        BY <1>2, <2>1, ElementOfSeq
      <4>2. x = [storage_index |-> n, node |-> nodes[n + 1]]
        BY <1>2, <2>1
      <4>3. QED
        BY <4>1, <4>2, <2>1
    <3> HIDE DEF x
    <3>6. Refill(base, f[n]) = Sublist(nodes, L) /\ Fits(base, f[n])
      BY <2>4 DEF L
    <3>7. Len(Refill(base, f[n])) = Len(base) + Len(f[n])
      <4> DEFINE l == f[n]
      <4>1. l \in Seq(StoredOf(S)) /\ Fits(base, l)
        BY <2>3, <3>6
      <4> HIDE DEF l, base
      <4>2. PICK h \in [0 .. Len(l) -> Seq(S)] :
              /\ \A k \in 0 .. Len(l) : Len(h[k]) = Len(base) + k
              /\ Refill(base, l) = h[Len(l)]
        BY <1>3, <4>1, RefillSteps
      <4>3. Len(l) \in 0 .. Len(l)
        BY <4>1, LenProperties
      <4>4. QED
        BY <4>2, <4>3 DEF l
    <3>8. x.storage_index <= Len(base) + Len(f[n])
      BY <3>4, <3>5, <3>6, <3>7, <2>1, <1>3, <2>3, LenProperties DEF i
    <3> DEFINE l == f[n]
    <3>9. l \in Seq(StoredOf(S)) /\ Fits(base, l) /\ x.storage_index <= Len(base) + Len(l)
      BY <2>3, <3>6, <3>8
    <3> HIDE DEF base, l
    <3>10. /\ Fits(base, Append(l, x))
           /\ Refill(base, Append(l, x)) = InsertAt(Refill(base, l), x.storage_index + 1, x.node)
      BY <1>3, <3>5, <3>9, RefillAppend
    <3>11. f[n + 1] = Append(l, x)
      BY <2>2, <2>6 DEF l, x
    <3>12. Fits(base, f[n + 1]) /\ Refill(base, f[n + 1]) = Sublist(nodes, L \cup {i})
      BY <3>4, <3>5, <3>6, <3>10, <3>11 DEF l, i
    <3>13. Is(n + 1)
      BY <3>1, <3>12 DEF L, i
    <3> HIDE DEF Is
    <3>14. QED
      BY <2>1, <3>13
  <2>7. QED
    BY <2>5, <2>6
<1> HIDE DEF T
<1>7. 0 .. N \subseteq T
  BY <1>1, <1>5, <1>6, BoundedInduction
<1>8. Is(N)
  <2>1. N \in T
    BY <1>1, <1>7
  <2> HIDE DEF Is
  <2>2. QED
    BY <2>1 DEF T
<1>9. 1 .. N \subseteq K(N)
  OBVIOUS
<1> HIDE DEF K
<1>10. Sublist(nodes, K(N)) = nodes
  BY <1>9, SublistAll
<1>11. f[N] \in Seq(StoredOf(S))
  BY <1>1, <1>2, <1>4
<1>12. QED
  BY <1>2, <1>4, <1>8, <1>10, <1>11 DEF all

-----------------------------------------------------------------------------
(* Trees *)

UniqueIds(nodes) == \A i, j \in DOMAIN nodes : nodes[i].id = nodes[j].id => i = j

(* A node is found by its id.                                               *)
LEMMA NodeAt ==
  ASSUME NEW tree \in Trees, UniqueIds(tree.nodes)
  PROVE  /\ \A i \in DOMAIN tree.nodes :
              /\ IndexOf(tree, tree.nodes[i].id) = i
              /\ Node(tree, tree.nodes[i].id) = tree.nodes[i]
              /\ tree.nodes[i].id \in Ids(tree)
         /\ \A id \in Ids(tree) :
              /\ IndexOf(tree, id) \in DOMAIN tree.nodes
              /\ tree.nodes[IndexOf(tree, id)] = Node(tree, id)
              /\ Node(tree, id) \in NodeRecords
              /\ Node(tree, id).id = id
<1> DEFINE N == tree.nodes
<1>1. N \in Seq(NodeRecords)
  BY DEF Trees
<1>2. \A i \in DOMAIN N : N[i] \in NodeRecords
  BY <1>1, ElementOfSeq, LenProperties
<1>3. ASSUME NEW i \in DOMAIN N
      PROVE  /\ IndexOf(tree, N[i].id) = i
             /\ Node(tree, N[i].id) = N[i]
             /\ N[i].id \in Ids(tree)
  <2>1. \A j \in DOMAIN N : N[j].id = N[i].id <=> j = i
    BY <1>3 DEF UniqueIds
  <2>2. IndexOf(tree, N[i].id) = i
    BY <2>1, <1>3 DEF IndexOf
  <2>3. Node(tree, N[i].id) = N[i]
    BY <2>2 DEF Node
  <2>4. N[i].id \in Ids(tree)
    BY <1>3 DEF Ids, Range
  <2>5. QED
    BY <2>2, <2>3, <2>4
<1>4. ASSUME NEW id \in Ids(tree)
      PROVE  /\ IndexOf(tree, id) \in DOMAIN N
             /\ N[IndexOf(tree, id)] = Node(tree, id)
             /\ Node(tree, id) \in NodeRecords
             /\ Node(tree, id).id = id
  <2>1. PICK i \in DOMAIN N : N[i].id = id
    BY <1>4 DEF Ids, Range
  <2>2. QED
    BY <2>1, <1>2, <1>3 DEF Node
<1>5. QED
  BY <1>3, <1>4

(* The ids of a tree are node ids. *)
LEMMA IdsTyped ==
  ASSUME NEW tree \in Trees
  PROVE  Ids(tree) \subseteq NodeIds
<1>1. tree.nodes \in Seq(NodeRecords)
  BY DEF Trees
<1>2. \A i \in DOMAIN tree.nodes : tree.nodes[i] \in NodeRecords
  BY <1>1, ElementOfSeq, LenProperties
<1>3. ASSUME NEW id \in Ids(tree)
      PROVE  id \in NodeIds
  <2>1. PICK i \in DOMAIN tree.nodes : tree.nodes[i].id = id
    BY <1>3 DEF Ids, Range
  <2>2. QED
    BY <2>1, <1>2 DEF NodeRecords
<1>4. QED
  BY <1>3

(* The next id is the only thing a tree has besides its nodes, and no       *)
(* question about the nodes depends on it: these are the operators of       *)
(* MoveTree as functions of the nodes.                                      *)
IdsIn(nodes) == {node.id : node \in Range(nodes)}

IndexIn(nodes, id) == CHOOSE i \in DOMAIN nodes : nodes[i].id = id

NodeIn(nodes, id) == nodes[IndexIn(nodes, id)]

ChildrenIn(nodes, id) == NodeIn(nodes, id).children

SiblingIn(nodes, id) ==
  LET siblings == ChildrenIn(nodes, NodeIn(nodes, id).parent)
  IN  CHOOSE i \in 0 .. Len(siblings) - 1 : siblings[i + 1] = id

SubtreeIn(nodes, id) ==
  LET below[n \in 0 .. Len(nodes)] ==
        IF n = 0 THEN {id}
        ELSE LET above == below[n - 1]
             IN  above \cup UNION {Range(ChildrenIn(nodes, node)) : node \in above}
  IN  below[Len(nodes)]

StoredIn(nodes, ids) ==
  Sublist([i \in DOMAIN nodes |-> [storage_index |-> i - 1, node |-> nodes[i]]],
          {i \in DOMAIN nodes : nodes[i].id \in ids})

(* Two trees with the same nodes agree on everything but the next id.       *)
LEMMA SameNodes ==
  ASSUME NEW tree, NEW other, other.nodes = tree.nodes
  PROVE  /\ Ids(other) = Ids(tree)
         /\ \A id : IndexOf(other, id) = IndexOf(tree, id)
         /\ \A id : Node(other, id) = Node(tree, id)
         /\ \A id : Children(other, id) = Children(tree, id)
         /\ \A id : Subtree(other, id) = Subtree(tree, id)
         /\ \A id : SiblingIndex(other, id) = SiblingIndex(tree, id)
         /\ \A ids : Stored(other, ids) = Stored(tree, ids)
         /\ WellFormed(other) <=> WellFormed(tree)
<1>1. \A t : Ids(t) = IdsIn(t.nodes)
  BY DEF Ids, IdsIn
<1>2. \A t, id : IndexOf(t, id) = IndexIn(t.nodes, id)
  BY DEF IndexOf, IndexIn
<1>3. \A t, id : Node(t, id) = NodeIn(t.nodes, id)
  BY <1>2 DEF Node, NodeIn
<1>4. \A t, id : Children(t, id) = ChildrenIn(t.nodes, id)
  BY <1>3 DEF Children, ChildrenIn
<1>5. \A t, id : Subtree(t, id) = SubtreeIn(t.nodes, id)
  <2> TAKE t, id
  <2>1. QED
    BY DEF Subtree, SubtreeIn, Children, ChildrenIn, Node, NodeIn, IndexOf, IndexIn
<1>6. \A t, id : SiblingIndex(t, id) = SiblingIn(t.nodes, id)
  <2> TAKE t, id
  <2>1. QED
    BY DEF SiblingIndex, SiblingIn, Children, ChildrenIn, Node, NodeIn, IndexOf, IndexIn
<1>7. \A t, ids : Stored(t, ids) = StoredIn(t.nodes, ids)
  BY DEF Stored, StoredIn
<1>8. Ids(other) = Ids(tree)
  BY <1>1
<1>9. \A id : Node(other, id) = Node(tree, id)
  BY <1>3
<1>10. \A id : Children(other, id) = Children(tree, id)
  BY <1>4
<1>11. \A id : Subtree(other, id) = Subtree(tree, id)
  BY <1>5
<1>12. WellFormed(other) <=> WellFormed(tree)
  BY <1>8, <1>9, <1>10, <1>11 DEF WellFormed
<1>13. QED
  BY <1>2, <1>6, <1>7, <1>8, <1>9, <1>10, <1>11, <1>12

(* The nodes after an update, and what they still agree on.                 *)
LEMMA UpdateNode ==
  ASSUME NEW tree \in Trees, UniqueIds(tree.nodes),
         NEW node \in NodeRecords, node.id \in Ids(tree)
  PROVE  /\ Update(tree, node) \in Trees
         /\ Update(tree, node).next = tree.next
         /\ Update(tree, node).nodes = [tree.nodes EXCEPT ![IndexOf(tree, node.id)] = node]
         /\ Len(Update(tree, node).nodes) = Len(tree.nodes)
         /\ UniqueIds(Update(tree, node).nodes)
         /\ \A i \in DOMAIN tree.nodes : Update(tree, node).nodes[i].id = tree.nodes[i].id
         /\ Ids(Update(tree, node)) = Ids(tree)
         /\ \A id \in Ids(tree) :
              Node(Update(tree, node), id) = IF id = node.id THEN node ELSE Node(tree, id)
<1> DEFINE N == tree.nodes
           t == Update(tree, node)
           k == IndexOf(tree, node.id)
<1>1. N \in Seq(NodeRecords) /\ tree.next \in NodeIds
  BY DEF Trees
<1>2. k \in DOMAIN N /\ N[k].id = node.id
  BY NodeAt
<1>3. t.nodes = [N EXCEPT ![k] = node] /\ t.next = tree.next
  BY DEF Update, Trees
<1>4. t = [nodes |-> t.nodes, next |-> t.next]
  BY DEF Update, Trees
<1>5. t.nodes \in Seq(NodeRecords) /\ Len(t.nodes) = Len(N) /\ DOMAIN t.nodes = DOMAIN N
  BY <1>1, <1>2, <1>3, ExceptSeq, LenProperties
<1>6. t \in Trees
  BY <1>1, <1>3, <1>4, <1>5 DEF Trees
<1>7. \A i \in DOMAIN N : t.nodes[i].id = N[i].id
  BY <1>2, <1>3
<1>8. UniqueIds(t.nodes)
  BY <1>5, <1>7 DEF UniqueIds
<1>9. \A id : id \in Ids(t) <=> \E i \in DOMAIN t.nodes : t.nodes[i].id = id
  BY DEF Ids, Range
<1>10. \A id : id \in Ids(tree) <=> \E i \in DOMAIN N : N[i].id = id
  BY DEF Ids, Range
<1>11. Ids(t) = Ids(tree)
  BY <1>5, <1>7, <1>9, <1>10
<1>12. ASSUME NEW id \in Ids(tree)
       PROVE  Node(t, id) = IF id = node.id THEN node ELSE Node(tree, id)
  <2>1. PICK i \in DOMAIN N : N[i].id = id
    BY <1>10
  <2>2. Node(tree, id) = N[i]
    BY <2>1, NodeAt
  <2>3. \A j \in DOMAIN t.nodes : Node(t, t.nodes[j].id) = t.nodes[j]
    BY <1>6, <1>8, NodeAt
  <2>4. Node(t, id) = t.nodes[i]
    BY <2>1, <2>3, <1>5, <1>7
  <2>5. i = k <=> id = node.id
    BY <2>1, <1>2 DEF UniqueIds
  <2>6. QED
    BY <2>1, <2>2, <2>4, <2>5, <1>2, <1>3
<1>13. QED
  BY <1>3, <1>5, <1>6, <1>7, <1>8, <1>11, <1>12

(* Updating a node a second time leaves the second value, so that putting   *)
(* the old value back gives the old nodes, whatever the next id is by then. *)
LEMMA UpdateTwice ==
  ASSUME NEW tree \in Trees, UniqueIds(tree.nodes),
         NEW node \in NodeRecords, node.id \in Ids(tree),
         NEW t \in Trees, t.nodes = Update(tree, node).nodes
  PROVE  /\ \A again \in NodeRecords : again.id = node.id =>
               Update(t, again).nodes = Update(tree, again).nodes
         /\ Update(t, Node(tree, node.id)).nodes = tree.nodes
<1> DEFINE N == tree.nodes
           k == IndexOf(tree, node.id)
<1>1. N \in Seq(NodeRecords) /\ k \in DOMAIN N
  BY NodeAt DEF Trees
<1>2. /\ t.nodes = [N EXCEPT ![k] = node]
      /\ Len(t.nodes) = Len(N)
      /\ UniqueIds(t.nodes)
      /\ \A i \in DOMAIN N : t.nodes[i].id = N[i].id
  BY UpdateNode
<1>3. N[k] = Node(tree, node.id) /\ N[k].id = node.id /\ N[k] \in NodeRecords
  BY NodeAt
<1>4. IndexOf(t, node.id) = k
  <2>1. k \in DOMAIN t.nodes /\ t.nodes[k].id = node.id
    BY <1>1, <1>2, <1>3
  <2>2. QED
    BY <2>1, <1>2, NodeAt
<1>5. node.id \in Ids(t)
  BY <1>1, <1>2, <1>3 DEF Ids, Range
<1>6. ASSUME NEW again \in NodeRecords, again.id = node.id
      PROVE  /\ Update(t, again).nodes = [t.nodes EXCEPT ![k] = again]
             /\ Update(t, again).nodes = Update(tree, again).nodes
  <2>1. Update(t, again).nodes = [t.nodes EXCEPT ![k] = again]
    BY <1>2, <1>4, <1>5, <1>6, UpdateNode
  <2>2. Update(tree, again).nodes = [N EXCEPT ![k] = again]
    BY <1>6, UpdateNode
  <2>3. QED
    BY <2>1, <2>2, <1>2
<1>7. Update(t, Node(tree, node.id)).nodes = [N EXCEPT ![k] = N[k]]
  BY <1>2, <1>3, <1>6
<1>8. [N EXCEPT ![k] = N[k]] = N
  BY <1>1, ExceptSeq, SeqEqual, LenProperties, <1>3
<1>9. \A again \in NodeRecords : again.id = node.id =>
        Update(t, again).nodes = Update(tree, again).nodes
  BY <1>6
<1>10. QED
  BY <1>7, <1>8, <1>9

(* What the walks over a valid tree may rely on.                            *)
LEMMA TreeShape ==
  ASSUME NEW tree \in Trees, WellFormed(tree)
  PROVE  /\ UniqueIds(tree.nodes)
         /\ 1 \in DOMAIN tree.nodes /\ tree.nodes[1].id = Root
         /\ Root \in Ids(tree)
         /\ \A id \in Ids(tree) \ {Root} :
              /\ Node(tree, id).parent \in Ids(tree)
              /\ \E k \in 1 .. Len(Children(tree, Node(tree, id).parent)) :
                   Children(tree, Node(tree, id).parent)[k] = id
         /\ \A id \in Ids(tree) :
              /\ Children(tree, id) \in Seq(NodeIds)
              /\ IsInjective(Children(tree, id))
              /\ Range(Children(tree, id)) \subseteq Ids(tree) \ {Root}
              /\ \A child \in Range(Children(tree, id)) : Node(tree, child).parent = id
         /\ Subtree(tree, Root) = Ids(tree)
<1> DEFINE N == tree.nodes
<1>1. N \in Seq(NodeRecords) /\ N # <<>>
  BY DEF Trees, WellFormed
<1>2. 1 \in DOMAIN N
  BY <1>1, EmptySeq, LenProperties
<1>3. UniqueIds(N)
  BY DEF WellFormed, UniqueIds
<1>4. N[1].id = Root /\ N[1].parent = None
  BY <1>2 DEF WellFormed
<1>5. /\ Root \in Ids(tree)
      /\ Node(tree, Root) = N[1]
  BY <1>2, <1>3, <1>4, NodeAt
<1>6. ASSUME NEW id \in Ids(tree) \ {Root}
      PROVE  /\ Node(tree, id).parent \in Ids(tree)
             /\ Children(tree, Node(tree, id).parent) \in Seq(NodeIds)
             /\ \E k \in 1 .. Len(Children(tree, Node(tree, id).parent)) :
                  Children(tree, Node(tree, id).parent)[k] = id
  <2>1. PICK i \in DOMAIN N : N[i].id = id
    BY <1>6 DEF Ids, Range
  <2>2. i \in DOMAIN N \ {1} /\ Node(tree, id) = N[i]
    BY <2>1, <1>3, <1>4, <1>6, NodeAt
  <2>3. /\ N[i].parent \in Ids(tree)
        /\ \E k \in DOMAIN Children(tree, N[i].parent) :
             Children(tree, N[i].parent)[k] = N[i].id
    BY <2>2 DEF WellFormed
  <2>4. Children(tree, N[i].parent) \in Seq(NodeIds)
    BY <2>3, <1>3, NodeAt DEF Children, NodeRecords
  <2>5. DOMAIN Children(tree, N[i].parent) = 1 .. Len(Children(tree, N[i].parent))
    BY <2>4, LenProperties
  <2>6. QED
    BY <2>1, <2>2, <2>3, <2>4, <2>5
<1>7. ASSUME NEW id \in Ids(tree)
      PROVE  /\ Children(tree, id) \in Seq(NodeIds)
             /\ IsInjective(Children(tree, id))
             /\ Range(Children(tree, id)) \subseteq Ids(tree) \ {Root}
             /\ \A child \in Range(Children(tree, id)) : Node(tree, child).parent = id
  <2>1. PICK i \in DOMAIN N : N[i].id = id
    BY <1>7 DEF Ids, Range
  <2>2. Node(tree, id) = N[i] /\ N[i] \in Range(N)
    BY <2>1, <1>3, NodeAt DEF Range
  <2>3. /\ IsInjective(N[i].children)
        /\ \A child \in Range(N[i].children) :
             child \in Ids(tree) /\ Node(tree, child).parent = N[i].id
    BY <2>2 DEF WellFormed
  <2>4. Children(tree, id) = N[i].children /\ N[i].children \in Seq(NodeIds)
    BY <2>2, <1>3, <1>7, NodeAt DEF Children, NodeRecords
  <2>5. id # None
    BY <1>3, <1>7, NodeAt, NodeIdAssumption DEF NodeRecords, NodeIds
  <2>6. \A child \in Range(N[i].children) : child # Root
    BY <2>1, <2>3, <2>5, <1>4, <1>5
  <2>7. QED
    BY <2>1, <2>3, <2>4, <2>6
<1>8. Subtree(tree, Root) = Ids(tree)
  BY DEF WellFormed
<1>9. QED
  BY <1>2, <1>3, <1>4, <1>5, <1>6, <1>7, <1>8

(* Subtree goes down one generation in each step.                           *)
Descends(f, tree, id) ==
  /\ f[0] = {id}
  /\ \A n \in 1 .. Len(tree.nodes) :
       f[n] = f[n - 1] \cup UNION {Range(Children(tree, node)) : node \in f[n - 1]}

(* The closure of Subtree level by level, each a set of nodes of the tree. *)
LEMMA SubtreeSteps ==
  ASSUME NEW tree \in Trees, NEW id \in Ids(tree),
         \A node \in Ids(tree) : Range(Children(tree, node)) \subseteq Ids(tree)
  PROVE  \E f \in [0 .. Len(tree.nodes) -> SUBSET Ids(tree)] :
           Descends(f, tree, id) /\ Subtree(tree, id) = f[Len(tree.nodes)]
<1> DEFINE N == Len(tree.nodes)
           V == SUBSET Ids(tree)
           down(A) == A \cup UNION {Range(Children(tree, node)) : node \in A}
           start == {id}
           step == [p \in (1 .. N) \X V |-> down(p[2])]
           Is(g) == g = [n \in 0 .. N |->
                           IF n = 0 THEN {id}
                           ELSE LET above == g[n - 1]
                                IN  above \cup UNION {Range(Children(tree, node)) : node \in above}]
           first == CHOOSE g : Is(g)
<1>1. N \in Nat
  BY LenProperties DEF Trees
<1>2. start \in V
  OBVIOUS
<1>3. \A A \in V : down(A) \in V
  OBVIOUS
<1>4. step \in [(1 .. N) \X V -> V]
  BY <1>3
<1>5. PICK f \in [0 .. N -> V] : Computes(f, N, start, step)
  <2> HIDE DEF N, V, start, step
  <2>1. QED
    BY <1>1, <1>2, <1>4, RecursionExists
<1>6. f[0] = {id}
  BY <1>5 DEF Computes
<1>7. \A n \in 1 .. N : f[n] = down(f[n - 1])
  <2> TAKE n \in 1 .. N
  <2>1. f[n] = step[<<n, f[n - 1]>>]
    BY <1>5 DEF Computes
  <2>2. f[n - 1] \in V
    BY <1>1, <1>5
  <2>3. QED
    BY <2>1, <2>2
<1>8. Is(f)
  <2> DEFINE body(n) == IF n = 0 THEN {id} ELSE down(f[n - 1])
  <2>1. \A n \in 0 .. N : f[n] = body(n)
    BY <1>1, <1>6, <1>7
  <2>2. f = [n \in 0 .. N |-> body(n)]
    <3> HIDE DEF body, V
    <3>1. QED
      BY <2>1, <1>5
  <2>3. QED
    BY <2>2
<1>9. Is(first)
  BY <1>8
<1>10. Subtree(tree, id) = first[N]
  BY DEF Subtree
<1>11. first = f
  <2> DEFINE T == {n \in 0 .. N : first[n] = f[n]}
  <2> HIDE DEF first
  <2>1. DOMAIN first = 0 .. N /\ first[0] = {id}
    BY <1>9, <1>1
  <2>2. \A n \in 1 .. N : first[n] = down(first[n - 1])
    <3> TAKE n \in 1 .. N
    <3>1. n \in 0 .. N /\ n # 0
      BY <1>1
    <3> HIDE DEF N
    <3>2. QED
      BY <3>1, <1>9
  <2>3. 0 \in T
    BY <2>1, <1>1, <1>6
  <2>4. ASSUME NEW n \in 0 .. N - 1, n \in T
        PROVE  n + 1 \in T
    <3>1. n + 1 \in 1 .. N /\ n + 1 - 1 = n
      BY <1>1
    <3>2. first[n] = f[n]
      BY <2>4
    <3>3. first[n + 1] = down(first[n + 1 - 1]) /\ f[n + 1] = down(f[n + 1 - 1])
      BY <3>1, <2>2, <1>7
    <3>4. first[n + 1] = f[n + 1]
      BY <3>1, <3>2, <3>3
    <3>5. QED
      BY <3>1, <3>4
  <2>5. 0 .. N \subseteq T
    <3> HIDE DEF T, N
    <3>1. QED
      BY <1>1, <2>3, <2>4, BoundedInduction
  <2>6. \A n \in 0 .. N : first[n] = f[n]
    BY <2>5
  <2>7. first = [n \in 0 .. N |-> first[n]] /\ f = [n \in 0 .. N |-> f[n]]
    BY <1>5, <1>9
  <2>8. QED
    BY <2>6, <2>7
<1>12. Descends(f, tree, id)
  BY <1>6, <1>7 DEF Descends
<1>13. QED
  BY <1>5, <1>10, <1>11, <1>12

(* A subtree holds its root; every other node of it is a child of one in it. *)
LEMMA SubtreeFacts ==
  ASSUME NEW tree \in Trees, NEW id \in Ids(tree),
         \A node \in Ids(tree) : Range(Children(tree, node)) \subseteq Ids(tree)
  PROVE  /\ Subtree(tree, id) \subseteq Ids(tree)
         /\ id \in Subtree(tree, id)
         /\ \A x \in Subtree(tree, id) \ {id} :
              \E y \in Subtree(tree, id) : x \in Range(Children(tree, y))
<1> DEFINE N == Len(tree.nodes)
<1>1. PICK f \in [0 .. N -> SUBSET Ids(tree)] :
        Descends(f, tree, id) /\ Subtree(tree, id) = f[N]
  BY SubtreeSteps
<1>2. N \in Nat
  BY LenProperties DEF Trees
<1> DEFINE P(n) == /\ id \in f[n]
                   /\ \A x \in f[n] \ {id} : \E y \in f[n] : x \in Range(Children(tree, y))
           T == {n \in 0 .. N : P(n)}
<1>3. 0 \in T
  BY <1>1, <1>2 DEF Descends
<1>4. ASSUME NEW n \in 0 .. N - 1, n \in T
      PROVE  n + 1 \in T
  <2>1. n + 1 \in 1 .. N /\ n + 1 - 1 = n
    BY <1>2
  <2>2. f[n + 1] = f[n] \cup UNION {Range(Children(tree, node)) : node \in f[n]}
    BY <2>1, <1>1 DEF Descends
  <2>3. P(n)
    BY <1>4
  <2>4. P(n + 1)
    BY <2>2, <2>3
  <2>5. QED
    BY <2>1, <2>4
<1>5. 0 .. N \subseteq T
  <2> HIDE DEF T, N
  <2>1. QED
    BY <1>2, <1>3, <1>4, BoundedInduction
<1>6. P(N)
  BY <1>2, <1>5
<1>7. QED
  BY <1>1, <1>2, <1>6

(* It lies within every set that has its root and the children of its own.  *)
LEMMA SubtreeWithin ==
  ASSUME NEW tree \in Trees, NEW id \in Ids(tree),
         \A node \in Ids(tree) : Range(Children(tree, node)) \subseteq Ids(tree),
         NEW X, id \in X,
         \A node \in Ids(tree) \cap X : Range(Children(tree, node)) \subseteq X
  PROVE  Subtree(tree, id) \subseteq X
<1> DEFINE N == Len(tree.nodes)
<1>1. PICK f \in [0 .. N -> SUBSET Ids(tree)] :
        Descends(f, tree, id) /\ Subtree(tree, id) = f[N]
  BY SubtreeSteps
<1>2. N \in Nat
  BY LenProperties DEF Trees
<1> DEFINE T == {n \in 0 .. N : f[n] \subseteq X}
<1>3. 0 \in T
  BY <1>1, <1>2 DEF Descends
<1>4. ASSUME NEW n \in 0 .. N - 1, n \in T
      PROVE  n + 1 \in T
  <2>1. n + 1 \in 1 .. N /\ n + 1 - 1 = n
    BY <1>2
  <2>2. f[n + 1] = f[n] \cup UNION {Range(Children(tree, node)) : node \in f[n]}
    BY <2>1, <1>1 DEF Descends
  <2>3. f[n] \subseteq X \cap Ids(tree)
    BY <1>1, <1>2, <1>4
  <2>4. f[n + 1] \subseteq X
    BY <2>2, <2>3
  <2>5. QED
    BY <2>1, <2>4
<1>5. 0 .. N \subseteq T
  <2> HIDE DEF T, N
  <2>1. QED
    BY <1>2, <1>3, <1>4, BoundedInduction
<1>6. QED
  BY <1>1, <1>2, <1>5

(* A set of node ids has a largest one.                                     *)
LEMMA LargestId ==
  ASSUME NEW S, S \subseteq NodeIds, S # {}
  PROVE  Max(S) \in S /\ \A x \in S : x <= Max(S)
<1>1. MaxNodeId \in Nat /\ \A x \in S : x \in 0 .. MaxNodeId
  BY NodeIdAssumption DEF NodeIds
<1>2. \E m \in S : \A x \in S : m >= x
  <2> SUFFICES ASSUME \A m \in S : \E x \in S : ~(m >= x)
               PROVE  FALSE
    OBVIOUS
  <2> DEFINE T == {n \in 0 .. MaxNodeId : \E x \in S : x >= n}
  <2>1. 0 \in T
    BY <1>1
  <2>2. ASSUME NEW n \in 0 .. MaxNodeId - 1, n \in T
        PROVE  n + 1 \in T
    <3>1. PICK x \in S : x >= n
      BY <2>2
    <3>2. PICK y \in S : ~(x >= y)
      OBVIOUS
    <3>3. y >= n + 1
      BY <1>1, <3>1, <3>2
    <3>4. QED
      BY <1>1, <3>3
  <2>3. 0 .. MaxNodeId \subseteq T
    <3> HIDE DEF T
    <3>1. QED
      BY <1>1, <2>1, <2>2, BoundedInduction
  <2>4. PICK x \in S : x >= MaxNodeId
    BY <1>1, <2>3
  <2>5. PICK y \in S : ~(x >= y)
    OBVIOUS
  <2>6. QED
    BY <1>1, <2>4, <2>5
<1>3. Max(S) \in S /\ \A x \in S : Max(S) >= x
  BY <1>2 DEF Max
<1>4. QED
  BY <1>1, <1>3

(* What rebuildIndex returns is a tree with the nodes it was given.         *)
LEMMA ReindexedTree ==
  ASSUME NEW nodes \in Seq(NodeRecords), nodes # <<>>, NEW next \in NodeIds
  PROVE  /\ Reindexed(nodes, next) \in Trees
         /\ Reindexed(nodes, next).nodes = nodes
<1> DEFINE S == {node.id : node \in Range(nodes)}
           highest == Max(S)
<1>1. nodes[1] \in Range(nodes) /\ \A node \in Range(nodes) : node \in NodeRecords
  BY EmptySeq, LenProperties, ElementOfSeq DEF Range
<1>2. S \subseteq NodeIds /\ S # {}
  BY <1>1 DEF NodeRecords
<1>3. highest \in NodeIds
  BY <1>2, LargestId
<1>4. ASSUME highest # MaxNodeId
      PROVE  Max({next, highest + 1}) \in NodeIds
  <2>1. highest + 1 \in NodeIds
    BY <1>3, <1>4, NodeIdAssumption DEF NodeIds
  <2>2. {next, highest + 1} \subseteq NodeIds /\ {next, highest + 1} # {}
    BY <2>1
  <2>3. QED
    BY <2>2, LargestId
<1>5. MaxNodeId \in NodeIds
  BY NodeIdAssumption DEF NodeIds
<1>6. Reindexed(nodes, next) =
        [nodes |-> nodes,
         next |-> IF highest = MaxNodeId THEN MaxNodeId ELSE Max({next, highest + 1})]
  BY DEF Reindexed
<1>7. QED
  <2> HIDE DEF highest
  <2>1. QED
    BY <1>4, <1>5, <1>6 DEF Trees

(* Giving a node other children.                                            *)
WithChildren(tree, id, list) == [Node(tree, id) EXCEPT !.children = list]

HasChildren(t, tree, id, list) ==
  /\ t \in Trees
  /\ t.next = tree.next
  /\ t.nodes = [tree.nodes EXCEPT ![IndexOf(tree, id)] = WithChildren(tree, id, list)]
  /\ Len(t.nodes) = Len(tree.nodes)
  /\ UniqueIds(t.nodes)
  /\ \A i \in DOMAIN tree.nodes : t.nodes[i].id = tree.nodes[i].id
  /\ Ids(t) = Ids(tree)
  /\ \A x \in Ids(tree) :
       /\ Node(t, x) = IF x = id THEN WithChildren(tree, id, list) ELSE Node(tree, x)
       /\ Children(t, x) = IF x = id THEN list ELSE Children(tree, x)

(* SetChildren replaces one node, by the same node with other children. *)
LEMMA SetChildrenNodes ==
  ASSUME NEW tree \in Trees, UniqueIds(tree.nodes), NEW id \in Ids(tree),
         NEW list \in Seq(NodeIds)
  PROVE  /\ WithChildren(tree, id, list) \in NodeRecords
         /\ WithChildren(tree, id, list).id = id
         /\ SetChildren(tree, id, list) = Update(tree, WithChildren(tree, id, list))
         /\ HasChildren(SetChildren(tree, id, list), tree, id, list)
<1> DEFINE node == WithChildren(tree, id, list)
           t == SetChildren(tree, id, list)
<1>1. Node(tree, id) \in NodeRecords /\ Node(tree, id).id = id
  BY NodeAt
<1>2. node \in NodeRecords /\ node.id = id /\ node.children = list
  BY <1>1 DEF NodeRecords, WithChildren
<1>3. t = Update(tree, node)
  BY DEF SetChildren, WithChildren
<1>4. /\ Update(tree, node) \in Trees
      /\ Update(tree, node).next = tree.next
      /\ Update(tree, node).nodes = [tree.nodes EXCEPT ![IndexOf(tree, node.id)] = node]
      /\ Len(Update(tree, node).nodes) = Len(tree.nodes)
      /\ UniqueIds(Update(tree, node).nodes)
      /\ \A i \in DOMAIN tree.nodes : Update(tree, node).nodes[i].id = tree.nodes[i].id
      /\ Ids(Update(tree, node)) = Ids(tree)
      /\ \A x \in Ids(tree) :
           Node(Update(tree, node), x) = IF x = node.id THEN node ELSE Node(tree, x)
  BY <1>2, UpdateNode
<1>5. \A x \in Ids(tree) : Children(t, x) = IF x = id THEN list ELSE Children(tree, x)
  BY <1>2, <1>3, <1>4 DEF Children
<1>6. QED
  BY <1>2, <1>3, <1>4, <1>5 DEF HasChildren

(* The positions of the nodes that stay when some go, and what is there.     *)
Staying(nodes, gone) == {i \in DOMAIN nodes : nodes[i].id \notin gone}

Stay(left, nodes, gone) ==
  /\ left \in Seq(NodeRecords)
  /\ \A k \in DOMAIN left : \E i \in DOMAIN nodes :
       nodes[i].id \notin gone /\ left[k] = nodes[i]
  /\ \A i \in DOMAIN nodes : nodes[i].id \notin gone =>
       \E k \in DOMAIN left : left[k] = nodes[i]

(* The nodes that stay after removing some ids: their ids, and that each is *)
(* the node it was.                                                         *)
LEMMA SublistIds ==
  ASSUME NEW nodes \in Seq(NodeRecords), NEW gone
  PROVE  Stay(Sublist(nodes, Staying(nodes, gone)), nodes, gone)
<1> DEFINE I == Staying(nodes, gone)
           kept == Sublist(nodes, I)
<1>1. kept \in Seq(NodeRecords)
  BY SublistType
<1>2. DOMAIN nodes = 1 .. Len(nodes) /\ DOMAIN kept = 1 .. Len(kept)
  BY <1>1, LenProperties
<1>3. /\ \A k \in 1 .. Len(kept) : \E n \in 1 .. Len(nodes) : n \in I /\ kept[k] = nodes[n]
      /\ \A n \in 1 .. Len(nodes) : n \in I => \E k \in 1 .. Len(kept) : kept[k] = nodes[n]
  BY SublistElements
<1>4. \A n \in DOMAIN nodes : n \in I <=> nodes[n].id \notin gone
  BY DEF Staying
<1>5. \A k \in DOMAIN kept : \E i \in DOMAIN nodes :
        nodes[i].id \notin gone /\ kept[k] = nodes[i]
  BY <1>2, <1>3, <1>4
<1>6. \A i \in DOMAIN nodes : nodes[i].id \notin gone => \E k \in DOMAIN kept : kept[k] = nodes[i]
  BY <1>2, <1>3, <1>4
<1>7. QED
  BY <1>1, <1>5, <1>6 DEF Stay

(* The tree with a subtree cut off its parent, before the nodes of the      *)
(* subtree leave the storage.                                               *)
CutList(tree, id) == Without(Children(tree, Node(tree, id).parent), id)

Cut(tree, id) == SetChildren(tree, Node(tree, id).parent, CutList(tree, id))

(* A removal leaves the nodes outside the subtree as they are, except that  *)
(* the parent, which is none of those removed, loses a child.               *)
LEMMA RemoveShape ==
  ASSUME NEW tree \in Trees, WellFormed(tree), NEW id \in Ids(tree) \ {Root}
  PROVE  /\ Node(tree, id).parent \in Ids(tree)
         /\ CutList(tree, id) \in Seq(NodeIds)
         /\ Cut(tree, id) \in Trees
         /\ RemoveNode(tree, id).nodes =
              Sublist(Cut(tree, id).nodes, Staying(Cut(tree, id).nodes, Subtree(tree, id)))
         /\ RemoveNode(tree, id).nodes \in Seq(NodeRecords)
         /\ RemoveNode(tree, id).nodes # <<>> => RemoveNode(tree, id) \in Trees
<1> DEFINE parent == Node(tree, id).parent
           ch == Children(tree, parent)
           cut == Cut(tree, id)
           left == Sublist(cut.nodes, Staying(cut.nodes, Subtree(tree, id)))
<1>1. UniqueIds(tree.nodes) /\ parent \in Ids(tree)
  BY TreeShape
<1>2. /\ ch \in Seq(NodeIds) /\ IsInjective(ch)
      /\ \E k \in 1 .. Len(ch) : ch[k] = id
  BY <1>1, TreeShape
<1>3. CutList(tree, id) \in Seq(NodeIds)
  BY <1>2, WithoutOne DEF CutList
<1>4. cut \in Trees /\ cut.nodes \in Seq(NodeRecords)
  <2>1. HasChildren(cut, tree, parent, CutList(tree, id))
    BY <1>1, <1>3, SetChildrenNodes DEF Cut
  <2>2. QED
    BY <2>1 DEF HasChildren, Trees
<1>5. RemoveNode(tree, id) = Reindexed(left, tree.next)
  BY DEF RemoveNode, Cut, CutList, Staying
<1>6. left \in Seq(NodeRecords)
  BY <1>4, SublistIds DEF Stay
<1>7. tree.next \in NodeIds
  BY DEF Trees
<1>8. Reindexed(left, tree.next).nodes = left
  BY DEF Reindexed
<1>9. left # <<>> => Reindexed(left, tree.next) \in Trees
  <2> HIDE DEF left
  <2>1. QED
    BY <1>6, <1>7, ReindexedTree
<1>10. QED
  BY <1>1, <1>3, <1>4, <1>5, <1>6, <1>8, <1>9

(* removeNode takes a subtree out, unlinks its root and leaves every other  *)
(* node alone.                                                              *)
LEMMA RemoveKeeps ==
  ASSUME NEW tree \in Trees, WellFormed(tree), NEW id \in Ids(tree) \ {Root},
         WellFormed(RemoveNode(tree, id))
  PROVE  /\ RemoveNode(tree, id) \in Trees
         /\ Subtree(tree, id) \subseteq Ids(tree)
         /\ id \in Subtree(tree, id) /\ Root \notin Subtree(tree, id)
         /\ Node(tree, id).parent \in Ids(tree) \ Subtree(tree, id)
         /\ Ids(RemoveNode(tree, id)) = Ids(tree) \ Subtree(tree, id)
         /\ \A x \in Ids(RemoveNode(tree, id)) :
              Node(RemoveNode(tree, id), x) =
                IF x = Node(tree, id).parent
                THEN WithChildren(tree, Node(tree, id).parent, CutList(tree, id))
                ELSE Node(tree, x)
<1> DEFINE parent == Node(tree, id).parent
           list == CutList(tree, id)
           cut == Cut(tree, id)
           removed == Subtree(tree, id)
           rest == RemoveNode(tree, id)
<1>1. /\ parent \in Ids(tree)
      /\ list \in Seq(NodeIds)
      /\ cut \in Trees
      /\ rest.nodes = Sublist(cut.nodes, Staying(cut.nodes, removed))
      /\ rest.nodes # <<>> => rest \in Trees
  BY RemoveShape
<1>2. rest \in Trees
  BY <1>1 DEF WellFormed
<1>3. UniqueIds(tree.nodes)
  BY TreeShape
<1>4. HasChildren(cut, tree, parent, list)
  BY <1>1, <1>3, SetChildrenNodes DEF Cut
<1>5. Stay(rest.nodes, cut.nodes, removed)
  BY <1>1, SublistIds DEF Trees
<1>6. Ids(rest) = Ids(tree) \ removed
  <2>1. \A x : x \in Ids(rest) <=> \E k \in DOMAIN rest.nodes : rest.nodes[k].id = x
    BY DEF Ids, Range
  <2>2. \A x : x \in Ids(cut) <=> \E i \in DOMAIN cut.nodes : cut.nodes[i].id = x
    BY DEF Ids, Range
  <2>3. /\ rest.nodes \in Seq(NodeRecords)
        /\ \A k \in DOMAIN rest.nodes : \E i \in DOMAIN cut.nodes :
             cut.nodes[i].id \notin removed /\ rest.nodes[k] = cut.nodes[i]
        /\ \A i \in DOMAIN cut.nodes : cut.nodes[i].id \notin removed =>
             \E k \in DOMAIN rest.nodes : rest.nodes[k] = cut.nodes[i]
    BY <1>5 DEF Stay
  <2>4. Ids(cut) = Ids(tree)
    BY <1>4 DEF HasChildren
  <2> HIDE DEF cut, rest, removed
  <2>5. \A x \in Ids(rest) : x \in Ids(cut) /\ x \notin removed
    BY <2>1, <2>2, <2>3
  <2>6. \A x \in Ids(cut) : x \notin removed => x \in Ids(rest)
    BY <2>1, <2>2, <2>3
  <2>7. QED
    BY <2>4, <2>5, <2>6
<1>7. UniqueIds(rest.nodes) /\ Root \in Ids(rest)
  BY <1>2, TreeShape
<1>8. ASSUME NEW x \in Ids(rest)
      PROVE  Node(rest, x) = Node(cut, x)
  <2>1. PICK k \in DOMAIN rest.nodes : rest.nodes[k].id = x
    BY <1>8 DEF Ids, Range
  <2>2. PICK i \in DOMAIN cut.nodes : rest.nodes[k] = cut.nodes[i]
    BY <2>1, <1>5 DEF Stay
  <2>3. Node(rest, rest.nodes[k].id) = rest.nodes[k]
    BY <1>2, <1>7, NodeAt
  <2>4. Node(cut, cut.nodes[i].id) = cut.nodes[i]
    BY <1>1, <1>4, NodeAt DEF HasChildren
  <2>5. QED
    BY <2>1, <2>2, <2>3, <2>4
<1>9. \A node \in Ids(tree) :
        /\ Range(Children(tree, node)) \subseteq Ids(tree)
        /\ \A child \in Range(Children(tree, node)) : Node(tree, child).parent = node
  BY TreeShape
<1>10. /\ removed \subseteq Ids(tree) /\ id \in removed
       /\ \A x \in removed \ {id} : \E y \in removed : x \in Range(Children(tree, y))
  BY <1>9, SubtreeFacts
<1>11. parent \notin removed
  <2> SUFFICES ASSUME parent \in removed
               PROVE  FALSE
    OBVIOUS
  <2> DEFINE X == Ids(tree) \ removed
  <2>1. ASSUME NEW node \in Ids(tree) \cap X, NEW child \in Range(Children(tree, node)),
               child \in removed
        PROVE  FALSE
    <3>1. Node(tree, child).parent = node
      BY <2>1, <1>9
    <3>2. child # id
      BY <3>1, <2>1
    <3>3. PICK y \in removed : child \in Range(Children(tree, y))
      BY <3>2, <2>1, <1>10
    <3>4. Node(tree, child).parent = y
      BY <3>3, <1>9, <1>10
    <3>5. QED
      BY <3>1, <3>3, <3>4, <2>1
  <2>2. \A node \in Ids(tree) \cap X : Range(Children(tree, node)) \subseteq X
    BY <2>1, <1>9
  <2>3. Root \in X /\ Root \in Ids(tree)
    BY <1>6, <1>7
  <2>4. Subtree(tree, Root) \subseteq X
    <3> HIDE DEF X, removed
    <3>1. QED
      BY <2>2, <2>3, <1>9, SubtreeWithin
  <2>5. Subtree(tree, Root) = Ids(tree)
    BY TreeShape
  <2>6. QED
    BY <2>4, <2>5, <1>10
<1>12. QED
  BY <1>1, <1>2, <1>4, <1>6, <1>7, <1>8, <1>10, <1>11 DEF HasChildren

(* The children given last are the ones a node has; giving it the first     *)
(* ones again leaves the nodes as they were.                                *)
ChildrenAgain(t, tree, id, list, again) ==
  /\ id \in Ids(t) /\ UniqueIds(t.nodes)
  /\ Children(t, id) = list
  /\ SetChildren(t, id, again) \in Trees
  /\ SetChildren(t, id, again).nodes = SetChildren(tree, id, again).nodes
  /\ again = Children(tree, id) => SetChildren(t, id, again).nodes = tree.nodes

(* Giving a node other children a second time forgets the first time. *)
LEMMA SetChildrenTwice ==
  ASSUME NEW tree \in Trees, UniqueIds(tree.nodes), NEW id \in Ids(tree),
         NEW list \in Seq(NodeIds),
         NEW t \in Trees, t.nodes = SetChildren(tree, id, list).nodes,
         NEW again \in Seq(NodeIds)
  PROVE  ChildrenAgain(t, tree, id, list, again)
<1> DEFINE first == SetChildren(tree, id, list)
           node == WithChildren(tree, id, list)
           other == WithChildren(tree, id, again)
<1>1. /\ node \in NodeRecords /\ node.id = id
      /\ first = Update(tree, node)
      /\ HasChildren(first, tree, id, list)
  BY SetChildrenNodes
<1>2. /\ other \in NodeRecords /\ other.id = id
      /\ SetChildren(tree, id, again) = Update(tree, other)
  BY SetChildrenNodes
<1>3. Ids(t) = Ids(first) /\ Node(t, id) = Node(first, id) /\ Children(t, id) = Children(first, id)
  BY SameNodes
<1>4. /\ UniqueIds(t.nodes) /\ id \in Ids(t)
      /\ Node(t, id) = node /\ Children(t, id) = list
  BY <1>1, <1>3 DEF HasChildren
<1>5. Node(tree, id) \in NodeRecords
  BY NodeAt
<1>6. WithChildren(t, id, again) = other
  BY <1>4, <1>5 DEF WithChildren, NodeRecords
<1>7. SetChildren(t, id, again) = Update(t, other) /\ SetChildren(t, id, again) \in Trees
  <2>1. /\ SetChildren(t, id, again) = Update(t, WithChildren(t, id, again))
        /\ HasChildren(SetChildren(t, id, again), t, id, again)
    BY <1>4, SetChildrenNodes
  <2>2. QED
    BY <2>1, <1>6 DEF HasChildren
<1> HIDE DEF node, other
<1>8. t.nodes = Update(tree, node).nodes
  BY <1>1
<1>9. Update(t, other).nodes = Update(tree, other).nodes
  BY <1>1, <1>2, <1>8, UpdateTwice
<1>10. ASSUME again = Children(tree, id)
       PROVE  Update(t, other).nodes = tree.nodes
  <2>1. other = Node(tree, id)
    BY <1>5, <1>10 DEF other, WithChildren, Children, NodeRecords
  <2>2. Update(t, Node(tree, node.id)).nodes = tree.nodes
    BY <1>1, <1>8, UpdateTwice
  <2>3. QED
    BY <2>1, <2>2, <1>1
<1>11. QED
  BY <1>2, <1>4, <1>7, <1>9, <1>10 DEF ChildrenAgain

(* The place of a node among its siblings, and the siblings without it.     *)
Places(tree, id, siblings, place, rest) ==
  /\ place \in 0 .. Len(siblings) - 1
  /\ siblings[place + 1] = id
  /\ \A i \in 0 .. Len(siblings) - 1 : siblings[i + 1] = id => i = place
  /\ siblings \in Seq(NodeIds)
  /\ rest \in Seq(NodeIds)
  /\ Len(rest) = Len(siblings) - 1
  /\ InsertAt(rest, place + 1, id) = siblings
  /\ Range(rest) = Range(siblings) \ {id}

(* The index kept for undo is where the node stands among its siblings; put *)
(* back there, it restores their list.                                      *)
LEMMA SiblingPlace ==
  ASSUME NEW tree \in Trees, WellFormed(tree), NEW id \in Ids(tree) \ {Root}
  PROVE  Places(tree, id, Children(tree, Node(tree, id).parent), SiblingIndex(tree, id),
                CutList(tree, id))
<1> DEFINE siblings == Children(tree, Node(tree, id).parent)
           place == SiblingIndex(tree, id)
<1>1. Node(tree, id).parent \in Ids(tree)
  BY TreeShape
<1>2. siblings \in Seq(NodeIds) /\ IsInjective(siblings)
  BY <1>1, TreeShape
<1>3. PICK k \in 1 .. Len(siblings) : siblings[k] = id
  BY TreeShape
<1>4. Len(siblings) \in Nat
  BY <1>2, LenProperties
<1>5. k - 1 \in 0 .. Len(siblings) - 1 /\ siblings[k - 1 + 1] = id
  BY <1>3, <1>4
<1>6. place \in 0 .. Len(siblings) - 1 /\ siblings[place + 1] = id
  BY <1>5 DEF SiblingIndex
<1>7. DOMAIN siblings = 1 .. Len(siblings)
  BY <1>2, LenProperties
<1> HIDE DEF siblings, place
<1>8. ASSUME NEW i \in 0 .. Len(siblings) - 1, siblings[i + 1] = id
      PROVE  i = place
  <2>1. i + 1 \in DOMAIN siblings /\ place + 1 \in DOMAIN siblings
    BY <1>4, <1>6, <1>7
  <2>2. i + 1 = place + 1
    BY <2>1, <1>2, <1>6, <1>8 DEF IsInjective
  <2>3. QED
    BY <2>2, <1>4, <1>6
<1>9. CutList(tree, id) = Without(siblings, siblings[place + 1])
  BY <1>6 DEF CutList, siblings
<1>10. place + 1 \in 1 .. Len(siblings)
  BY <1>4, <1>6
<1> DEFINE p == place + 1
           rest == Without(siblings, siblings[p])
<1>11. p \in 1 .. Len(siblings)
  BY <1>10
<1> HIDE DEF p
<1>12. /\ rest \in Seq(NodeIds)
       /\ Len(rest) = Len(siblings) - 1
       /\ InsertAt(rest, p, siblings[p]) = siblings
       /\ Range(rest) = Range(siblings) \ {siblings[p]}
  BY <1>2, <1>11, WithoutOne
<1>13. QED
  BY <1>2, <1>6, <1>8, <1>9, <1>12 DEF p, siblings, place, Places

(* What a deletion keeps of the nodes it removes is the same before and     *)
(* after the subtree is cut off, because the parent is not among them.      *)
LEMMA StoredFromCut ==
  ASSUME NEW tree \in Trees, WellFormed(tree), NEW id \in Ids(tree) \ {Root},
         WellFormed(RemoveNode(tree, id))
  PROVE  LET stored == Stored(tree, Subtree(tree, id))
             rest == RemoveNode(tree, id).nodes
         IN  /\ stored \in Seq(StoredOf(NodeRecords))
             /\ \A k \in DOMAIN stored : stored[k].node.id \in Subtree(tree, id)
             /\ Fits(rest, stored)
             /\ Refill(rest, stored) = Cut(tree, id).nodes
<1> DEFINE parent == Node(tree, id).parent
           removed == Subtree(tree, id)
           N == tree.nodes
           C == Cut(tree, id).nodes
           I == {i \in DOMAIN N : N[i].id \in removed}
           J == {i \in DOMAIN C : C[i].id \in removed}
           allN == [i \in DOMAIN N |-> [storage_index |-> i - 1, node |-> N[i]]]
           allC == [i \in DOMAIN C |-> [storage_index |-> i - 1, node |-> C[i]]]
           S == StoredOf(NodeRecords)
<1>1. /\ parent \in Ids(tree)
      /\ CutList(tree, id) \in Seq(NodeIds)
      /\ RemoveNode(tree, id).nodes = Sublist(C, Staying(C, removed))
  BY RemoveShape
<1>2. UniqueIds(N)
  BY TreeShape
<1>3. parent \notin removed
  BY RemoveKeeps
<1>4. HasChildren(Cut(tree, id), tree, parent, CutList(tree, id))
  BY <1>1, <1>2, SetChildrenNodes DEF Cut
<1>5. /\ N \in Seq(NodeRecords) /\ C \in Seq(NodeRecords)
      /\ Len(C) = Len(N) /\ Len(N) \in Nat
      /\ DOMAIN N = 1 .. Len(N) /\ DOMAIN C = 1 .. Len(N)
      /\ \A i \in 1 .. Len(N) : C[i].id = N[i].id
  <2>1. /\ N \in Seq(NodeRecords) /\ C \in Seq(NodeRecords) /\ Len(C) = Len(N)
        /\ \A i \in DOMAIN N : C[i].id = N[i].id
    BY <1>4 DEF HasChildren, Trees
  <2>2. QED
    BY <2>1, LenProperties
<1>6. \A i \in 1 .. Len(N) : N[i] \in NodeRecords /\ C[i] \in NodeRecords
  BY <1>5, ElementOfSeq
<1>7. ASSUME NEW i \in 1 .. Len(N), N[i].id \in removed
      PROVE  C[i] = N[i]
  <2>1. IndexOf(tree, parent) \in DOMAIN N /\ N[IndexOf(tree, parent)].id = parent
    BY <1>1, <1>2, NodeAt
  <2>2. i # IndexOf(tree, parent)
    BY <2>1, <1>3, <1>7
  <2>3. C = [N EXCEPT ![IndexOf(tree, parent)] = WithChildren(tree, parent, CutList(tree, id))]
    BY <1>4 DEF HasChildren
  <2>4. QED
    BY <2>2, <2>3, <1>5
<1>8. /\ allN \in Seq(S) /\ Len(allN) = Len(N)
      /\ allC \in Seq(S) /\ Len(allC) = Len(N)
  <2>1. \A i \in 1 .. Len(N) : /\ [storage_index |-> i - 1, node |-> N[i]] \in S
                               /\ [storage_index |-> i - 1, node |-> C[i]] \in S
    BY <1>5, <1>6 DEF StoredOf
  <2> DEFINE n == Len(N)
  <2>2. allN \in [1 .. n -> S] /\ allC \in [1 .. n -> S] /\ n \in Nat
    BY <2>1, <1>5
  <2> HIDE DEF allN, allC, S, n
  <2>3. allN \in Seq(S) /\ Len(allN) = n
    BY <2>2
  <2>4. allC \in Seq(S) /\ Len(allC) = n
    BY <2>2
  <2>5. QED
    BY <2>3, <2>4 DEF n
<1>9. \A n \in 1 .. Len(N) : (n \in I <=> n \in J) /\ (n \in I => allN[n] = allC[n])
  BY <1>5, <1>7
<1>10. \A n \in 1 .. Len(N) : n \in I => allN[n].node.id \in removed
  BY <1>5
<1>11. Stored(tree, removed) = Sublist(allN, I)
  BY DEF Stored
<1>12. Staying(C, removed) = (1 .. Len(C)) \ J
  BY <1>5 DEF Staying
<1> DEFINE stored == Sublist(allN, I)
<1>13. stored = Sublist(allC, J) /\ stored \in Seq(S)
  <2> HIDE DEF allN, allC, I, J, S
  <2>1. QED
    BY <1>8, <1>9, SublistSame, SublistType
<1>14. ASSUME NEW k \in DOMAIN stored
       PROVE  stored[k].node.id \in removed
  <2> HIDE DEF allN, allC, I, J, S
  <2>1. k \in 1 .. Len(stored)
    BY <1>13, <1>14, LenProperties
  <2>2. PICK n \in 1 .. Len(allN) : n \in I /\ stored[k] = allN[n]
    BY <2>1, <1>8, SublistElements
  <2>3. QED
    BY <2>2, <1>8, <1>10
<1> DEFINE rest == Sublist(C, (1 .. Len(C)) \ J)
           cutStored == Sublist(allC, J)
<1>15. Fits(rest, cutStored) /\ Refill(rest, cutStored) = C
  <2> DEFINE nodes == C
  <2>1. nodes \in Seq(NodeRecords)
    BY <1>5
  <2>2. LET all == [i \in DOMAIN nodes |-> [storage_index |-> i - 1, node |-> nodes[i]]]
            base == Sublist(nodes, (1 .. Len(nodes)) \ J)
            kept == Sublist(all, J)
        IN  /\ kept \in Seq(StoredOf(NodeRecords))
            /\ Fits(base, kept)
            /\ Refill(base, kept) = nodes
    <3> HIDE DEF nodes, J
    <3>1. QED
      BY <2>1, RefillRestores
  <2>3. QED
    BY <2>2
<1>16. QED
  BY <1>1, <1>11, <1>12, <1>13, <1>14, <1>15

(* Restoring what a deletion kept gives the nodes back in their old order,  *)
(* whatever the next id of the tree has become.                             *)
Restores(t, stored, id, parent, index, nodes) ==
  /\ Fits(t.nodes, stored)
  /\ \A k \in DOMAIN stored : stored[k].node.id \notin Ids(t)
  /\ parent \in Ids(t)
  /\ index \in Nat /\ index <= Len(Children(t, parent))
  /\ RestoreNodes(t, stored, id, parent, index) \in Trees
  /\ RestoreNodes(t, stored, id, parent, index).nodes = nodes

(* restore_subtree after removeNode restores the storage, order included. *)
LEMMA RestoresSubtree ==
  ASSUME NEW tree \in Trees, WellFormed(tree), NEW id \in Ids(tree) \ {Root},
         WellFormed(RemoveNode(tree, id)),
         NEW t \in Trees, t.nodes = RemoveNode(tree, id).nodes
  PROVE  Restores(t, Stored(tree, Subtree(tree, id)), id, Node(tree, id).parent,
                  SiblingIndex(tree, id), tree.nodes)
<1> DEFINE parent == Node(tree, id).parent
           removed == Subtree(tree, id)
           stored == Stored(tree, removed)
           place == SiblingIndex(tree, id)
           list == CutList(tree, id)
           siblings == Children(tree, parent)
           cut == Cut(tree, id)
           filled == Reindexed(Refill(t.nodes, stored), t.next)
<1>1. /\ Fits(t.nodes, stored)
      /\ Refill(t.nodes, stored) = cut.nodes
      /\ \A k \in DOMAIN stored : stored[k].node.id \in removed
  BY StoredFromCut
<1>2. /\ Ids(t) = Ids(tree) \ removed
      /\ parent \in Ids(tree) \ removed
      /\ Node(RemoveNode(tree, id), parent) = WithChildren(tree, parent, list)
  <2>1. /\ Ids(RemoveNode(tree, id)) = Ids(tree) \ removed
        /\ parent \in Ids(tree) \ removed
        /\ \A x \in Ids(RemoveNode(tree, id)) :
             Node(RemoveNode(tree, id), x) =
               IF x = parent THEN WithChildren(tree, parent, list) ELSE Node(tree, x)
    BY RemoveKeeps
  <2>2. Ids(t) = Ids(RemoveNode(tree, id))
    BY SameNodes
  <2>3. QED
    BY <2>1, <2>2
<1>3. UniqueIds(tree.nodes)
  BY TreeShape
<1>4. /\ place \in 0 .. Len(siblings) - 1
      /\ siblings \in Seq(NodeIds) /\ list \in Seq(NodeIds)
      /\ Len(list) = Len(siblings) - 1
      /\ InsertAt(list, place + 1, id) = siblings
  <2>1. Places(tree, id, siblings, place, list)
    BY SiblingPlace
  <2>2. QED
    BY <2>1 DEF Places
<1>5. Children(t, parent) = list
  <2>1. Children(t, parent) = Children(RemoveNode(tree, id), parent)
    BY SameNodes
  <2>2. Node(tree, parent) \in NodeRecords
    BY <1>2, <1>3, NodeAt
  <2>3. WithChildren(tree, parent, list).children = list
    BY <2>2 DEF WithChildren, NodeRecords
  <2>4. QED
    BY <2>1, <2>3, <1>2 DEF Children
<1>6. place \in Nat /\ place <= Len(Children(t, parent))
  <2>1. Len(siblings) \in Nat
    BY <1>4, LenProperties
  <2>2. QED
    BY <2>1, <1>4, <1>5
<1>7. cut.nodes = SetChildren(tree, parent, list).nodes /\ cut \in Trees
  <2>1. cut = SetChildren(tree, parent, list)
    BY DEF Cut
  <2>2. QED
    BY <2>1, RemoveShape
<1>8. filled \in Trees /\ filled.nodes = cut.nodes
  <2>1. cut.nodes \in Seq(NodeRecords) /\ t.next \in NodeIds
    BY <1>7 DEF Trees
  <2>2. cut.nodes # <<>>
    <3>1. HasChildren(cut, tree, parent, list)
      BY <1>2, <1>3, <1>4, SetChildrenNodes DEF Cut
    <3>2. Len(cut.nodes) = Len(tree.nodes) /\ 1 \in 1 .. Len(tree.nodes)
      BY <3>1, TreeShape, LenProperties DEF HasChildren, Trees
    <3>3. QED
      BY <3>2, <2>1, EmptySeq, LenProperties
  <2>3. QED
    BY <1>1, <2>1, <2>2, ReindexedTree
<1> HIDE DEF filled, parent, list, siblings
<1>9. filled.nodes = SetChildren(tree, parent, list).nodes
  BY <1>7, <1>8
<1>10. /\ Children(filled, parent) = list
       /\ SetChildren(filled, parent, siblings) \in Trees
       /\ SetChildren(filled, parent, siblings).nodes = tree.nodes
  <2>1. parent \in Ids(tree) /\ siblings = Children(tree, parent)
    BY <1>2 DEF siblings
  <2>2. QED
    BY <2>1, <1>3, <1>4, <1>8, <1>9, SetChildrenTwice DEF ChildrenAgain
<1>11. RestoreNodes(t, stored, id, parent, place) = SetChildren(filled, parent, siblings)
  BY <1>4, <1>10 DEF RestoreNodes, filled
<1>12. QED
  BY <1>1, <1>2, <1>6, <1>10, <1>11 DEF Restores, parent

(* A removal does not depend on the next id either.                         *)
LEMMA SameRemoval ==
  ASSUME NEW tree \in Trees, WellFormed(tree), NEW id \in Ids(tree) \ {Root},
         NEW other \in Trees, other.nodes = tree.nodes
  PROVE  RemoveNode(other, id).nodes = RemoveNode(tree, id).nodes
<1> DEFINE parent == Node(tree, id).parent
           list == CutList(tree, id)
<1>1. /\ Ids(other) = Ids(tree) /\ WellFormed(other)
      /\ Node(other, id).parent = parent
      /\ CutList(other, id) = list
      /\ Subtree(other, id) = Subtree(tree, id)
      /\ IndexOf(other, parent) = IndexOf(tree, parent)
      /\ WithChildren(other, parent, list) = WithChildren(tree, parent, list)
  BY SameNodes DEF CutList, WithChildren
<1>2. /\ parent \in Ids(tree) /\ list \in Seq(NodeIds)
      /\ RemoveNode(tree, id).nodes =
           Sublist(Cut(tree, id).nodes, Staying(Cut(tree, id).nodes, Subtree(tree, id)))
  BY RemoveShape
<1>3. RemoveNode(other, id).nodes =
        Sublist(Cut(other, id).nodes, Staying(Cut(other, id).nodes, Subtree(other, id)))
  BY <1>1, RemoveShape
<1>4. UniqueIds(tree.nodes)
  BY TreeShape
<1>5. HasChildren(Cut(tree, id), tree, parent, list)
  BY <1>2, <1>4, SetChildrenNodes DEF Cut
<1>6. HasChildren(Cut(other, id), other, parent, list)
  <2>1. Cut(other, id) = SetChildren(other, parent, list)
    BY <1>1 DEF Cut
  <2> HIDE DEF parent, list
  <2>2. QED
    BY <1>1, <1>2, <1>4, <2>1, SetChildrenNodes
<1>7. Cut(other, id).nodes = Cut(tree, id).nodes
  BY <1>1, <1>5, <1>6 DEF HasChildren
<1>8. QED
  BY <1>1, <1>2, <1>3, <1>7

(* An insertion adds one node, at the requested place among the children of *)
(* its parent and at the end of the storage.                                *)
Inserts(t, tree, parent, move, index) ==
  /\ t \in Trees
  /\ Len(t.nodes) = Len(tree.nodes) + 1
  /\ tree.next \notin Ids(tree)
  /\ Ids(t) = Ids(tree) \cup {tree.next}
  /\ Node(t, tree.next) = NewNode(tree, parent, move)
  /\ \A x \in Ids(tree) :
       Node(t, x) = IF x = parent
                    THEN WithChildren(tree, parent,
                                      InsertAt(Children(tree, parent), index + 1, tree.next))
                    ELSE Node(tree, x)
  /\ Subtree(t, tree.next) = {tree.next}
  /\ SiblingIndex(t, tree.next) = index
  /\ RemoveNode(t, tree.next).nodes = tree.nodes

(* The insertion of a move appends one node to the storage and links it to  *)
(* its parent.                                                              *)
LEMMA AddedNode ==
  ASSUME NEW tree \in Trees, WellFormed(tree), CanAllocate(tree),
         NEW parent \in Ids(tree), NEW move \in MoveRecords,
         NEW index \in 0 .. Len(Children(tree, parent)),
         WellFormed(AddNode(tree, parent, move, index))
  PROVE  Inserts(AddNode(tree, parent, move, index), tree, parent, move, index)
<1> DEFINE N == tree.nodes
           id == tree.next
           siblings == Children(tree, parent)
           list == InsertAt(siblings, index + 1, id)
           placed == SetChildren(tree, parent, list)
           new == NewNode(tree, parent, move)
           t == AddNode(tree, parent, move, index)
<1>1. /\ UniqueIds(N) /\ Root \in Ids(tree)
      /\ siblings \in Seq(NodeIds) /\ Range(siblings) \subseteq Ids(tree)
  BY TreeShape
<1>2. N \in Seq(NodeRecords) /\ id \in NodeIds
  BY DEF Trees
<1>3. Len(siblings) \in Nat /\ DOMAIN siblings = 1 .. Len(siblings)
  BY <1>1, LenProperties
<1>4. index + 1 \in 1 .. Len(siblings) + 1
  BY <1>3
<1>5. /\ list \in Seq(NodeIds)
      /\ Len(list) = Len(siblings) + 1
      /\ list[index + 1] = id
  <2> DEFINE p == index + 1
  <2>1. p \in 1 .. Len(siblings) + 1
    BY <1>4
  <2> HIDE DEF p, siblings, id
  <2>2. InsertAt(siblings, p, id) \in Seq(NodeIds)
    BY <1>1, <1>2, <2>1, InsertProperties
  <2>3. Len(InsertAt(siblings, p, id)) = Len(siblings) + 1
    BY <1>1, <1>2, <2>1, InsertProperties
  <2>4. InsertAt(siblings, p, id)[p] = id
    BY <1>1, <1>2, <2>1, InsertProperties
  <2>5. QED
    BY <2>2, <2>3, <2>4 DEF p, siblings, id
<1> HIDE DEF list
<1>6. HasChildren(placed, tree, parent, list) /\ WithChildren(tree, parent, list) \in NodeRecords
  BY <1>1, <1>5, SetChildrenNodes
<1>7. new \in NodeRecords /\ new.id = id /\ new.parent = parent /\ new.children = <<>>
  <2>1. Ids(tree) \subseteq NodeIds
    BY IdsTyped
  <2>2. <<>> \in Seq(NodeIds) /\ <<>> \in Annotations
    BY DEF Annotations
  <2>3. QED
    BY <1>2, <2>1, <2>2 DEF NewNode, NodeRecords
<1> DEFINE more == Append(placed.nodes, new)
<1>8. /\ placed.nodes \in Seq(NodeRecords) /\ Len(placed.nodes) = Len(N)
      /\ Len(N) \in Nat /\ DOMAIN N = 1 .. Len(N)
  BY <1>2, <1>6, LenProperties DEF HasChildren, Trees
<1>9. /\ more \in Seq(NodeRecords)
      /\ Len(more) = Len(N) + 1 /\ DOMAIN more = 1 .. Len(N) + 1
      /\ more # <<>>
      /\ more[Len(N) + 1] = new
      /\ \A i \in 1 .. Len(N) : more[i] = placed.nodes[i]
  <2> DEFINE nodes == placed.nodes
  <2>1. nodes \in Seq(NodeRecords) /\ Len(nodes) = Len(N)
    BY <1>8
  <2> HIDE DEF nodes, new
  <2>2. /\ Append(nodes, new) \in Seq(NodeRecords)
        /\ Append(nodes, new) # <<>>
        /\ Len(Append(nodes, new)) = Len(nodes) + 1
        /\ \A i \in 1 .. Len(nodes) : Append(nodes, new)[i] = nodes[i]
        /\ Append(nodes, new)[Len(nodes) + 1] = new
    BY <1>7, <2>1, AppendProperties
  <2>3. DOMAIN Append(nodes, new) = 1 .. Len(N) + 1
    BY <2>1, <2>2, LenProperties
  <2>4. QED
    BY <2>1, <2>2, <2>3 DEF nodes
<1>10. t = Reindexed(more, id + 1)
  BY DEF AddNode, list
<1>11. t \in Trees /\ t.nodes = more
  <2>1. id + 1 \in NodeIds
    BY <1>2, NodeIdAssumption DEF CanAllocate, NodeIds
  <2> HIDE DEF more, t
  <2>2. QED
    BY <1>9, <1>10, <2>1, ReindexedTree
<1>12. UniqueIds(more)
  BY <1>11, TreeShape
<1>13. \A i \in 1 .. Len(N) : placed.nodes[i].id = N[i].id
  BY <1>6, <1>8 DEF HasChildren
<1>14. id \notin Ids(tree) /\ id # Root
  <2>1. ASSUME NEW i \in DOMAIN N, N[i].id = id
        PROVE  FALSE
    <3>1. more[i].id = id /\ more[Len(N) + 1].id = id
      BY <2>1, <1>7, <1>8, <1>9, <1>13
    <3>2. i = Len(N) + 1
      BY <3>1, <2>1, <1>8, <1>9, <1>12 DEF UniqueIds
    <3>3. QED
      BY <3>2, <1>8
  <2>2. id \notin Ids(tree)
    BY <2>1 DEF Ids, Range
  <2>3. QED
    BY <2>2, <1>1
<1>15. Ids(t) = Ids(tree) \cup {id}
  <2>1. \A x : x \in Ids(t) <=> \E i \in 1 .. Len(N) + 1 : more[i].id = x
    BY <1>9, <1>11 DEF Ids, Range
  <2>2. \A x : x \in Ids(tree) <=> \E i \in 1 .. Len(N) : N[i].id = x
    BY <1>8 DEF Ids, Range
  <2>3. \A i \in 1 .. Len(N) : more[i].id = N[i].id
    BY <1>9, <1>13
  <2>4. more[Len(N) + 1].id = id
    BY <1>7, <1>9
  <2>5. ASSUME NEW x
        PROVE  x \in Ids(t) <=> x \in Ids(tree) \/ x = id
    <3>1. CASE \E i \in 1 .. Len(N) : more[i].id = x
      <4>1. PICK i \in 1 .. Len(N) : more[i].id = x
        BY <3>1
      <4>2. i \in 1 .. Len(N) + 1
        BY <1>8
      <4>3. QED
        BY <4>1, <4>2, <2>1, <2>2, <2>3
    <3>2. CASE \A i \in 1 .. Len(N) : more[i].id # x
      <4>1. x \notin Ids(tree)
        BY <3>2, <2>2, <2>3
      <4>2. \A i \in 1 .. Len(N) + 1 : i \in 1 .. Len(N) \/ i = Len(N) + 1
        BY <1>8
      <4>3. Len(N) + 1 \in 1 .. Len(N) + 1
        BY <1>8
      <4>4. QED
        BY <3>2, <4>1, <4>2, <4>3, <2>1, <2>4
    <3>3. QED
      BY <3>1, <3>2
  <2>6. QED
    BY <2>5
<1> HIDE DEF t, new, placed, more
<1>16. Node(t, id) = new
  <2>1. Len(N) + 1 \in DOMAIN t.nodes /\ t.nodes[Len(N) + 1] = new
    BY <1>8, <1>9, <1>11
  <2>2. QED
    BY <2>1, <1>7, <1>11, <1>12, NodeAt
<1>17. ASSUME NEW x \in Ids(tree)
       PROVE  /\ IndexOf(t, x) = IndexOf(tree, x)
              /\ Node(t, x) = IF x = parent THEN WithChildren(tree, parent, list) ELSE Node(tree, x)
  <2>1. IndexOf(tree, x) \in 1 .. Len(N) /\ N[IndexOf(tree, x)].id = x
    BY <1>1, <1>8, NodeAt
  <2> DEFINE i == IndexOf(tree, x)
  <2>2. i \in DOMAIN t.nodes /\ t.nodes[i] = placed.nodes[i] /\ placed.nodes[i].id = x
    BY <2>1, <1>8, <1>9, <1>11, <1>13
  <2>3. IndexOf(t, x) = i /\ Node(t, x) = placed.nodes[i]
    BY <2>2, <1>11, <1>12, NodeAt
  <2>4. Node(placed, x) = placed.nodes[i]
    <3>1. placed \in Trees /\ UniqueIds(placed.nodes) /\ i \in DOMAIN placed.nodes
      BY <1>6, <1>8, <2>1, LenProperties DEF HasChildren
    <3>2. QED
      BY <3>1, <2>2, NodeAt
  <2>5. QED
    BY <2>3, <2>4, <1>6 DEF HasChildren
<1>18. Children(t, id) = <<>> /\ Children(t, parent) = list /\ Node(t, id).parent = parent
  <2>1. Children(t, id) = <<>> /\ Node(t, id).parent = parent
    BY <1>7, <1>16 DEF Children
  <2>2. Node(tree, parent) \in NodeRecords
    BY <1>1, NodeAt
  <2>3. WithChildren(tree, parent, list).children = list
    BY <2>2 DEF WithChildren, NodeRecords
  <2>4. QED
    BY <2>1, <2>3, <1>17 DEF Children
<1>19. WellFormed(t)
  BY DEF t
<1>20. id \in Ids(t) \ {Root}
  BY <1>14, <1>15
<1>21. SiblingIndex(t, id) = index
  <2>1. index \in 0 .. Len(list) - 1 /\ list[index + 1] = id
    BY <1>3, <1>5
  <2>2. \A i \in 0 .. Len(list) - 1 : list[i + 1] = id => i = SiblingIndex(t, id)
    BY <1>11, <1>18, <1>19, <1>20, SiblingPlace DEF Places
  <2>3. QED
    BY <2>1, <2>2
<1>22. Subtree(t, id) = {id}
  <2>1. \A x \in Ids(t) : Range(Children(t, x)) \subseteq Ids(t)
    BY <1>11, <1>19, TreeShape
  <2>2. Range(Children(t, id)) = {}
    BY <1>18 DEF Range
  <2> DEFINE X == {id}
  <2>3. id \in X /\ \A x \in Ids(t) \cap X : Range(Children(t, x)) \subseteq X
    BY <2>2
  <2>4. Subtree(t, id) \subseteq X
    <3> HIDE DEF X
    <3>1. QED
      BY <2>1, <2>3, <1>11, <1>20, SubtreeWithin
  <2>5. id \in Subtree(t, id)
    BY <2>1, <1>11, <1>20, SubtreeFacts
  <2>6. QED
    BY <2>4, <2>5
<1>23. RemoveNode(t, id).nodes = N
  <2> DEFINE k == IndexOf(tree, parent)
             cut == Cut(t, id)
             J == Staying(cut.nodes, {id})
  <2>1. CutList(t, id) = siblings
    <3>1. \A n \in 1 .. Len(siblings) : siblings[n] # id
      BY <1>1, <1>3, <1>14 DEF Range
    <3> DEFINE p == index + 1
    <3>2. p \in 1 .. Len(siblings) + 1
      BY <1>4
    <3>3. Without(InsertAt(siblings, p, id), id) = siblings
      <4> HIDE DEF p
      <4>1. QED
        BY <1>1, <1>2, <3>1, <3>2, WithoutInserted
    <3>4. CutList(t, id) = Without(list, id)
      BY <1>18 DEF CutList
    <3>5. QED
      BY <3>3, <3>4 DEF list
  <2>2. WithChildren(t, parent, siblings) = Node(tree, parent)
    <3>1. Node(tree, parent) \in NodeRecords
      BY <1>1, NodeAt
    <3>2. Node(t, parent) = WithChildren(tree, parent, list)
      BY <1>17
    <3>3. QED
      BY <3>1, <3>2 DEF WithChildren, NodeRecords, Children
  <2>3. HasChildren(cut, t, parent, siblings)
    <3>1. cut = SetChildren(t, parent, siblings)
      BY <2>1, <1>18 DEF Cut
    <3>2. parent \in Ids(t) /\ UniqueIds(t.nodes)
      BY <1>11, <1>12, <1>15
    <3>3. QED
      BY <3>1, <3>2, <1>1, <1>11, SetChildrenNodes
  <2>4. cut.nodes = [more EXCEPT ![k] = Node(tree, parent)]
    BY <2>2, <2>3, <1>11, <1>17 DEF HasChildren
  <2>5. k \in 1 .. Len(N) /\ N[k] = Node(tree, parent)
    BY <1>1, <1>8, NodeAt
  <2>6. placed.nodes = [N EXCEPT ![k] = WithChildren(tree, parent, list)]
    BY <1>6 DEF HasChildren
  <2>7. cut.nodes \in Seq(NodeRecords) /\ Len(cut.nodes) = Len(N) + 1
    BY <2>3, <1>9, <1>11 DEF HasChildren, Trees
  <2>8. /\ Append(N, new) \in Seq(NodeRecords)
        /\ Len(Append(N, new)) = Len(N) + 1
        /\ \A i \in 1 .. Len(N) : Append(N, new)[i] = N[i]
        /\ Append(N, new)[Len(N) + 1] = new
    BY <1>2, <1>7, AppendProperties
  <2>9. \A i \in 1 .. Len(N) + 1 : cut.nodes[i] = Append(N, new)[i]
    BY <2>4, <2>5, <2>6, <2>8, <1>8, <1>9
  <2>10. cut.nodes = Append(N, new)
    BY <2>7, <2>8, <2>9, SeqEqual
  <2>11. RemoveNode(t, id).nodes = Sublist(cut.nodes, J)
    BY <1>11, <1>19, <1>20, <1>22, RemoveShape
  <2>12. Len(N) + 1 \notin J
    BY <2>8, <2>10, <1>7 DEF Staying
  <2>13. 1 .. Len(N) \subseteq J
    <3>1. ASSUME NEW i \in 1 .. Len(N)
          PROVE  i \in J
      <4>1. i \in DOMAIN cut.nodes
        BY <2>7, <1>8, LenProperties
      <4>2. cut.nodes[i].id = N[i].id
        BY <2>8, <2>10
      <4>3. N[i].id # id
        BY <1>8, <1>14 DEF Ids, Range
      <4>4. QED
        BY <4>1, <4>2, <4>3 DEF Staying
    <3>2. QED
      BY <3>1
  <2> HIDE DEF J
  <2>14. Sublist(Append(N, new), J) = Sublist(N, J)
    BY <2>12, <1>2, <1>7, SublistAppend
  <2>15. Sublist(N, J) = N
    BY <2>13, <1>2, SublistAll
  <2>16. QED
    BY <2>10, <2>11, <2>14, <2>15
<1>24. Len(t.nodes) = Len(N) + 1
  BY <1>9, <1>11
<1>25. QED
  BY <1>11, <1>14, <1>15, <1>16, <1>17, <1>21, <1>22, <1>23, <1>24 DEF Inserts, t, new, list

-----------------------------------------------------------------------------
(* Documents *)

(* The positions as a function of the nodes.                                *)
PositionsIn(nodes) ==
  LET at[id \in IdsIn(nodes)] ==
        IF id = Root THEN InitialPosition
        ELSE LET node == NodeIn(nodes, id)
                 above == at[node.parent]
             IN  IF above = NoPosition \/ ~Playable(above, node.move)
                 THEN NoPosition
                 ELSE Play(above, node.move)
  IN  at

(* Documents with the same content are alike to everything but allocation.  *)
LEMMA SameContent ==
  ASSUME NEW d \in DocumentRecords, NEW other \in DocumentRecords,
         Content(other) = Content(d)
  PROVE  /\ other.tree.nodes = d.tree.nodes
         /\ other.metadata = d.metadata
         /\ other.tree \in Trees /\ d.tree \in Trees
         /\ Ids(other.tree) = Ids(d.tree)
         /\ Positions(other) = Positions(d)
         /\ Valid(other) <=> Valid(d)
<1>1. other.tree.nodes = d.tree.nodes /\ other.metadata = d.metadata
  BY DEF Content
<1>2. other.tree \in Trees /\ d.tree \in Trees
  BY DEF DocumentRecords
<1>3. /\ Ids(other.tree) = Ids(d.tree)
      /\ WellFormed(other.tree) <=> WellFormed(d.tree)
  BY <1>1, SameNodes
<1>4. \A x : Positions(x) = PositionsIn(x.tree.nodes)
  <2> TAKE x
  <2>1. QED
    BY DEF Positions, PositionsIn, Ids, IdsIn, Node, NodeIn, IndexOf, IndexIn
<1>5. Positions(other) = Positions(d)
  BY <1>1, <1>4
<1>6. Valid(other) <=> Valid(d)
  BY <1>1, <1>3, <1>5 DEF Valid, Structural
<1>7. QED
  BY <1>1, <1>2, <1>3, <1>5, <1>6

(* A document with another tree.                                            *)
LEMMA WithTree ==
  ASSUME NEW d \in DocumentRecords, NEW t \in Trees
  PROVE  /\ [d EXCEPT !.tree = t] \in DocumentRecords
         /\ [d EXCEPT !.tree = t].tree = t
         /\ Content([d EXCEPT !.tree = t]) = [nodes |-> t.nodes, metadata |-> d.metadata]
BY DEF DocumentRecords, Content

(* What two documents are compared by. *)
LEMMA ContentTyped ==
  ASSUME NEW d \in DocumentRecords
  PROVE  Content(d) \in Contents /\ Content(d) = [nodes |-> d.tree.nodes, metadata |-> d.metadata]
BY DEF DocumentRecords, Trees, Contents, Content

-----------------------------------------------------------------------------
(* What undo and redo do with an entry, from every document with a content. *)
Undoes(entry, from, to) ==
  \A d \in DocumentRecords : Content(d) = from =>
    /\ CanRevert(d, entry)
    /\ Reverted(d, entry) \in DocumentRecords
    /\ Content(Reverted(d, entry)) = to

Redoes(entry, from, to) ==
  \A d \in DocumentRecords : Content(d) = from =>
    /\ CanReapply(d, entry)
    /\ Reapplied(d, entry) \in DocumentRecords
    /\ Content(Reapplied(d, entry)) = to

(* The entry holds the inverse data of a command of a kind.                 *)
Carries(entry, inverse, kind) ==
  /\ entry.kind = kind
  /\ entry.nodes = inverse.nodes
  /\ entry.root = inverse.root
  /\ entry.parent = inverse.parent
  /\ entry.sibling_index = inverse.sibling_index
  /\ entry.before = inverse.before
  /\ entry.after = inverse.after

(* What a lemma below shows of each kind of command.                        *)
Inverted(d, c, entry) ==
  /\ After(d, c) \in DocumentRecords
  /\ Content(After(d, c)) # Content(d)
  /\ Undoes(entry, Content(After(d, c)), Content(d))
  /\ Redoes(entry, Content(d), Content(After(d, c)))
  /\ entry.root \in Ids(d.tree) \cup Ids(After(d, c).tree)
  /\ entry.parent \in Ids(d.tree)

(* A replaced description of the game.                                      *)
LEMMA MetadataInverted ==
  ASSUME NEW d \in DocumentRecords, Valid(d),
         NEW c \in Commands, c.kind = "metadata", Executes(d, c),
         NEW entry, Carries(entry, InverseOf(d, c), c.kind)
  PROVE  Inverted(d, c, entry)
<1>1. c.metadata \in Metadata
  BY DEF Commands
<1>2. After(d, c) = [d EXCEPT !.metadata = c.metadata]
  BY DEF After
<1>3. After(d, c) \in DocumentRecords
  BY <1>1, <1>2 DEF DocumentRecords
<1>4. Content(After(d, c)) = [nodes |-> d.tree.nodes, metadata |-> c.metadata]
  BY <1>1, <1>2 DEF Content, DocumentRecords
<1>5. c.metadata # d.metadata
  BY DEF Executes, NoOp
<1>6. /\ entry.kind = "metadata" /\ entry.root = Root /\ entry.parent = Root
      /\ entry.before = d.metadata /\ entry.after = c.metadata
  BY DEF Carries, InverseOf, Entry0
<1>7. Root \in Ids(d.tree)
  BY TreeShape DEF Valid, Structural, DocumentRecords
<1>8. ASSUME NEW e \in DocumentRecords, e.tree.nodes = d.tree.nodes, NEW value \in Metadata
      PROVE  /\ entry.root \in Ids(e.tree)
             /\ PutBack(e, entry, value) \in DocumentRecords
             /\ Content(PutBack(e, entry, value)) = [nodes |-> d.tree.nodes, metadata |-> value]
  <2>1. PutBack(e, entry, value) = [e EXCEPT !.metadata = value]
    BY <1>6 DEF PutBack
  <2>2. Ids(e.tree) = Ids(d.tree)
    BY <1>8, SameNodes
  <2>3. QED
    BY <2>1, <2>2, <1>6, <1>7, <1>8 DEF DocumentRecords, Content
<1>9. d.metadata \in Metadata
  BY DEF DocumentRecords
<1>10. Undoes(entry, Content(After(d, c)), Content(d))
  <2> SUFFICES ASSUME NEW e \in DocumentRecords, Content(e) = Content(After(d, c))
               PROVE  /\ CanRevert(e, entry)
                      /\ Reverted(e, entry) \in DocumentRecords
                      /\ Content(Reverted(e, entry)) = Content(d)
    BY DEF Undoes
  <2>1. e.tree.nodes = d.tree.nodes
    BY <1>4 DEF Content
  <2>2. Reverted(e, entry) = PutBack(e, entry, d.metadata)
    BY <1>6 DEF Reverted
  <2>3. QED
    BY <2>1, <2>2, <1>6, <1>8, <1>9 DEF CanRevert, Content
<1>11. Redoes(entry, Content(d), Content(After(d, c)))
  <2> SUFFICES ASSUME NEW e \in DocumentRecords, Content(e) = Content(d)
               PROVE  /\ CanReapply(e, entry)
                      /\ Reapplied(e, entry) \in DocumentRecords
                      /\ Content(Reapplied(e, entry)) = Content(After(d, c))
    BY DEF Redoes
  <2>1. e.tree.nodes = d.tree.nodes
    BY DEF Content
  <2>2. Reapplied(e, entry) = PutBack(e, entry, c.metadata)
    BY <1>6 DEF Reapplied
  <2>3. QED
    BY <2>1, <2>2, <1>1, <1>4, <1>6, <1>8 DEF CanReapply
<1>12. Content(After(d, c)) # Content(d)
  BY <1>4, <1>5 DEF Content
<1>13. QED
  BY <1>3, <1>6, <1>7, <1>10, <1>11, <1>12 DEF Inverted

(* A command that gives one node another value.                             *)
Renews(d, c, entry, new) ==
  /\ After(d, c) = [d EXCEPT !.tree = Update(d.tree, new)]
  /\ entry.root = new.id
  /\ entry.parent \in Ids(d.tree)
  /\ \A e \in DocumentRecords : e.tree.nodes = d.tree.nodes =>
       /\ CanReapply(e, entry) <=> entry.root \in Ids(e.tree)
       /\ Reapplied(e, entry) = [e EXCEPT !.tree = Update(e.tree, new)]
  /\ \A e \in DocumentRecords : e.tree.nodes = Update(d.tree, new).nodes =>
       /\ CanRevert(e, entry) <=> entry.root \in Ids(e.tree)
       /\ Reverted(e, entry) = [e EXCEPT !.tree = Update(e.tree, Node(d.tree, new.id))]

(* A command that changes the fields of one node is undone and redone by    *)
(* changing them back and forth.                                            *)
LEMMA RenewInverted ==
  ASSUME NEW d \in DocumentRecords, Valid(d), NEW c, NEW entry,
         NEW new \in NodeRecords, new.id \in Ids(d.tree), new # Node(d.tree, new.id),
         Renews(d, c, entry, new)
  PROVE  Inverted(d, c, entry)
<1> DEFINE tree == d.tree
           old == Node(tree, new.id)
           t == Update(tree, new)
<1>1. tree \in Trees /\ UniqueIds(tree.nodes) /\ Root \in Ids(tree)
  BY TreeShape DEF Valid, Structural, DocumentRecords
<1>2. old \in NodeRecords /\ old.id = new.id
  BY <1>1, NodeAt
<1>3. /\ t \in Trees /\ Ids(t) = Ids(tree)
      /\ Node(t, new.id) = new
  BY <1>1, UpdateNode
<1>4. After(d, c) = [d EXCEPT !.tree = t]
  BY DEF Renews
<1>5. /\ After(d, c) \in DocumentRecords
      /\ After(d, c).tree = t
      /\ Content(After(d, c)) = [nodes |-> t.nodes, metadata |-> d.metadata]
  BY <1>3, <1>4, WithTree
<1>6. Content(d) = [nodes |-> tree.nodes, metadata |-> d.metadata]
  BY ContentTyped
<1>7. t.nodes # tree.nodes
  <2>1. t.nodes = tree.nodes => Node(t, new.id) = old
    BY SameNodes
  <2>2. QED
    BY <2>1, <1>3
<1> HIDE DEF t, tree, old
<1>8. Undoes(entry, Content(After(d, c)), Content(d))
  <2> SUFFICES ASSUME NEW e \in DocumentRecords, Content(e) = Content(After(d, c))
               PROVE  /\ CanRevert(e, entry)
                      /\ Reverted(e, entry) \in DocumentRecords
                      /\ Content(Reverted(e, entry)) = Content(d)
    BY DEF Undoes
  <2>1. e.tree.nodes = t.nodes /\ e.metadata = d.metadata /\ e.tree \in Trees
    BY <1>5 DEF Content, DocumentRecords
  <2>2. Ids(e.tree) = Ids(tree)
    BY <2>1, <1>3, SameNodes
  <2>3. CanRevert(e, entry) /\ Reverted(e, entry) = [e EXCEPT !.tree = Update(e.tree, old)]
    BY <2>1, <2>2 DEF Renews, t, old, tree
  <2>4. Update(e.tree, old).nodes = tree.nodes
    BY <2>1, <1>1, UpdateTwice DEF t, old, tree
  <2>5. Update(e.tree, old) \in Trees
    <3>1. UniqueIds(t.nodes)
      BY <1>1, UpdateNode DEF t, tree
    <3>2. UniqueIds(e.tree.nodes) /\ old.id \in Ids(e.tree)
      BY <3>1, <2>1, <2>2, <1>2 DEF tree
    <3>3. QED
      BY <3>2, <2>1, <1>2, UpdateNode
  <2>6. QED
    BY <2>1, <2>3, <2>4, <2>5, <1>6, WithTree
<1>9. Redoes(entry, Content(d), Content(After(d, c)))
  <2> SUFFICES ASSUME NEW e \in DocumentRecords, Content(e) = Content(d)
               PROVE  /\ CanReapply(e, entry)
                      /\ Reapplied(e, entry) \in DocumentRecords
                      /\ Content(Reapplied(e, entry)) = Content(After(d, c))
    BY DEF Redoes
  <2>1. e.tree.nodes = tree.nodes /\ e.metadata = d.metadata /\ e.tree \in Trees
    BY <1>6 DEF Content, DocumentRecords
  <2>2. Ids(e.tree) = Ids(tree)
    BY <2>1, SameNodes
  <2>3. CanReapply(e, entry) /\ Reapplied(e, entry) = [e EXCEPT !.tree = Update(e.tree, new)]
    BY <2>1, <2>2 DEF Renews, tree
  <2>4. Update(e.tree, new) \in Trees /\ Update(e.tree, new).nodes = t.nodes
    <3>1. UniqueIds(e.tree.nodes) /\ new.id \in Ids(e.tree)
      BY <2>1, <2>2, <1>1 DEF tree
    <3>2. /\ Update(e.tree, new) \in Trees
          /\ Update(e.tree, new).nodes = [e.tree.nodes EXCEPT ![IndexOf(e.tree, new.id)] = new]
      BY <3>1, <2>1, UpdateNode
    <3>3. t.nodes = [tree.nodes EXCEPT ![IndexOf(tree, new.id)] = new]
      BY <1>1, UpdateNode DEF t, tree
    <3>4. IndexOf(e.tree, new.id) = IndexOf(tree, new.id)
      BY <2>1, SameNodes
    <3>5. QED
      BY <3>2, <3>3, <3>4, <2>1
  <2>5. QED
    BY <2>1, <2>3, <2>4, <1>5, WithTree
<1>10. Content(After(d, c)) # Content(d)
  BY <1>5, <1>6, <1>7
<1>11. entry.root \in Ids(d.tree) /\ entry.parent \in Ids(d.tree)
  BY <1>1 DEF Renews, tree
<1>12. QED
  BY <1>5, <1>8, <1>9, <1>10, <1>11 DEF Inverted

(* Other annotations.                                                       *)
LEMMA AnnotateInverted ==
  ASSUME NEW d \in DocumentRecords, Valid(d),
         NEW c \in Commands, c.kind = "annotate", Executes(d, c),
         NEW entry, Carries(entry, InverseOf(d, c), c.kind)
  PROVE  Inverted(d, c, entry)
<1> DEFINE old == Node(d.tree, c.node)
           new == [old EXCEPT !.annotations = c.annotations]
<1>1. c.annotations \in Annotations
  BY DEF Commands
<1>2. c.node \in Ids(d.tree) /\ old.annotations # c.annotations
  BY DEF Executes, Accepts, NoOp
<1>3. d.tree \in Trees /\ UniqueIds(d.tree.nodes) /\ Root \in Ids(d.tree)
  BY TreeShape DEF Valid, Structural, DocumentRecords
<1>4. old \in NodeRecords /\ old.id = c.node
  BY <1>2, <1>3, NodeAt
<1>5. new \in NodeRecords /\ new.id = c.node /\ new.annotations = c.annotations
  BY <1>1, <1>4 DEF NodeRecords
<1>6. new # old
  BY <1>2, <1>5
<1>7. /\ entry.kind = "annotate" /\ entry.root = c.node /\ entry.parent = Root
      /\ entry.before = old.annotations /\ entry.after = c.annotations
  BY DEF Carries, InverseOf, Entry0
<1>8. After(d, c) = [d EXCEPT !.tree = Update(d.tree, new)]
  BY DEF After
<1>9. [new EXCEPT !.annotations = old.annotations] = old
  BY <1>4 DEF NodeRecords
<1>10. ASSUME NEW e \in DocumentRecords, NEW value
       PROVE  PutBack(e, entry, value) =
                [e EXCEPT !.tree = Update(e.tree, [Node(e.tree, c.node) EXCEPT !.annotations = value])]
  BY <1>7 DEF PutBack, DocumentRecords
<1> HIDE DEF new, old
<1>11. ASSUME NEW e \in DocumentRecords, e.tree.nodes = d.tree.nodes
       PROVE  /\ CanReapply(e, entry) <=> entry.root \in Ids(e.tree)
              /\ Reapplied(e, entry) = [e EXCEPT !.tree = Update(e.tree, new)]
  <2>1. Node(e.tree, c.node) = old
    BY <1>11, SameNodes DEF old
  <2>2. Reapplied(e, entry) = PutBack(e, entry, c.annotations)
    BY <1>7 DEF Reapplied
  <2>3. PutBack(e, entry, c.annotations) = [e EXCEPT !.tree = Update(e.tree, new)]
    BY <2>1, <1>10 DEF new
  <2>4. QED
    BY <2>2, <2>3, <1>7 DEF CanReapply
<1>12. ASSUME NEW e \in DocumentRecords, e.tree.nodes = Update(d.tree, new).nodes
       PROVE  /\ CanRevert(e, entry) <=> entry.root \in Ids(e.tree)
              /\ Reverted(e, entry) = [e EXCEPT !.tree = Update(e.tree, Node(d.tree, new.id))]
  <2>1. Node(e.tree, c.node) = new
    <3>1. Node(Update(d.tree, new), c.node) = new
      BY <1>2, <1>3, <1>5, UpdateNode
    <3>2. QED
      BY <3>1, <1>12, SameNodes
  <2>2. Reverted(e, entry) = PutBack(e, entry, old.annotations)
    BY <1>7 DEF Reverted
  <2>3. PutBack(e, entry, old.annotations) = [e EXCEPT !.tree = Update(e.tree, old)]
    BY <2>1, <1>9, <1>10
  <2>4. old = Node(d.tree, new.id)
    BY <1>5 DEF old
  <2>5. QED
    BY <2>2, <2>3, <2>4, <1>7 DEF CanRevert
<1>13. Renews(d, c, entry, new)
  BY <1>3, <1>5, <1>7, <1>8, <1>11, <1>12 DEF Renews
<1>14. QED
  BY <1>2, <1>5, <1>6, <1>13, RenewInverted DEF old

(* Another move.                                                            *)
LEMMA ReplaceInverted ==
  ASSUME NEW d \in DocumentRecords, Valid(d),
         NEW c \in Commands, c.kind = "replace", Executes(d, c),
         NEW entry, Carries(entry, InverseOf(d, c), c.kind)
  PROVE  Inverted(d, c, entry)
<1> DEFINE old == Node(d.tree, c.node)
           new == [old EXCEPT !.move = c.move]
<1>1. /\ c.node \in Ids(d.tree) \ {Root} /\ old.move # c.move
      /\ ValidMove(c.move)
  BY DEF Executes, Accepts, NoOp
<1>2. c.move \in MoveRecords
  <2>1. c.move \in AnyMove
    BY DEF Commands
  <2>2. QED
    BY <2>1, <1>1 DEF AnyMove, ValidMove, MoveRecords
<1>3. d.tree \in Trees /\ WellFormed(d.tree)
  BY DEF Valid, Structural, DocumentRecords
<1>4. UniqueIds(d.tree.nodes) /\ old.parent \in Ids(d.tree)
  BY <1>1, <1>3, TreeShape
<1>5. old \in NodeRecords /\ old.id = c.node
  BY <1>1, <1>3, <1>4, NodeAt
<1>6. new \in NodeRecords /\ new.id = c.node /\ new.move = c.move
  BY <1>2, <1>5 DEF NodeRecords
<1>7. new # old
  BY <1>1, <1>6
<1>8. /\ entry.kind = "replace" /\ entry.root = c.node /\ entry.parent = old.parent
      /\ entry.before = old.move /\ entry.after = c.move
  BY DEF Carries, InverseOf, Entry0
<1>9. After(d, c) = [d EXCEPT !.tree = Update(d.tree, new)]
  BY DEF After
<1>10. [new EXCEPT !.move = old.move] = old
  BY <1>5 DEF NodeRecords
<1>11. ASSUME NEW e \in DocumentRecords, NEW value
       PROVE  PutBack(e, entry, value) =
                [e EXCEPT !.tree = Update(e.tree, [Node(e.tree, c.node) EXCEPT !.move = value])]
  BY <1>8 DEF PutBack, DocumentRecords
<1> HIDE DEF new, old
<1>12. ASSUME NEW e \in DocumentRecords, e.tree.nodes = d.tree.nodes
       PROVE  /\ CanReapply(e, entry) <=> entry.root \in Ids(e.tree)
              /\ Reapplied(e, entry) = [e EXCEPT !.tree = Update(e.tree, new)]
  <2>1. Node(e.tree, c.node) = old
    BY <1>12, SameNodes DEF old
  <2>2. Reapplied(e, entry) = PutBack(e, entry, c.move)
    BY <1>8 DEF Reapplied
  <2>3. PutBack(e, entry, c.move) = [e EXCEPT !.tree = Update(e.tree, new)]
    BY <2>1, <1>11 DEF new
  <2>4. QED
    BY <2>2, <2>3, <1>8 DEF CanReapply
<1>13. ASSUME NEW e \in DocumentRecords, e.tree.nodes = Update(d.tree, new).nodes
       PROVE  /\ CanRevert(e, entry) <=> entry.root \in Ids(e.tree)
              /\ Reverted(e, entry) = [e EXCEPT !.tree = Update(e.tree, Node(d.tree, new.id))]
  <2>1. Node(e.tree, c.node) = new
    <3>1. new.id \in Ids(d.tree)
      BY <1>1, <1>6
    <3>2. Node(Update(d.tree, new), new.id) = new
      BY <3>1, <1>3, <1>4, <1>6, UpdateNode
    <3>3. Node(Update(d.tree, new), c.node) = new
      BY <3>2, <1>6
    <3>4. QED
      BY <3>3, <1>13, SameNodes
  <2>2. Reverted(e, entry) = PutBack(e, entry, old.move)
    BY <1>8 DEF Reverted
  <2>3. PutBack(e, entry, old.move) = [e EXCEPT !.tree = Update(e.tree, old)]
    BY <2>1, <1>10, <1>11
  <2>4. old = Node(d.tree, new.id)
    BY <1>6 DEF old
  <2>5. QED
    BY <2>2, <2>3, <2>4, <1>8 DEF CanRevert
<1>14. Renews(d, c, entry, new)
  BY <1>4, <1>6, <1>8, <1>9, <1>12, <1>13 DEF Renews
<1>15. QED
  BY <1>1, <1>6, <1>7, <1>14, RenewInverted DEF old

(* Another place among the siblings.                                        *)
LEMMA ReorderInverted ==
  ASSUME NEW d \in DocumentRecords, Valid(d),
         NEW c \in Commands, c.kind = "reorder", Executes(d, c),
         NEW entry, Carries(entry, InverseOf(d, c), c.kind)
  PROVE  Inverted(d, c, entry)
<1> DEFINE tree == d.tree
           id == c.node
           parent == Node(tree, id).parent
           siblings == Children(tree, parent)
           place == SiblingIndex(tree, id)
           list == CutList(tree, id)
           moved == InsertAt(list, c.index + 1, id)
           t == SetChildren(tree, parent, moved)
<1>1. /\ id \in Ids(tree) \ {Root} /\ place # c.index
      /\ c.index < Len(siblings)
  BY DEF Executes, Accepts, NoOp
<1>2. c.index \in Nat
  BY DEF Commands
<1>3. tree \in Trees /\ WellFormed(tree)
  BY DEF Valid, Structural, DocumentRecords
<1>4. UniqueIds(tree.nodes) /\ parent \in Ids(tree)
  BY <1>1, <1>3, TreeShape
<1>5. /\ place \in 0 .. Len(siblings) - 1
      /\ siblings[place + 1] = id
      /\ \A i \in 0 .. Len(siblings) - 1 : siblings[i + 1] = id => i = place
      /\ siblings \in Seq(NodeIds) /\ list \in Seq(NodeIds)
      /\ Len(list) = Len(siblings) - 1
      /\ InsertAt(list, place + 1, id) = siblings
      /\ Range(list) = Range(siblings) \ {id}
  <2>1. Places(tree, id, siblings, place, list)
    BY <1>1, <1>3, SiblingPlace
  <2>2. QED
    BY <2>1 DEF Places
<1>6. id \in NodeIds /\ Len(siblings) \in Nat
  BY <1>1, <1>3, <1>5, IdsTyped, LenProperties
<1>7. c.index + 1 \in 1 .. Len(list) + 1
  BY <1>1, <1>2, <1>5, <1>6
<1>8. c.index \in 0 .. Len(siblings) - 1
  BY <1>1, <1>2, <1>6
<1>9. /\ moved \in Seq(NodeIds)
      /\ Len(moved) = Len(siblings)
      /\ moved[c.index + 1] = id
      /\ Without(moved, id) = list
  <2> DEFINE p == c.index + 1
  <2>1. \A n \in 1 .. Len(list) : list[n] # id
    <3>1. DOMAIN list = 1 .. Len(list)
      BY <1>5, LenProperties
    <3>2. \A n \in 1 .. Len(list) : list[n] \in Range(list)
      BY <3>1 DEF Range
    <3>3. QED
      BY <3>2, <1>5
  <2>2. p \in 1 .. Len(list) + 1
    BY <1>7
  <2> HIDE DEF p, list, siblings, id
  <2>3. InsertAt(list, p, id) \in Seq(NodeIds)
    BY <1>5, <1>6, <2>2, InsertProperties
  <2>4. Len(InsertAt(list, p, id)) = Len(list) + 1
    BY <1>5, <1>6, <2>2, InsertProperties
  <2>5. InsertAt(list, p, id)[p] = id
    BY <1>5, <1>6, <2>2, InsertProperties
  <2>6. Without(InsertAt(list, p, id), id) = list
    BY <1>5, <1>6, <2>1, <2>2, WithoutInserted
  <2>7. QED
    BY <2>3, <2>4, <2>5, <2>6, <1>5, <1>6 DEF p
<1>10. id \in Range(siblings) /\ id \in Range(moved)
  <2>1. place + 1 \in DOMAIN siblings /\ c.index + 1 \in DOMAIN moved
    BY <1>5, <1>6, <1>8, <1>9, LenProperties
  <2>2. QED
    BY <2>1, <1>5, <1>9 DEF Range
<1>11. Without(siblings, id) = list
  BY DEF CutList
<1>12. /\ entry.kind = "reorder" /\ entry.root = id /\ entry.parent = parent
       /\ entry.sibling_index = place /\ entry.after = c.index
  BY DEF Carries, InverseOf, Entry0
<1>13. After(d, c) = [d EXCEPT !.tree = t]
  BY DEF After, ReorderChild, CutList
<1> HIDE DEF moved, siblings, place, list, id, parent
<1>14. HasChildren(t, tree, parent, moved)
  BY <1>3, <1>4, <1>9, SetChildrenNodes
<1>15. /\ After(d, c) \in DocumentRecords
       /\ After(d, c).tree = t
       /\ Content(After(d, c)) = [nodes |-> t.nodes, metadata |-> d.metadata]
  BY <1>13, <1>14, WithTree DEF HasChildren
<1>16. Content(d) = [nodes |-> tree.nodes, metadata |-> d.metadata]
  BY ContentTyped
<1>17. t.nodes # tree.nodes
  <2>1. t.nodes = tree.nodes => Children(t, parent) = Children(tree, parent)
    BY SameNodes
  <2>2. Children(t, parent) = moved
    BY <1>4, <1>14 DEF HasChildren
  <2>3. moved # siblings
    BY <1>1, <1>5, <1>8, <1>9
  <2>4. QED
    BY <2>1, <2>2, <2>3 DEF siblings
<1> HIDE DEF t
<1>18. Undoes(entry, Content(After(d, c)), Content(d))
  <2> SUFFICES ASSUME NEW e \in DocumentRecords, Content(e) = Content(After(d, c))
               PROVE  /\ CanRevert(e, entry)
                      /\ Reverted(e, entry) \in DocumentRecords
                      /\ Content(Reverted(e, entry)) = Content(d)
    BY DEF Undoes
  <2>1. e.tree.nodes = t.nodes /\ e.metadata = d.metadata /\ e.tree \in Trees
    BY <1>15 DEF Content, DocumentRecords
  <2>2. /\ parent \in Ids(e.tree)
        /\ Children(e.tree, parent) = moved
        /\ SetChildren(e.tree, parent, siblings) \in Trees
        /\ siblings = Children(tree, parent) =>
             SetChildren(e.tree, parent, siblings).nodes = tree.nodes
    <3>1. e.tree.nodes = SetChildren(tree, parent, moved).nodes
      BY <2>1 DEF t
    <3> HIDE DEF tree
    <3>2. ChildrenAgain(e.tree, tree, parent, moved, siblings)
      BY <3>1, <2>1, <1>3, <1>4, <1>5, <1>9, SetChildrenTwice
    <3>3. QED
      BY <3>2 DEF ChildrenAgain
  <2>3. ReorderChild(e.tree, parent, id, place) = SetChildren(e.tree, parent, siblings)
    BY <2>2, <1>5, <1>9 DEF ReorderChild
  <2>4. CanRevert(e, entry)
    BY <2>2, <1>5, <1>6, <1>9, <1>10, <1>12 DEF CanRevert, Reorderable
  <2>5. Reverted(e, entry) = [e EXCEPT !.tree = SetChildren(e.tree, parent, siblings)]
    BY <2>3, <1>12 DEF Reverted, Reordered
  <2>6. SetChildren(e.tree, parent, siblings).nodes = tree.nodes
    BY <2>2 DEF siblings
  <2>7. QED
    BY <2>1, <2>2, <2>4, <2>5, <2>6, <1>16, WithTree
<1>19. Redoes(entry, Content(d), Content(After(d, c)))
  <2> SUFFICES ASSUME NEW e \in DocumentRecords, Content(e) = Content(d)
               PROVE  /\ CanReapply(e, entry)
                      /\ Reapplied(e, entry) \in DocumentRecords
                      /\ Content(Reapplied(e, entry)) = Content(After(d, c))
    BY DEF Redoes
  <2>1. e.tree.nodes = tree.nodes /\ e.metadata = d.metadata /\ e.tree \in Trees
    BY <1>16 DEF Content, DocumentRecords
  <2>2. /\ Ids(e.tree) = Ids(tree)
        /\ Children(e.tree, parent) = siblings
        /\ IndexOf(e.tree, parent) = IndexOf(tree, parent)
        /\ WithChildren(e.tree, parent, moved) = WithChildren(tree, parent, moved)
    BY <2>1, SameNodes DEF siblings, WithChildren
  <2>3. HasChildren(SetChildren(e.tree, parent, moved), e.tree, parent, moved)
    BY <2>1, <2>2, <1>4, <1>9, SetChildrenNodes
  <2>4. /\ SetChildren(e.tree, parent, moved) \in Trees
        /\ SetChildren(e.tree, parent, moved).nodes = t.nodes
    BY <2>1, <2>2, <2>3, <1>14 DEF HasChildren
  <2>5. ReorderChild(e.tree, parent, id, c.index) = SetChildren(e.tree, parent, moved)
    BY <2>2, <1>11 DEF ReorderChild, moved
  <2>6. CanReapply(e, entry)
    BY <2>2, <1>1, <1>4, <1>10, <1>12 DEF CanReapply, Reorderable, siblings
  <2>7. Reapplied(e, entry) = [e EXCEPT !.tree = SetChildren(e.tree, parent, moved)]
    BY <2>5, <1>12 DEF Reapplied, Reordered
  <2>8. QED
    BY <2>1, <2>4, <2>6, <2>7, <1>15, WithTree
<1>20. Content(After(d, c)) # Content(d)
  BY <1>15, <1>16, <1>17
<1>21. entry.root \in Ids(d.tree) /\ entry.parent \in Ids(d.tree)
  BY <1>1, <1>4, <1>12 DEF id
<1>22. QED
  BY <1>15, <1>18, <1>19, <1>20, <1>21 DEF Inverted

(* The two steps that undo and redo of insertions and deletions are made of. *)
LEMMA RestoreStep ==
  ASSUME NEW e \in DocumentRecords, NEW entry, NEW nodes,
         entry.nodes \in Seq(StoredOf(NodeRecords)),
         Restores(e.tree, entry.nodes, entry.root, entry.parent, entry.sibling_index, nodes)
  PROVE  /\ Restorable(e.tree, entry)
         /\ Restored(e, entry) \in DocumentRecords
         /\ Content(Restored(e, entry)) = [nodes |-> nodes, metadata |-> e.metadata]
<1> DEFINE t == RestoreNodes(e.tree, entry.nodes, entry.root, entry.parent, entry.sibling_index)
<1>1. t \in Trees /\ t.nodes = nodes
  BY DEF Restores
<1>2. Restored(e, entry) = [e EXCEPT !.tree = t]
  BY DEF Restored
<1>3. DOMAIN entry.nodes = 1 .. Len(entry.nodes)
  BY LenProperties
<1>4. Restorable(e.tree, entry)
  BY <1>3 DEF Restorable, Restores, Fits
<1> HIDE DEF t
<1>5. QED
  BY <1>1, <1>2, <1>4, WithTree

(* Removing a subtree again, from a tree with the same nodes, whatever its  *)
(* next id.                                                                 *)
LEMMA RemoveStep ==
  ASSUME NEW tree \in Trees, WellFormed(tree), NEW id \in Ids(tree) \ {Root},
         WellFormed(RemoveNode(tree, id)),
         NEW entry, entry.root = id,
         NEW e \in DocumentRecords, e.tree.nodes = tree.nodes
  PROVE  /\ Removable(e.tree, entry)
         /\ Removed(e, entry) \in DocumentRecords
         /\ Content(Removed(e, entry)) =
              [nodes |-> RemoveNode(tree, id).nodes, metadata |-> e.metadata]
<1> DEFINE t == RemoveNode(e.tree, id)
<1>1. e.tree \in Trees
  BY DEF DocumentRecords
<1>2. WellFormed(e.tree) /\ Ids(e.tree) = Ids(tree)
  BY SameNodes
<1>3. t.nodes = RemoveNode(tree, id).nodes
  BY <1>1, SameRemoval
<1>4. t.nodes # <<>> => t \in Trees
  BY <1>1, <1>2, RemoveShape
<1>5. t \in Trees
  BY <1>3, <1>4 DEF WellFormed
<1>6. Removed(e, entry) = [e EXCEPT !.tree = t]
  BY DEF Removed
<1>7. Removable(e.tree, entry)
  BY <1>2 DEF Removable
<1> HIDE DEF t
<1>8. QED
  BY <1>3, <1>5, <1>6, <1>7, WithTree

(* A removed subtree.                                                       *)
LEMMA DeleteInverted ==
  ASSUME NEW d \in DocumentRecords, Valid(d),
         NEW c \in Commands, c.kind = "delete", Executes(d, c),
         NEW entry, Carries(entry, InverseOf(d, c), c.kind)
  PROVE  Inverted(d, c, entry)
<1> DEFINE tree == d.tree
           id == c.node
           t == RemoveNode(tree, id)
<1>1. id \in Ids(tree) \ {Root}
  BY DEF Executes, Accepts
<1>2. tree \in Trees /\ WellFormed(tree)
  BY DEF Valid, Structural, DocumentRecords
<1>3. After(d, c) = [d EXCEPT !.tree = t]
  BY DEF After
<1>4. WellFormed(t)
  <2>1. WellFormed(After(d, c).tree)
    BY DEF Executes, Valid, Structural
  <2>2. After(d, c).tree = t
    BY <1>3 DEF DocumentRecords
  <2>3. QED
    BY <2>1, <2>2
<1>5. /\ t \in Trees
      /\ id \in Subtree(tree, id)
      /\ Node(tree, id).parent \in Ids(tree)
      /\ Ids(t) = Ids(tree) \ Subtree(tree, id)
  BY <1>1, <1>2, <1>4, RemoveKeeps
<1>6. /\ After(d, c) \in DocumentRecords
      /\ After(d, c).tree = t
      /\ Content(After(d, c)) = [nodes |-> t.nodes, metadata |-> d.metadata]
  BY <1>3, <1>5, WithTree
<1>7. Content(d) = [nodes |-> tree.nodes, metadata |-> d.metadata]
  BY ContentTyped
<1>8. /\ entry.kind = "delete" /\ entry.nodes = Stored(tree, Subtree(tree, id))
      /\ entry.root = id /\ entry.parent = Node(tree, id).parent
      /\ entry.sibling_index = SiblingIndex(tree, id)
  BY DEF Carries, InverseOf, Entry0
<1>9. entry.nodes \in Seq(StoredOf(NodeRecords))
  BY <1>1, <1>2, <1>4, <1>8, StoredFromCut
<1>10. Undoes(entry, Content(After(d, c)), Content(d))
  <2> SUFFICES ASSUME NEW e \in DocumentRecords, Content(e) = Content(After(d, c))
               PROVE  /\ CanRevert(e, entry)
                      /\ Reverted(e, entry) \in DocumentRecords
                      /\ Content(Reverted(e, entry)) = Content(d)
    BY DEF Undoes
  <2>1. e.tree.nodes = t.nodes /\ e.metadata = d.metadata /\ e.tree \in Trees
    BY <1>6 DEF Content, DocumentRecords
  <2>2. Restores(e.tree, entry.nodes, entry.root, entry.parent, entry.sibling_index, tree.nodes)
    BY <2>1, <1>1, <1>2, <1>4, <1>8, RestoresSubtree
  <2>3. CanRevert(e, entry) <=> Restorable(e.tree, entry)
    BY <1>8 DEF CanRevert
  <2>4. Reverted(e, entry) = Restored(e, entry)
    BY <1>8 DEF Reverted
  <2>5. /\ Restorable(e.tree, entry)
        /\ Restored(e, entry) \in DocumentRecords
        /\ Content(Restored(e, entry)) = [nodes |-> tree.nodes, metadata |-> e.metadata]
    BY <2>2, <1>9, RestoreStep
  <2>6. QED
    BY <2>1, <2>3, <2>4, <2>5, <1>7
<1>11. Redoes(entry, Content(d), Content(After(d, c)))
  <2> SUFFICES ASSUME NEW e \in DocumentRecords, Content(e) = Content(d)
               PROVE  /\ CanReapply(e, entry)
                      /\ Reapplied(e, entry) \in DocumentRecords
                      /\ Content(Reapplied(e, entry)) = Content(After(d, c))
    BY DEF Redoes
  <2>1. e.tree.nodes = tree.nodes /\ e.metadata = d.metadata
    BY <1>7 DEF Content
  <2>2. CanReapply(e, entry) <=> Removable(e.tree, entry)
    BY <1>8 DEF CanReapply
  <2>3. Reapplied(e, entry) = Removed(e, entry)
    BY <1>8 DEF Reapplied
  <2>4. QED
    BY <2>1, <2>2, <2>3, <1>1, <1>2, <1>4, <1>6, <1>8, RemoveStep
<1>12. Content(After(d, c)) # Content(d)
  <2>1. t.nodes = tree.nodes => Ids(t) = Ids(tree)
    BY SameNodes
  <2>2. t.nodes # tree.nodes
    BY <2>1, <1>1, <1>5
  <2>3. QED
    BY <2>2, <1>6, <1>7
<1>13. QED
  BY <1>1, <1>5, <1>6, <1>8, <1>10, <1>11, <1>12 DEF Inverted

(* An inserted move.                                                        *)
LEMMA InsertInverted ==
  ASSUME NEW d \in DocumentRecords, Valid(d),
         NEW c \in Commands, c.kind = "insert", Executes(d, c),
         NEW entry, Carries(entry, InverseOf(d, c), c.kind)
  PROVE  Inverted(d, c, entry)
<1> DEFINE tree == d.tree
           id == tree.next
           t == AddNode(tree, c.parent, c.move, c.index)
<1>1. /\ c.parent \in Ids(tree) /\ ValidMove(c.move) /\ CanAllocate(tree)
      /\ c.index <= Len(Children(tree, c.parent))
  BY DEF Executes, Accepts
<1>2. c.move \in MoveRecords /\ c.index \in Nat
  <2>1. c.move \in AnyMove /\ c.index \in Nat
    BY DEF Commands
  <2>2. QED
    BY <2>1, <1>1 DEF AnyMove, ValidMove, MoveRecords
<1>3. tree \in Trees /\ WellFormed(tree)
  BY DEF Valid, Structural, DocumentRecords
<1>4. c.index \in 0 .. Len(Children(tree, c.parent))
  <2>1. Children(tree, c.parent) \in Seq(NodeIds)
    BY <1>1, <1>3, TreeShape
  <2>2. QED
    BY <2>1, <1>1, <1>2, LenProperties
<1>5. After(d, c) = [d EXCEPT !.tree = t]
  BY DEF After
<1>6. After(d, c).tree = t
  BY <1>5 DEF DocumentRecords
<1>7. WellFormed(t)
  BY <1>6 DEF Executes, Valid, Structural
<1>8. Inserts(t, tree, c.parent, c.move, c.index)
  BY <1>1, <1>2, <1>3, <1>4, <1>7, AddedNode
<1> HIDE DEF t
<1>9. /\ t \in Trees
      /\ id \notin Ids(tree) /\ Ids(t) = Ids(tree) \cup {id}
      /\ Node(t, id).parent = c.parent
      /\ Subtree(t, id) = {id} /\ SiblingIndex(t, id) = c.index
      /\ RemoveNode(t, id).nodes = tree.nodes
  BY <1>8 DEF Inserts, NewNode
<1>10. id \in Ids(t) \ {Root}
  BY <1>3, <1>9, TreeShape
<1>11. WellFormed(RemoveNode(t, id))
  BY <1>3, <1>9, SameNodes
<1>12. /\ After(d, c) \in DocumentRecords
       /\ Content(After(d, c)) = [nodes |-> t.nodes, metadata |-> d.metadata]
  BY <1>5, <1>9, WithTree
<1>13. Content(d) = [nodes |-> tree.nodes, metadata |-> d.metadata]
  BY ContentTyped
<1>14. /\ entry.kind = "insert" /\ entry.nodes = Stored(t, Subtree(t, id))
       /\ entry.root = id /\ entry.parent = Node(t, id).parent
       /\ entry.sibling_index = SiblingIndex(t, id)
  BY <1>6, <1>9 DEF Carries, InverseOf, Entry0
<1>15. entry.nodes \in Seq(StoredOf(NodeRecords))
  BY <1>7, <1>9, <1>10, <1>11, <1>14, StoredFromCut
<1>16. Undoes(entry, Content(After(d, c)), Content(d))
  <2> SUFFICES ASSUME NEW e \in DocumentRecords, Content(e) = Content(After(d, c))
               PROVE  /\ CanRevert(e, entry)
                      /\ Reverted(e, entry) \in DocumentRecords
                      /\ Content(Reverted(e, entry)) = Content(d)
    BY DEF Undoes
  <2>1. e.tree.nodes = t.nodes /\ e.metadata = d.metadata
    BY <1>12 DEF Content
  <2>2. CanRevert(e, entry) <=> Removable(e.tree, entry)
    BY <1>14 DEF CanRevert
  <2>3. Reverted(e, entry) = Removed(e, entry)
    BY <1>14 DEF Reverted
  <2>4. QED
    BY <2>1, <2>2, <2>3, <1>7, <1>9, <1>10, <1>11, <1>13, <1>14, RemoveStep
<1>17. Redoes(entry, Content(d), Content(After(d, c)))
  <2> SUFFICES ASSUME NEW e \in DocumentRecords, Content(e) = Content(d)
               PROVE  /\ CanReapply(e, entry)
                      /\ Reapplied(e, entry) \in DocumentRecords
                      /\ Content(Reapplied(e, entry)) = Content(After(d, c))
    BY DEF Redoes
  <2>1. e.tree.nodes = RemoveNode(t, id).nodes /\ e.metadata = d.metadata /\ e.tree \in Trees
    BY <1>9, <1>13 DEF Content, DocumentRecords
  <2>2. Restores(e.tree, entry.nodes, entry.root, entry.parent, entry.sibling_index, t.nodes)
    BY <2>1, <1>7, <1>9, <1>10, <1>11, <1>14, RestoresSubtree
  <2>3. CanReapply(e, entry) <=> Restorable(e.tree, entry)
    BY <1>14 DEF CanReapply
  <2>4. Reapplied(e, entry) = Restored(e, entry)
    BY <1>14 DEF Reapplied
  <2>5. /\ Restorable(e.tree, entry)
        /\ Restored(e, entry) \in DocumentRecords
        /\ Content(Restored(e, entry)) = [nodes |-> t.nodes, metadata |-> e.metadata]
    BY <2>2, <1>15, RestoreStep
  <2>6. QED
    BY <2>1, <2>3, <2>4, <2>5, <1>12
<1>18. Content(After(d, c)) # Content(d)
  <2>1. t.nodes = tree.nodes => Ids(t) = Ids(tree)
    BY SameNodes
  <2>2. t.nodes # tree.nodes
    BY <2>1, <1>9
  <2>3. QED
    BY <2>2, <1>12, <1>13
<1>19. entry.root \in Ids(After(d, c).tree) /\ entry.parent \in Ids(d.tree)
  BY <1>1, <1>6, <1>9, <1>10, <1>14
<1>20. QED
  BY <1>12, <1>16, <1>17, <1>18, <1>19 DEF Inverted

-----------------------------------------------------------------------------
(* What a command does to the tree, as far as clients and allocation notice *)

(* No id of the set will be given to a new node.                            *)
Fresh(next, ids) == next = MaxNodeId \/ \A x \in ids : x < next

(* rebuildIndex leaves a next id that is above every id in use and every id *)
(* that was below it.                                                       *)
LEMMA ReindexedNext ==
  ASSUME NEW nodes \in Seq(NodeRecords), nodes # <<>>, NEW next \in NodeIds,
         NEW ids, ids \subseteq Nat, \A x \in ids : x < next
  PROVE  Fresh(Reindexed(nodes, next).next, ids \cup Ids(Reindexed(nodes, next)))
<1> DEFINE S == {node.id : node \in Range(nodes)}
           highest == Max(S)
           t == Reindexed(nodes, next)
<1>1. nodes[1] \in Range(nodes) /\ \A node \in Range(nodes) : node \in NodeRecords
  BY EmptySeq, LenProperties, ElementOfSeq DEF Range
<1>2. S \subseteq NodeIds /\ S # {}
  BY <1>1 DEF NodeRecords
<1>3. highest \in NodeIds /\ \A x \in S : x <= highest
  BY <1>2, LargestId
<1>4. t = [nodes |-> nodes,
           next |-> IF highest = MaxNodeId THEN MaxNodeId ELSE Max({next, highest + 1})]
  BY DEF Reindexed
<1>5. Ids(t) = S
  BY <1>4 DEF Ids
<1> HIDE DEF highest, t, S
<1>6. CASE highest = MaxNodeId
  BY <1>4, <1>6 DEF Fresh, t
<1>7. CASE highest # MaxNodeId
  <2> DEFINE pair == {next, highest + 1}
  <2>1. highest + 1 \in NodeIds
    BY <1>3, <1>7, NodeIdAssumption DEF NodeIds
  <2>2. Max(pair) \in pair /\ \A x \in pair : x <= Max(pair)
    <3>1. pair \subseteq NodeIds /\ pair # {}
      BY <2>1
    <3> HIDE DEF pair
    <3>2. QED
      BY <3>1, LargestId
  <2>3. t.next = Max(pair)
    BY <1>4, <1>7
  <2>4. Max(pair) \in Nat /\ next <= Max(pair) /\ highest + 1 <= Max(pair)
    BY <2>1, <2>2, NodeIdAssumption DEF NodeIds
  <2> HIDE DEF pair
  <2>5. \A x \in S : x < Max(pair)
    BY <2>4, <1>2, <1>3, NodeIdAssumption DEF NodeIds
  <2>6. \A x \in ids : x < Max(pair)
    BY <2>4, NodeIdAssumption DEF NodeIds
  <2>7. QED
    BY <2>3, <2>5, <2>6, <1>5 DEF Fresh, t
<1>8. QED
  BY <1>6, <1>7 DEF t

ChangeSets ==
  [inserted : SUBSET NodeIds, removed : SUBSET NodeIds, updated : SUBSET NodeIds,
   reordered_parents : SUBSET NodeIds,
   metadata_changed : BOOLEAN, selection_changed : BOOLEAN]

(* What is inserted is new, and what is removed was there or is new.        *)
Balanced(ids, changes) ==
  /\ changes.inserted \cap ids = {}
  /\ changes.removed \subseteq ids \cup changes.inserted

(* Read backwards, a change set announces the way back.                     *)
Swapped(changes) ==
  [changes EXCEPT !.inserted = changes.removed, !.removed = changes.inserted]

(* With inserted and removed exchanged a change set announces the way back. *)
LEMMA AnnouncedBack ==
  ASSUME NEW d, NEW e, NEW changes \in ChangeSets,
         AnnouncesChanges(d, e, changes), Balanced(Ids(d.tree), changes)
  PROVE  AnnouncesChanges(e, d, Swapped(changes))
<1> DEFINE back == Swapped(changes)
<1>1. /\ back.inserted = changes.removed /\ back.removed = changes.inserted
      /\ back.updated = changes.updated
      /\ back.reordered_parents = changes.reordered_parents
      /\ back.metadata_changed = changes.metadata_changed
  BY DEF Swapped, ChangeSets
<1>2. Ids(d.tree) = (Ids(e.tree) \cup back.inserted) \ back.removed
  BY <1>1 DEF AnnouncesChanges, Balanced
<1>3. QED
  BY <1>1, <1>2 DEF AnnouncesChanges

(* The effect of a command that is carried out.                             *)
Effective(d, current, c) ==
  LET e == After(d, c)
      changes == ChangesOf(d, current, c)
  IN  /\ e \in DocumentRecords
      /\ changes \in ChangeSets
      /\ changes.inserted \subseteq {d.tree.next}
      /\ changes.inserted # {} => d.tree.next # MaxNodeId /\ d.tree.next \notin Ids(d.tree)
      /\ changes.removed \subseteq Ids(d.tree)
      /\ AnnouncesChanges(d, e, changes)
      /\ SelectionAfter(d, current, c) \in Ids(e.tree)
      /\ DistinctMoves(d.tree) => DistinctMoves(e.tree)
      /\ \A ids \in SUBSET NodeIds : Ids(d.tree) \subseteq ids /\ Fresh(d.tree.next, ids) =>
           Fresh(e.tree.next, ids \cup Ids(e.tree))

(* What a change of the metadata does to a document and announces. *)
LEMMA MetadataEffect ==
  ASSUME NEW d \in DocumentRecords, Valid(d), NEW current \in Ids(d.tree),
         NEW c \in Commands, c.kind = "metadata", Executes(d, c)
  PROVE  Effective(d, current, c)
<1> DEFINE e == After(d, c)
           changes == ChangesOf(d, current, c)
<1>1. c.metadata \in Metadata
  BY DEF Commands
<1>2. e = [d EXCEPT !.metadata = c.metadata]
  BY DEF After
<1>3. e \in DocumentRecords /\ e.tree = d.tree
  BY <1>1, <1>2 DEF DocumentRecords
<1>4. /\ changes = [NoChanges EXCEPT !.metadata_changed = TRUE]
      /\ SelectionAfter(d, current, c) = current
  BY DEF ChangesOf, SelectionAfter
<1>5. /\ changes \in ChangeSets
      /\ changes.inserted = {} /\ changes.removed = {} /\ changes.metadata_changed
  BY <1>4 DEF NoChanges, ChangeSets
<1> HIDE DEF e, changes
<1>6. AnnouncesChanges(d, e, changes)
  BY <1>3, <1>5 DEF AnnouncesChanges
<1>7. \A ids \in SUBSET NodeIds : Ids(d.tree) \subseteq ids => ids \cup Ids(e.tree) = ids
  BY <1>3
<1>8. QED
  BY <1>3, <1>4, <1>5, <1>6, <1>7 DEF Effective, e, changes

(* The next id stays above the ids it was above, and above those in use.    *)
LEMMA FreshKept ==
  ASSUME NEW nodes \in Seq(NodeRecords), nodes # <<>>, NEW next \in NodeIds,
         NEW ids, ids \subseteq Nat, Fresh(next, ids)
  PROVE  Fresh(Reindexed(nodes, next).next, ids \cup Ids(Reindexed(nodes, next)))
<1>1. CASE next # MaxNodeId
  BY <1>1, ReindexedNext DEF Fresh
<1>2. CASE next = MaxNodeId
  <2> DEFINE S == {node.id : node \in Range(nodes)}
             highest == Max(S)
             pair == {next, highest + 1}
  <2>1. nodes[1] \in Range(nodes) /\ \A node \in Range(nodes) : node \in NodeRecords
    BY EmptySeq, LenProperties, ElementOfSeq DEF Range
  <2>2. S \subseteq NodeIds /\ S # {}
    BY <2>1 DEF NodeRecords
  <2>3. highest \in NodeIds
    BY <2>2, LargestId
  <2>4. Reindexed(nodes, next).next =
          IF highest = MaxNodeId THEN MaxNodeId ELSE Max(pair)
    BY DEF Reindexed
  <2> HIDE DEF highest, S
  <2>5. CASE highest # MaxNodeId
    <3>1. pair \subseteq NodeIds /\ pair # {} /\ MaxNodeId \in pair
      BY <1>2, <2>3, <2>5, NodeIdAssumption DEF NodeIds
    <3> HIDE DEF pair
    <3>2. Max(pair) \in NodeIds /\ MaxNodeId <= Max(pair)
      BY <3>1, LargestId
    <3>3. Max(pair) = MaxNodeId
      BY <3>2, NodeIdAssumption DEF NodeIds
    <3>4. QED
      BY <2>4, <2>5, <3>3 DEF Fresh
  <2>6. QED
    BY <2>4, <2>5 DEF Fresh
<1>3. QED
  BY <1>1, <1>2

(* The moves of the children of a node, by its id.                          *)
LEMMA DistinctById ==
  ASSUME NEW tree \in Trees, UniqueIds(tree.nodes)
  PROVE  DistinctMoves(tree) <=>
           \A x \in Ids(tree) : \A a, b \in Range(Children(tree, x)) :
             Node(tree, a).move = Node(tree, b).move => a = b
<1>1. \A node \in Range(tree.nodes) :
        node.id \in Ids(tree) /\ Children(tree, node.id) = node.children
  BY NodeAt DEF Range, Children
<1>2. \A x \in Ids(tree) :
        Node(tree, x) \in Range(tree.nodes) /\ Children(tree, x) = Node(tree, x).children
  BY NodeAt DEF Range, Children
<1>3. QED
  BY <1>1, <1>2 DEF DistinctMoves

(* The moves of a tree once a node has another one.                         *)
MoveWith(tree, new, y) == IF y = new.id THEN new.move ELSE Node(tree, y).move

(* A command that gives one node another move or other annotations.         *)
LEMMA RenewEffect ==
  ASSUME NEW d \in DocumentRecords, Valid(d), NEW current \in Ids(d.tree),
         NEW c, c.kind \in {"annotate", "replace"}, Executes(d, c),
         NEW new \in NodeRecords, new.id = c.node, c.node \in Ids(d.tree),
         new.children = Children(d.tree, c.node),
         After(d, c) = [d EXCEPT !.tree = Update(d.tree, new)],
         DistinctMoves(d.tree) =>
           \A x \in Ids(d.tree) : \A a, b \in Range(Children(d.tree, x)) :
             MoveWith(d.tree, new, a) = MoveWith(d.tree, new, b) => a = b
  PROVE  Effective(d, current, c)
<1> DEFINE tree == d.tree
           e == After(d, c)
           t == e.tree
           changes == ChangesOf(d, current, c)
<1>1. /\ tree \in Trees /\ UniqueIds(tree.nodes) /\ Ids(tree) \subseteq NodeIds
      /\ \A x \in Ids(tree) : Range(Children(tree, x)) \subseteq Ids(tree)
  BY TreeShape, IdsTyped DEF Valid, Structural, DocumentRecords
<1>2. Update(tree, new) \in Trees
  BY <1>1, UpdateNode
<1>3. e \in DocumentRecords /\ t = Update(tree, new) /\ e.metadata = d.metadata
  BY <1>2 DEF DocumentRecords
<1>4. /\ t \in Trees /\ t.next = tree.next /\ UniqueIds(t.nodes) /\ Ids(t) = Ids(tree)
      /\ \A id \in Ids(tree) : Node(t, id) = IF id = c.node THEN new ELSE Node(tree, id)
  <2> DEFINE u == Update(tree, new)
  <2>1. /\ u \in Trees /\ u.next = tree.next /\ UniqueIds(u.nodes) /\ Ids(u) = Ids(tree)
        /\ \A id \in Ids(tree) : Node(u, id) = IF id = new.id THEN new ELSE Node(tree, id)
    <3>1. new.id \in Ids(tree)
      OBVIOUS
    <3> HIDE DEF tree
    <3>2. QED
      BY <1>1, <3>1, UpdateNode
  <2> HIDE DEF u, e
  <2>2. QED
    BY <2>1, <1>3 DEF u
<1>5. /\ changes = [NoChanges EXCEPT !.updated = {c.node}]
      /\ SelectionAfter(d, current, c) = current
  BY DEF ChangesOf, SelectionAfter
<1>6. /\ changes \in ChangeSets
      /\ changes.inserted = {} /\ changes.removed = {} /\ changes.updated = {c.node}
  <2>1. c.node \in NodeIds
    BY <1>1
  <2> HIDE DEF changes
  <2>2. changes = [inserted |-> {}, removed |-> {}, updated |-> {c.node},
                   reordered_parents |-> {}, metadata_changed |-> FALSE,
                   selection_changed |-> FALSE]
    BY <1>5 DEF NoChanges
  <2>3. QED
    BY <2>1, <2>2 DEF ChangeSets
<1> HIDE DEF e, changes
<1>7. \A id \in Ids(tree) : Children(t, id) = Children(tree, id)
  BY <1>4 DEF Children
<1>8. AnnouncesChanges(d, e, changes)
  BY <1>3, <1>4, <1>6, <1>7 DEF AnnouncesChanges
<1>9. \A x \in Ids(tree) : Node(t, x).move = MoveWith(tree, new, x)
  BY <1>4 DEF MoveWith
<1>10. DistinctMoves(tree) => DistinctMoves(t)
  <2> HIDE DEF t
  <2>1. DistinctMoves(t) <=>
           \A x \in Ids(t) : \A a, b \in Range(Children(t, x)) :
             Node(t, a).move = Node(t, b).move => a = b
    BY <1>4, DistinctById
  <2>2. QED
    BY <2>1, <1>1, <1>4, <1>7, <1>9
<1>11. \A ids \in SUBSET NodeIds : Ids(tree) \subseteq ids => ids \cup Ids(t) = ids
  BY <1>4
<1>12. QED
  BY <1>3, <1>4, <1>5, <1>6, <1>8, <1>10, <1>11 DEF Effective, e, changes

(* Other annotations leave every move where it is.                          *)
LEMMA AnnotateEffect ==
  ASSUME NEW d \in DocumentRecords, Valid(d), NEW current \in Ids(d.tree),
         NEW c \in Commands, c.kind = "annotate", Executes(d, c)
  PROVE  Effective(d, current, c)
<1> DEFINE tree == d.tree
           old == Node(tree, c.node)
           new == [old EXCEPT !.annotations = c.annotations]
<1>1. c.annotations \in Annotations
  BY DEF Commands
<1>2. c.node \in Ids(tree)
  BY DEF Executes, Accepts
<1>3. tree \in Trees /\ UniqueIds(tree.nodes)
  BY TreeShape DEF Valid, Structural, DocumentRecords
<1>4. old \in NodeRecords /\ old.id = c.node
  BY <1>2, <1>3, NodeAt
<1>5. new \in NodeRecords /\ new.id = c.node /\ new.move = old.move
      /\ new.children = Children(tree, c.node)
  BY <1>1, <1>4 DEF NodeRecords, Children
<1>6. After(d, c) = [d EXCEPT !.tree = Update(tree, new)]
  BY DEF After
<1> HIDE DEF new
<1>7. \A y : MoveWith(tree, new, y) = Node(tree, y).move
  BY <1>5 DEF MoveWith
<1>8. DistinctMoves(tree) =>
        \A x \in Ids(tree) : \A a, b \in Range(Children(tree, x)) :
          MoveWith(tree, new, a) = MoveWith(tree, new, b) => a = b
  BY <1>3, <1>7, DistinctById
<1>9. QED
  BY <1>2, <1>5, <1>6, <1>8, RenewEffect

(* Another move is none of the siblings'.                                   *)
LEMMA ReplaceEffect ==
  ASSUME NEW d \in DocumentRecords, Valid(d), NEW current \in Ids(d.tree),
         NEW c \in Commands, c.kind = "replace", Executes(d, c)
  PROVE  Effective(d, current, c)
<1> DEFINE tree == d.tree
           old == Node(tree, c.node)
           new == [old EXCEPT !.move = c.move]
<1>1. /\ c.node \in Ids(tree) \ {Root} /\ ValidMove(c.move) /\ c.move \in AnyMove
      /\ ~HasChildMove(tree, old.parent, c.move, {c.node})
  BY DEF Executes, Accepts, Commands
<1>2. c.move \in MoveRecords
  BY <1>1 DEF ValidMove, AnyMove, MoveRecords
<1>3. tree \in Trees /\ UniqueIds(tree.nodes)
  BY TreeShape DEF Valid, Structural, DocumentRecords
<1>4. old \in NodeRecords /\ old.id = c.node
  BY <1>1, <1>3, NodeAt
<1>5. new \in NodeRecords /\ new.id = c.node /\ new.move = c.move
      /\ new.children = Children(tree, c.node)
  BY <1>2, <1>4 DEF NodeRecords, Children
<1>6. After(d, c) = [d EXCEPT !.tree = Update(tree, new)]
  BY DEF After
<1> HIDE DEF new
<1>7. \A x \in Ids(tree) : \A child \in Range(Children(tree, x)) :
        Node(tree, child).parent = x
  BY <1>3, TreeShape DEF Valid, Structural
<1>8. ASSUME DistinctMoves(tree),
             NEW x \in Ids(tree), NEW a \in Range(Children(tree, x)),
             NEW b \in Range(Children(tree, x)),
             MoveWith(tree, new, a) = MoveWith(tree, new, b)
      PROVE  a = b
  <2>1. ASSUME NEW y \in Range(Children(tree, x)), c.node \in Range(Children(tree, x)),
               y # c.node
        PROVE  Node(tree, y).move # c.move
    <3>1. old.parent = x
      BY <2>1, <1>7
    <3>2. QED
      BY <2>1, <3>1, <1>1 DEF HasChildMove
  <2>2. CASE a # c.node /\ b # c.node
    BY <2>2, <1>3, <1>5, <1>8, DistinctById DEF MoveWith
  <2>3. CASE a = c.node /\ b # c.node
    BY <2>1, <2>3, <1>5, <1>8 DEF MoveWith
  <2>4. CASE a # c.node /\ b = c.node
    BY <2>1, <2>4, <1>5, <1>8 DEF MoveWith
  <2>5. QED
    BY <2>2, <2>3, <2>4
<1>9. QED
  BY <1>1, <1>5, <1>6, <1>8, RenewEffect

(* A command that lists other children for a node, adds a node or takes     *)
(* nodes away: the nodes that stay keep their moves and annotations, and    *)
(* the children listed before and after have moves of their own.            *)
Rearranges(tree, t, changes) ==
  /\ t \in Trees
  /\ Ids(t) = (Ids(tree) \cup changes.inserted) \ changes.removed
  /\ \A x \in Ids(tree) \cap Ids(t) :
       /\ Node(t, x).move = Node(tree, x).move
       /\ Node(t, x).annotations = Node(tree, x).annotations
       /\ Children(t, x) # Children(tree, x) => x \in changes.reordered_parents
  /\ DistinctMoves(tree) => DistinctMoves(t)
  /\ \A ids \in SUBSET NodeIds : Ids(tree) \subseteq ids /\ Fresh(tree.next, ids) =>
       Fresh(t.next, ids \cup Ids(t))

(* A command that only rearranges the tree has the effect its change set    *)
(* announces.                                                               *)
LEMMA RearrangeEffect ==
  ASSUME NEW d \in DocumentRecords, NEW current, NEW c, NEW t,
         After(d, c) = [d EXCEPT !.tree = t],
         ChangesOf(d, current, c) \in ChangeSets,
         Rearranges(d.tree, t, ChangesOf(d, current, c)),
         ChangesOf(d, current, c).inserted \subseteq {d.tree.next},
         ChangesOf(d, current, c).inserted # {} =>
           d.tree.next # MaxNodeId /\ d.tree.next \notin Ids(d.tree),
         ChangesOf(d, current, c).removed \subseteq Ids(d.tree),
         SelectionAfter(d, current, c) \in Ids(t)
  PROVE  Effective(d, current, c)
<1> DEFINE e == After(d, c)
           changes == ChangesOf(d, current, c)
<1>1. t \in Trees
  BY DEF Rearranges
<1>2. e \in DocumentRecords /\ e.tree = t /\ e.metadata = d.metadata
  BY <1>1 DEF DocumentRecords
<1> HIDE DEF e, changes
<1>3. AnnouncesChanges(d, e, changes)
  BY <1>2 DEF AnnouncesChanges, Rearranges, changes
<1>4. QED
  BY <1>2, <1>3 DEF Effective, Rearranges, e, changes

(* Another order of the children is announced at their parent.              *)
LEMMA ReorderEffect ==
  ASSUME NEW d \in DocumentRecords, Valid(d), NEW current \in Ids(d.tree),
         NEW c \in Commands, c.kind = "reorder", Executes(d, c)
  PROVE  Effective(d, current, c)
<1> DEFINE tree == d.tree
           id == c.node
           parent == Node(tree, id).parent
           siblings == Children(tree, parent)
           list == CutList(tree, id)
           moved == InsertAt(list, c.index + 1, id)
           t == SetChildren(tree, parent, moved)
           changes == ChangesOf(d, current, c)
<1>1. /\ id \in Ids(tree) \ {Root} /\ c.index < Len(siblings) /\ c.index \in Nat
  BY DEF Executes, Accepts, Commands
<1>2. /\ tree \in Trees /\ WellFormed(tree) /\ UniqueIds(tree.nodes)
      /\ Ids(tree) \subseteq NodeIds /\ parent \in Ids(tree)
  BY <1>1, TreeShape, IdsTyped DEF Valid, Structural, DocumentRecords
<1>3. /\ siblings \in Seq(NodeIds) /\ list \in Seq(NodeIds)
      /\ Len(list) = Len(siblings) - 1
      /\ Range(list) = Range(siblings) \ {id}
      /\ id \in NodeIds /\ Len(siblings) \in Nat
  <2>1. Places(tree, id, siblings, SiblingIndex(tree, id), list)
    BY <1>1, <1>2, SiblingPlace
  <2>2. QED
    BY <2>1, <1>1, <1>2, LenProperties DEF Places
<1>4. moved \in Seq(NodeIds) /\ Range(moved) \subseteq Range(siblings) \cup {id}
  <2> DEFINE p == c.index + 1
  <2>1. p \in 1 .. Len(list) + 1
    BY <1>1, <1>3
  <2> HIDE DEF p, list, siblings, id
  <2>2. InsertAt(list, p, id) \in Seq(NodeIds)
    BY <1>3, <2>1, InsertProperties
  <2>3. Range(InsertAt(list, p, id)) = Range(list) \cup {id}
    BY <1>3, <2>1, InsertRange
  <2>4. QED
    BY <2>2, <2>3, <1>3 DEF p
<1>5. id \in Range(siblings)
  <2>1. PICK k \in 1 .. Len(siblings) : siblings[k] = id
    BY <1>1, <1>2, TreeShape
  <2>2. DOMAIN siblings = 1 .. Len(siblings)
    BY <1>3, LenProperties
  <2>3. QED
    BY <2>1, <2>2 DEF Range
<1>6. After(d, c) = [d EXCEPT !.tree = t]
  BY DEF After, ReorderChild, CutList
<1>7. /\ changes = [inserted |-> {}, removed |-> {}, updated |-> {},
                    reordered_parents |-> {parent}, metadata_changed |-> FALSE,
                    selection_changed |-> FALSE]
      /\ SelectionAfter(d, current, c) = current
  BY DEF ChangesOf, SelectionAfter, NoChanges
<1> HIDE DEF moved, list, changes
<1>8. HasChildren(t, tree, parent, moved)
  BY <1>2, <1>4, SetChildrenNodes
<1> HIDE DEF t
<1>9. /\ t \in Trees /\ t.next = tree.next /\ UniqueIds(t.nodes) /\ Ids(t) = Ids(tree)
      /\ \A x \in Ids(tree) :
           /\ Node(t, x) = IF x = parent THEN WithChildren(tree, parent, moved) ELSE Node(tree, x)
           /\ Children(t, x) = IF x = parent THEN moved ELSE Children(tree, x)
  BY <1>8 DEF HasChildren
<1>10. changes \in ChangeSets
  <2>1. parent \in NodeIds
    BY <1>2
  <2> HIDE DEF parent
  <2>2. QED
    BY <2>1, <1>7 DEF ChangeSets
<1>11. /\ WithChildren(tree, parent, moved).move = Node(tree, parent).move
       /\ WithChildren(tree, parent, moved).annotations = Node(tree, parent).annotations
  <2>1. Node(tree, parent) \in NodeRecords
    BY <1>2, NodeAt
  <2>2. QED
    BY <2>1 DEF WithChildren, NodeRecords
<1>12. \A x \in Ids(tree) :
         /\ Node(t, x).move = Node(tree, x).move
         /\ Node(t, x).annotations = Node(tree, x).annotations
         /\ Range(Children(t, x)) \subseteq Range(Children(tree, x))
  BY <1>4, <1>5, <1>9, <1>11
<1>13. \A x \in Ids(tree) : Range(Children(tree, x)) \subseteq Ids(tree)
  BY <1>2, TreeShape
<1>14. DistinctMoves(tree) => DistinctMoves(t)
  <2>1. DistinctMoves(t) <=>
           \A x \in Ids(t) : \A a, b \in Range(Children(t, x)) :
             Node(t, a).move = Node(t, b).move => a = b
    BY <1>9, DistinctById
  <2>2. DistinctMoves(tree) <=>
           \A x \in Ids(tree) : \A a, b \in Range(Children(tree, x)) :
             Node(tree, a).move = Node(tree, b).move => a = b
    BY <1>2, DistinctById
  <2>3. QED
    BY <2>1, <2>2, <1>9, <1>12, <1>13
<1>15. \A ids \in SUBSET NodeIds : Ids(tree) \subseteq ids => ids \cup Ids(t) = ids
  BY <1>9
<1>16. Rearranges(tree, t, changes)
  BY <1>7, <1>9, <1>12, <1>14, <1>15 DEF Rearranges
<1>17. /\ changes.inserted = {} /\ changes.removed = {}
       /\ SelectionAfter(d, current, c) \in Ids(t)
  BY <1>7, <1>9
<1>18. /\ changes.inserted \subseteq {tree.next} /\ changes.removed \subseteq Ids(tree)
       /\ changes.inserted # {} => tree.next # MaxNodeId /\ tree.next \notin Ids(tree)
  BY <1>17
<1>19. QED
  BY <1>6, <1>10, <1>16, <1>17, <1>18, RearrangeEffect DEF changes

(* An insertion: the new node has a new id and a move of its own.           *)
LEMMA InsertEffect ==
  ASSUME NEW d \in DocumentRecords, Valid(d), NEW current \in Ids(d.tree),
         NEW c \in Commands, c.kind = "insert", Executes(d, c)
  PROVE  Effective(d, current, c)
<1> DEFINE tree == d.tree
           id == tree.next
           parent == c.parent
           siblings == Children(tree, parent)
           list == InsertAt(siblings, c.index + 1, id)
           placed == SetChildren(tree, parent, list)
           node == NewNode(tree, parent, c.move)
           t == AddNode(tree, parent, c.move, c.index)
           changes == ChangesOf(d, current, c)
<1>1. /\ parent \in Ids(tree) /\ ValidMove(c.move) /\ CanAllocate(tree)
      /\ c.index <= Len(siblings) /\ ~HasChildMove(tree, parent, c.move, {})
      /\ c.move \in AnyMove /\ c.index \in Nat
  BY DEF Executes, Accepts, Commands
<1>2. c.move \in MoveRecords
  BY <1>1 DEF AnyMove, ValidMove, MoveRecords
<1>3. /\ tree \in Trees /\ WellFormed(tree) /\ UniqueIds(tree.nodes)
      /\ Ids(tree) \subseteq NodeIds /\ siblings \in Seq(NodeIds)
      /\ Range(siblings) \subseteq Ids(tree)
      /\ \A x \in Ids(tree) : Range(Children(tree, x)) \subseteq Ids(tree)
  BY <1>1, TreeShape, IdsTyped DEF Valid, Structural, DocumentRecords
<1>4. id \in NodeIds /\ id # MaxNodeId /\ id + 1 \in NodeIds
  BY <1>1, <1>3, NodeIdAssumption DEF CanAllocate, Trees, NodeIds
<1>5. c.index \in 0 .. Len(siblings) /\ c.index + 1 \in 1 .. Len(siblings) + 1
  BY <1>1, <1>3, LenProperties
<1>6. list \in Seq(NodeIds) /\ Range(list) = Range(siblings) \cup {id}
  <2> DEFINE p == c.index + 1
  <2>1. p \in 1 .. Len(siblings) + 1
    BY <1>5
  <2> HIDE DEF p, siblings, id
  <2>2. InsertAt(siblings, p, id) \in Seq(NodeIds)
    BY <1>3, <1>4, <2>1, InsertProperties
  <2>3. Range(InsertAt(siblings, p, id)) = Range(siblings) \cup {id}
    BY <1>3, <1>4, <2>1, InsertRange
  <2>4. QED
    BY <2>2, <2>3 DEF p
<1>7. After(d, c) = [d EXCEPT !.tree = t]
  BY DEF After
<1>8. t \in Trees /\ WellFormed(t) /\ UniqueIds(t.nodes)
  <2>1. After(d, c).tree = t
    BY <1>7 DEF DocumentRecords
  <2>2. WellFormed(t)
    BY <2>1 DEF Executes, Valid, Structural
  <2>3. Inserts(t, tree, parent, c.move, c.index)
    BY <1>1, <1>2, <1>3, <1>5, <2>2, AddedNode
  <2>4. t \in Trees
    BY <2>3 DEF Inserts
  <2> HIDE DEF t
  <2>5. QED
    BY <2>2, <2>4, TreeShape
<1>9. Inserts(t, tree, parent, c.move, c.index)
  BY <1>1, <1>2, <1>3, <1>5, <1>8, AddedNode
<1>10. /\ placed.nodes \in Seq(NodeRecords) /\ node \in NodeRecords
       /\ t = Reindexed(Append(placed.nodes, node), id + 1)
  <2>1. t = Reindexed(Append(placed.nodes, node), id + 1)
    BY DEF AddNode
  <2>2. node \in NodeRecords
    BY <1>1, <1>2, <1>3, <1>4 DEF NewNode, NodeRecords, Annotations
  <2> HIDE DEF list
  <2>3. HasChildren(placed, tree, parent, list)
    BY <1>1, <1>3, <1>6, SetChildrenNodes
  <2>4. placed \in Trees
    BY <2>3 DEF HasChildren
  <2>5. QED
    BY <2>1, <2>2, <2>4 DEF Trees
<1>11. changes = [inserted |-> {id}, removed |-> {}, updated |-> {},
                  reordered_parents |-> {parent}, metadata_changed |-> FALSE,
                  selection_changed |-> current # SelectionAfter(d, current, c)]
  BY DEF ChangesOf, NoChanges
<1>12. SelectionAfter(d, current, c) = id
  BY DEF SelectionAfter
<1> HIDE DEF list, placed, node, t, changes
<1>13. ASSUME NEW ids \in SUBSET NodeIds, Fresh(id, ids)
       PROVE  Fresh(t.next, ids \cup Ids(t))
  <2> DEFINE nodes == Append(placed.nodes, node)
  <2>1. nodes \in Seq(NodeRecords) /\ nodes # <<>>
    BY <1>10, AppendProperties
  <2>2. ids \subseteq Nat /\ Fresh(id + 1, ids)
    BY <1>4, <1>13, NodeIdAssumption DEF Fresh, NodeIds
  <2> HIDE DEF nodes
  <2>3. Fresh(Reindexed(nodes, id + 1).next, ids \cup Ids(Reindexed(nodes, id + 1)))
    BY <1>4, <2>1, <2>2, FreshKept
  <2>4. QED
    BY <2>3, <1>10 DEF nodes
<1>14. /\ id \notin Ids(tree) /\ Ids(t) = Ids(tree) \cup {id}
       /\ Node(t, id) = NewNode(tree, parent, c.move)
       /\ \A x \in Ids(tree) :
            Node(t, x) = IF x = parent THEN WithChildren(tree, parent, list) ELSE Node(tree, x)
  BY <1>9 DEF Inserts, list
<1>15. /\ WithChildren(tree, parent, list).move = Node(tree, parent).move
       /\ WithChildren(tree, parent, list).annotations = Node(tree, parent).annotations
       /\ WithChildren(tree, parent, list).children = list
  <2>1. Node(tree, parent) \in NodeRecords
    BY <1>1, <1>3, NodeAt
  <2>2. QED
    BY <2>1 DEF WithChildren, NodeRecords
<1>16. \A x \in Ids(tree) :
         /\ Node(t, x).move = Node(tree, x).move
         /\ Node(t, x).annotations = Node(tree, x).annotations
         /\ Children(t, x) = IF x = parent THEN list ELSE Children(tree, x)
  BY <1>14, <1>15 DEF Children
<1>17. Children(t, id) = <<>> /\ Node(t, id).move = c.move
  BY <1>14 DEF Children, NewNode
<1>18. ASSUME DistinctMoves(tree),
              NEW x \in Ids(t), NEW a \in Range(Children(t, x)), NEW b \in Range(Children(t, x)),
              Node(t, a).move = Node(t, b).move
       PROVE  a = b
  <2>1. x \in Ids(tree)
    BY <1>14, <1>17, <1>18 DEF Range
  <2>2. \A y \in Range(siblings) : Node(t, y).move # c.move
    BY <1>1, <1>3, <1>16 DEF HasChildMove
  <2>3. {a, b} \subseteq Ids(tree) \cup {id}
    BY <2>1, <1>3, <1>6, <1>16, <1>18
  <2>4. CASE a # id /\ b # id
    <3>1. a \in Range(Children(tree, x)) /\ b \in Range(Children(tree, x))
      BY <2>1, <2>4, <1>6, <1>16, <1>18
    <3>2. Node(tree, a).move = Node(tree, b).move
      BY <3>1, <2>1, <1>3, <1>16, <1>18
    <3>3. QED
      BY <3>1, <3>2, <2>1, <1>3, <1>18, DistinctById
  <2>5. CASE a = id /\ b # id
    BY <2>1, <2>2, <2>5, <1>3, <1>6, <1>14, <1>16, <1>17, <1>18
  <2>6. CASE a # id /\ b = id
    BY <2>1, <2>2, <2>6, <1>3, <1>6, <1>14, <1>16, <1>17, <1>18
  <2>7. QED
    BY <2>4, <2>5, <2>6
<1>19. DistinctMoves(tree) => DistinctMoves(t)
  BY <1>8, <1>18, DistinctById
<1>20. changes \in ChangeSets
  <2>1. parent \in NodeIds
    BY <1>1, <1>3
  <2> HIDE DEF parent, id
  <2>2. QED
    BY <2>1, <1>4, <1>11 DEF ChangeSets
<1>21. changes.inserted = {id} /\ changes.removed = {} /\ changes.reordered_parents = {parent}
  BY <1>11
<1>22. Rearranges(tree, t, changes)
  BY <1>8, <1>13, <1>14, <1>16, <1>19, <1>21 DEF Rearranges
<1>23. /\ changes.inserted \subseteq {id} /\ changes.removed \subseteq Ids(tree)
       /\ id # MaxNodeId /\ id \notin Ids(tree)
       /\ SelectionAfter(d, current, c) \in Ids(t)
  BY <1>4, <1>12, <1>14, <1>21
<1>24. QED
  BY <1>7, <1>20, <1>22, <1>23, RearrangeEffect DEF changes

(* A deletion: what is left of the tree keeps its moves.                    *)
LEMMA DeleteEffect ==
  ASSUME NEW d \in DocumentRecords, Valid(d), NEW current \in Ids(d.tree),
         NEW c \in Commands, c.kind = "delete", Executes(d, c)
  PROVE  Effective(d, current, c)
<1> DEFINE tree == d.tree
           id == c.node
           parent == Node(tree, id).parent
           gone == Subtree(tree, id)
           list == CutList(tree, id)
           t == RemoveNode(tree, id)
           changes == ChangesOf(d, current, c)
<1>1. id \in Ids(tree) \ {Root}
  BY DEF Executes, Accepts
<1>2. /\ tree \in Trees /\ WellFormed(tree) /\ UniqueIds(tree.nodes)
      /\ Ids(tree) \subseteq NodeIds /\ tree.next \in NodeIds
      /\ \A x \in Ids(tree) : Range(Children(tree, x)) \subseteq Ids(tree)
  BY TreeShape, IdsTyped DEF Valid, Structural, DocumentRecords, Trees
<1>3. After(d, c) = [d EXCEPT !.tree = t]
  BY DEF After
<1>4. WellFormed(t)
  <2>1. After(d, c).tree = t
    BY <1>3 DEF DocumentRecords
  <2>2. QED
    BY <2>1 DEF Executes, Valid, Structural
<1>5. /\ t \in Trees /\ gone \subseteq Ids(tree) /\ parent \in Ids(tree) \ gone
      /\ Ids(t) = Ids(tree) \ gone
      /\ \A x \in Ids(t) :
           Node(t, x) = IF x = parent THEN WithChildren(tree, parent, list) ELSE Node(tree, x)
  BY <1>1, <1>2, <1>4, RemoveKeeps
<1>6. UniqueIds(t.nodes) /\ t.nodes # <<>> /\ t.nodes \in Seq(NodeRecords)
  <2> HIDE DEF t
  <2>1. QED
    BY <1>4, <1>5, TreeShape DEF WellFormed, Trees
<1>7. t.next = Reindexed(t.nodes, tree.next).next /\ Ids(Reindexed(t.nodes, tree.next)) = Ids(t)
  <2> DEFINE left == Sublist(Cut(tree, id).nodes, Staying(Cut(tree, id).nodes, gone))
  <2>1. t = Reindexed(left, tree.next)
    BY DEF RemoveNode, Cut, CutList, Staying
  <2>2. Reindexed(left, tree.next).nodes = left
    BY DEF Reindexed
  <2> HIDE DEF left, t
  <2>3. QED
    BY <2>1, <2>2
<1>8. Range(list) = Range(Children(tree, parent)) \ {id}
  <2>1. Places(tree, id, Children(tree, parent), SiblingIndex(tree, id), list)
    BY <1>1, <1>2, SiblingPlace
  <2>2. QED
    BY <2>1 DEF Places
<1>9. changes = [inserted |-> {}, removed |-> gone, updated |-> {},
                 reordered_parents |-> {parent}, metadata_changed |-> FALSE,
                 selection_changed |-> current # SelectionAfter(d, current, c)]
  BY DEF ChangesOf, NoChanges
<1>10. SelectionAfter(d, current, c) = IF current \in gone THEN parent ELSE current
  BY DEF SelectionAfter
<1> HIDE DEF list, t, gone, changes
<1>11. ASSUME NEW ids \in SUBSET NodeIds, Fresh(tree.next, ids)
       PROVE  Fresh(t.next, ids \cup Ids(t))
  <2>1. ids \subseteq Nat
    BY NodeIdAssumption DEF NodeIds
  <2>2. Fresh(Reindexed(t.nodes, tree.next).next, ids \cup Ids(Reindexed(t.nodes, tree.next)))
    BY <1>2, <1>6, <1>11, <2>1, FreshKept
  <2>3. QED
    BY <2>2, <1>7
<1>12. /\ WithChildren(tree, parent, list).move = Node(tree, parent).move
       /\ WithChildren(tree, parent, list).annotations = Node(tree, parent).annotations
       /\ WithChildren(tree, parent, list).children = list
  <2>1. Node(tree, parent) \in NodeRecords
    BY <1>2, <1>5, NodeAt
  <2>2. QED
    BY <2>1 DEF WithChildren, NodeRecords
<1>13. \A x \in Ids(t) :
         /\ x \in Ids(tree)
         /\ Node(t, x).move = Node(tree, x).move
         /\ Node(t, x).annotations = Node(tree, x).annotations
         /\ Children(t, x) = IF x = parent THEN list ELSE Children(tree, x)
         /\ Range(Children(t, x)) \subseteq Range(Children(tree, x))
  BY <1>5, <1>8, <1>12 DEF Children
<1>14. \A x \in Ids(t) : Range(Children(t, x)) \subseteq Ids(t)
  BY <1>4, <1>5, TreeShape
<1>15. DistinctMoves(tree) => DistinctMoves(t)
  <2>1. DistinctMoves(t) <=>
           \A x \in Ids(t) : \A a, b \in Range(Children(t, x)) :
             Node(t, a).move = Node(t, b).move => a = b
    BY <1>5, <1>6, DistinctById
  <2>2. DistinctMoves(tree) <=>
           \A x \in Ids(tree) : \A a, b \in Range(Children(tree, x)) :
             Node(tree, a).move = Node(tree, b).move => a = b
    BY <1>2, DistinctById
  <2>3. QED
    BY <2>1, <2>2, <1>13, <1>14
<1>16. changes \in ChangeSets
  <2>1. parent \in NodeIds /\ gone \in SUBSET NodeIds
    BY <1>2, <1>5
  <2> HIDE DEF parent
  <2>2. QED
    BY <2>1, <1>9 DEF ChangeSets
<1>17. changes.inserted = {} /\ changes.removed = gone /\ changes.reordered_parents = {parent}
  BY <1>9
<1>18. Rearranges(tree, t, changes)
  BY <1>5, <1>11, <1>13, <1>15, <1>17 DEF Rearranges
<1>19. /\ changes.inserted \subseteq {tree.next} /\ changes.removed \subseteq Ids(tree)
       /\ changes.inserted # {} => tree.next # MaxNodeId /\ tree.next \notin Ids(tree)
       /\ SelectionAfter(d, current, c) \in Ids(t)
  BY <1>5, <1>10, <1>17
<1>20. QED
  BY <1>3, <1>16, <1>18, <1>19, RearrangeEffect DEF changes, t

(* Every command has these effects, and an entry that undoes it.            *)
LEMMA CommandEffect ==
  ASSUME NEW d \in DocumentRecords, Valid(d), NEW current \in Ids(d.tree),
         NEW c \in Commands, Executes(d, c)
  PROVE  Effective(d, current, c)
<1>1. c.kind \in {"insert", "delete", "replace", "reorder", "annotate", "metadata"}
  BY DEF Commands
<1>2. QED
  BY <1>1, InsertEffect, DeleteEffect, ReplaceEffect, ReorderEffect, AnnotateEffect,
     MetadataEffect

(* The inverse data of every atomic command leads back to the document      *)
(* before it and forth to the one after it, in any session that holds one   *)
(* of the two.                                                              *)
LEMMA CommandInverted ==
  ASSUME NEW d \in DocumentRecords, Valid(d),
         NEW c \in Commands, Executes(d, c),
         NEW entry, Carries(entry, InverseOf(d, c), c.kind)
  PROVE  Inverted(d, c, entry)
<1>1. c.kind \in {"insert", "delete", "replace", "reorder", "annotate", "metadata"}
  BY DEF Commands
<1>2. QED
  BY <1>1, InsertInverted, DeleteInverted, ReplaceInverted, ReorderInverted,
     AnnotateInverted, MetadataInverted

-----------------------------------------------------------------------------
(* Compound commands *)

(* Fewer ids are easier to stay above.                                      *)
LEMMA FreshSubset ==
  ASSUME NEW next, NEW ids, NEW fewer, fewer \subseteq ids, Fresh(next, ids)
  PROVE  Fresh(next, fewer)
BY DEF Fresh

(* Merging change sets, field by field.                                     *)
LEMMA MergeFields ==
  ASSUME NEW changes \in ChangeSets, NEW more \in ChangeSets
  PROVE  /\ Merge(changes, more) \in ChangeSets
         /\ Merge(changes, more).inserted = changes.inserted \cup more.inserted
         /\ Merge(changes, more).removed = changes.removed \cup more.removed
         /\ Merge(changes, more).updated = changes.updated \cup more.updated
         /\ Merge(changes, more).reordered_parents =
              changes.reordered_parents \cup more.reordered_parents
         /\ Merge(changes, more).metadata_changed =
              (changes.metadata_changed \/ more.metadata_changed)
<1> DEFINE fields == {"inserted", "removed", "updated", "reordered_parents",
                      "metadata_changed", "selection_changed"}
           m == Merge(changes, more)
<1>1. DOMAIN changes = fields
  BY DEF ChangeSets
<1>2. m = [field \in fields |->
             IF field \in {"metadata_changed", "selection_changed"}
             THEN changes[field] \/ more[field] ELSE changes[field] \cup more[field]]
  BY <1>1 DEF Merge
<1> HIDE DEF m
<1>3. m = [inserted |-> changes.inserted \cup more.inserted,
           removed |-> changes.removed \cup more.removed,
           updated |-> changes.updated \cup more.updated,
           reordered_parents |-> changes.reordered_parents \cup more.reordered_parents,
           metadata_changed |-> changes.metadata_changed \/ more.metadata_changed,
           selection_changed |-> changes.selection_changed \/ more.selection_changed]
  BY <1>2
<1>4. m \in ChangeSets
  BY <1>3 DEF ChangeSets
<1>5. QED
  BY <1>3, <1>4 DEF m

(* What is true of the working copy of a compound command on d after each   *)
(* of its commands, when no id of the set has been given to a new node.     *)
WorkingOn(d, ids, run) ==
  /\ run.document \in DocumentRecords
  /\ Valid(run.document)
  /\ run.current_node \in Ids(run.document.tree)
  /\ run.changes \in ChangeSets
  /\ AnnouncesChanges(d, run.document, run.changes)
  /\ Balanced(Ids(d.tree), run.changes)
  /\ run.changes.inserted \cap ids = {}
  /\ DistinctMoves(d.tree) => DistinctMoves(run.document.tree)
  /\ Fresh(run.document.tree.next, ids \cup run.changes.inserted \cup Ids(run.document.tree))

(* One more command of a compound keeps what is known of the run so far. *)
LEMMA RunOneWorks ==
  ASSUME NEW d \in DocumentRecords, Valid(d),
         NEW ids \in SUBSET NodeIds, Ids(d.tree) \subseteq ids,
         NEW run, WorkingOn(d, ids, run),
         NEW c \in Commands, Executes(run.document, c),
         NEW next,
         next.document = After(run.document, c),
         next.current_node = SelectionAfter(run.document, run.current_node, c),
         next.changes = Merge(run.changes, ChangesOf(run.document, run.current_node, c))
  PROVE  WorkingOn(d, ids, next)
<1> DEFINE b == run.document
           e == next.document
           first == run.changes
           more == ChangesOf(b, run.current_node, c)
           both == next.changes
           id == b.tree.next
           all == ids \cup first.inserted \cup Ids(b.tree)
<1>1. /\ b \in DocumentRecords /\ Valid(b) /\ run.current_node \in Ids(b.tree)
      /\ first \in ChangeSets
      /\ AnnouncesChanges(d, b, first) /\ Balanced(Ids(d.tree), first)
      /\ first.inserted \cap ids = {}
      /\ DistinctMoves(d.tree) => DistinctMoves(b.tree)
      /\ Fresh(id, all)
  BY DEF WorkingOn
<1>2. Effective(b, run.current_node, c)
  BY <1>1, CommandEffect
<1> HIDE DEF more
<1>3. /\ e \in DocumentRecords /\ more \in ChangeSets
      /\ more.inserted \subseteq {id}
      /\ more.inserted # {} => id # MaxNodeId /\ id \notin Ids(b.tree)
      /\ more.removed \subseteq Ids(b.tree)
      /\ AnnouncesChanges(b, e, more)
      /\ next.current_node \in Ids(e.tree)
      /\ DistinctMoves(b.tree) => DistinctMoves(e.tree)
  BY <1>2 DEF Effective, more
<1>4. Valid(e)
  BY DEF Executes
<1>5. /\ both \in ChangeSets
      /\ both.inserted = first.inserted \cup more.inserted
      /\ both.removed = first.removed \cup more.removed
      /\ both.updated = first.updated \cup more.updated
      /\ both.reordered_parents = first.reordered_parents \cup more.reordered_parents
      /\ both.metadata_changed = (first.metadata_changed \/ more.metadata_changed)
  <2>1. both = Merge(first, more)
    BY DEF more
  <2> HIDE DEF both, first
  <2>2. QED
    BY <2>1, <1>1, <1>3, MergeFields
<1>6. Ids(b.tree) \subseteq NodeIds /\ first.inserted \subseteq NodeIds
  <2>1. b.tree \in Trees
    BY <1>1 DEF DocumentRecords
  <2>2. QED
    BY <2>1, <1>1, IdsTyped DEF ChangeSets
<1>7. Fresh(e.tree.next, all \cup Ids(e.tree))
  <2>1. \A s \in SUBSET NodeIds : Ids(b.tree) \subseteq s /\ Fresh(id, s) =>
          Fresh(e.tree.next, s \cup Ids(e.tree))
    BY <1>2 DEF Effective
  <2>2. all \in SUBSET NodeIds /\ Ids(b.tree) \subseteq all
    BY <1>6
  <2> HIDE DEF all, e, id
  <2>3. QED
    BY <2>1, <2>2, <1>1
<1>8. more.inserted \cap all = {}
  <2>1. CASE more.inserted = {}
    BY <2>1
  <2>2. CASE more.inserted # {}
    <3>1. id # MaxNodeId /\ more.inserted \subseteq {id}
      BY <2>2, <1>3
    <3>2. \A x \in all : x < id
      BY <3>1, <1>1 DEF Fresh
    <3>3. id \in NodeIds /\ all \subseteq NodeIds
      BY <1>1, <1>6 DEF DocumentRecords, Trees
    <3>4. id \notin all
      <4> HIDE DEF all, id
      <4>1. QED
        BY <3>2, <3>3, NodeIdAssumption DEF NodeIds
    <3>5. QED
      BY <3>1, <3>4
  <2>3. QED
    BY <2>1, <2>2
<1> HIDE DEF e, b, first, both
<1>9. /\ Ids(b.tree) = (Ids(d.tree) \cup first.inserted) \ first.removed
      /\ Ids(e.tree) = (Ids(b.tree) \cup more.inserted) \ more.removed
  BY <1>1, <1>3 DEF AnnouncesChanges
<1>10. first.inserted \cap Ids(d.tree) = {} /\ first.removed \subseteq Ids(d.tree) \cup first.inserted
  BY <1>1 DEF Balanced
<1>11. Balanced(Ids(d.tree), both) /\ both.inserted \cap ids = {}
  BY <1>1, <1>3, <1>5, <1>8, <1>9, <1>10 DEF Balanced
<1>12. Ids(e.tree) = (Ids(d.tree) \cup both.inserted) \ both.removed
  BY <1>3, <1>5, <1>8, <1>9, <1>10
<1>13. ASSUME NEW x \in Ids(d.tree) \cap Ids(e.tree)
       PROVE  x \in Ids(b.tree)
  BY <1>8, <1>9
<1>14. AnnouncesChanges(d, e, both)
  <2>1. ASSUME NEW x \in Ids(d.tree) \cap Ids(e.tree),
               <<Node(d.tree, x).move, Node(d.tree, x).annotations>>
                 # <<Node(e.tree, x).move, Node(e.tree, x).annotations>>
        PROVE  x \in both.updated
    BY <2>1, <1>1, <1>3, <1>5, <1>13 DEF AnnouncesChanges
  <2>2. ASSUME NEW x \in Ids(d.tree) \cap Ids(e.tree),
               Children(d.tree, x) # Children(e.tree, x)
        PROVE  x \in both.reordered_parents
    BY <2>2, <1>1, <1>3, <1>5, <1>13 DEF AnnouncesChanges
  <2>3. d.metadata # e.metadata => both.metadata_changed
    BY <1>1, <1>3, <1>5 DEF AnnouncesChanges
  <2>4. QED
    BY <1>12, <2>1, <2>2, <2>3 DEF AnnouncesChanges
<1>15. Fresh(e.tree.next, ids \cup both.inserted \cup Ids(e.tree))
  <2>1. ids \cup both.inserted \cup Ids(e.tree) \subseteq all \cup Ids(e.tree)
    BY <1>3, <1>5, <1>8, <1>9
  <2>2. QED
    BY <2>1, <1>7, FreshSubset
<1>16. DistinctMoves(d.tree) => DistinctMoves(e.tree)
  BY <1>1, <1>3
<1>17. QED
  BY <1>3, <1>4, <1>5, <1>11, <1>14, <1>15, <1>16 DEF WorkingOn, e, both

(* The compound command: its outcome, reached command by command.           *)
LEMMA RunWorks ==
  ASSUME NEW d \in DocumentRecords, Valid(d), NEW current \in Ids(d.tree),
         NEW commands \in Seq(Commands),
         NEW ids \in SUBSET NodeIds, Ids(d.tree) \subseteq ids, Fresh(d.tree.next, ids)
  PROVE  WorkingOn(d, ids, Run(d, current, commands))
<1> DEFINE N == Len(commands)
           R == [ok : BOOLEAN, document : DocumentRecords, current_node : NodeIds,
                 changes : ChangeSets]
           V == {r \in R : WorkingOn(d, ids, r)}
           start == [ok |-> TRUE, document |-> d, current_node |-> current,
                     changes |-> NoChanges]
           step == [p \in (1 .. N) \X V |-> RunOne(p[2], commands[p[1]])]
           Is(g) == g = [k \in 0 .. N |->
                           IF k = 0
                           THEN [ok |-> TRUE, document |-> d, current_node |-> current,
                                 changes |-> NoChanges]
                           ELSE RunOne(g[k - 1], commands[k])]
           run == CHOOSE g : Is(g)
<1>1. N \in Nat /\ \A k \in 1 .. N : commands[k] \in Commands
  BY LenProperties, ElementOfSeq
<1>2. start \in V
  <2>1. d.tree \in Trees
    BY DEF DocumentRecords
  <2>2. Ids(d.tree) \subseteq NodeIds
    BY <2>1, IdsTyped
  <2>3. /\ NoChanges \in ChangeSets
        /\ NoChanges.inserted = {} /\ NoChanges.removed = {}
    BY DEF NoChanges, ChangeSets
  <2>4. start \in R
    BY <2>2, <2>3
  <2>5. AnnouncesChanges(d, d, NoChanges) /\ Balanced(Ids(d.tree), NoChanges)
    BY <2>3 DEF AnnouncesChanges, Balanced
  <2>6. Fresh(d.tree.next, ids \cup NoChanges.inserted \cup Ids(d.tree))
    <3>1. ids \cup NoChanges.inserted \cup Ids(d.tree) = ids
      BY <2>3
    <3>2. QED
      BY <3>1
  <2>7. WorkingOn(d, ids, start)
    BY <2>3, <2>5, <2>6 DEF WorkingOn
  <2>8. QED
    BY <2>4, <2>7
<1>3. ASSUME NEW r \in V, NEW c \in Commands
      PROVE  RunOne(r, c) \in V
  <2>1. r \in R /\ WorkingOn(d, ids, r)
    OBVIOUS
  <2> HIDE DEF V
  <2>2. CASE ~r.ok \/ NoOp(r.document, c)
    BY <2>2 DEF RunOne, V
  <2>3. CASE ~(~r.ok \/ NoOp(r.document, c)) /\ ~Executes(r.document, c)
    <3>1. RunOne(r, c) = [r EXCEPT !.ok = FALSE]
      BY <2>3 DEF RunOne
    <3>2. RunOne(r, c) \in R
      BY <3>1, <2>1
    <3>3. WorkingOn(d, ids, RunOne(r, c))
      BY <3>1, <2>1 DEF WorkingOn
    <3>4. QED
      BY <3>2, <3>3 DEF V
  <2>4. CASE ~(~r.ok \/ NoOp(r.document, c)) /\ Executes(r.document, c)
    <3> DEFINE next == [ok |-> TRUE,
                        document |-> After(r.document, c),
                        current_node |-> SelectionAfter(r.document, r.current_node, c),
                        changes |-> Merge(r.changes, ChangesOf(r.document, r.current_node, c))]
    <3>1. RunOne(r, c) = next
      BY <2>4 DEF RunOne
    <3>2. /\ next.ok = TRUE
          /\ next.document = After(r.document, c)
          /\ next.current_node = SelectionAfter(r.document, r.current_node, c)
          /\ next.changes = Merge(r.changes, ChangesOf(r.document, r.current_node, c))
          /\ next = [ok |-> next.ok, document |-> next.document,
                     current_node |-> next.current_node, changes |-> next.changes]
      OBVIOUS
    <3> HIDE DEF next
    <3>3. WorkingOn(d, ids, next)
      BY <3>2, <2>1, <2>4, RunOneWorks
    <3>4. /\ next.document \in DocumentRecords /\ next.changes \in ChangeSets
          /\ next.current_node \in Ids(next.document.tree)
      BY <3>3 DEF WorkingOn
    <3>5. next.document.tree \in Trees
      BY <3>4 DEF DocumentRecords
    <3>6. next.current_node \in NodeIds
      BY <3>4, <3>5, IdsTyped
    <3>7. next \in R
      BY <3>2, <3>4, <3>6
    <3>8. QED
      BY <3>1, <3>3, <3>7 DEF V
  <2>5. QED
    BY <2>2, <2>3, <2>4
<1>4. step \in [(1 .. N) \X V -> V]
  <2> HIDE DEF V
  <2>1. QED
    BY <1>1, <1>3
<1>5. PICK f \in [0 .. N -> V] : Computes(f, N, start, step)
  <2> HIDE DEF N, V, start, step
  <2>1. QED
    BY <1>1, <1>2, <1>4, RecursionExists
<1> HIDE DEF V
<1>6. f[0] = start
  BY <1>5 DEF Computes
<1>7. \A n \in 1 .. N : f[n] = RunOne(f[n - 1], commands[n])
  <2> TAKE n \in 1 .. N
  <2>1. f[n] = step[<<n, f[n - 1]>>]
    BY <1>5 DEF Computes
  <2>2. n - 1 \in 0 .. N
    BY <1>1
  <2>3. f[n - 1] \in V
    <3> HIDE DEF N
    <3>1. QED
      BY <2>2, <1>5
  <2>4. QED
    BY <2>1, <2>3
<1>8. Is(f)
  <2> DEFINE body(n) == IF n = 0 THEN start ELSE RunOne(f[n - 1], commands[n])
  <2>1. \A n \in 0 .. N : f[n] = body(n)
    BY <1>1, <1>6, <1>7
  <2>2. f = [n \in 0 .. N |-> body(n)]
    <3> HIDE DEF body
    <3>1. QED
      BY <2>1, <1>5
  <2>3. QED
    BY <2>2
<1>9. Is(run)
  BY <1>8
<1>10. Run(d, current, commands) = run[N]
  BY DEF Run
<1>11. run[N] = f[N]
  <2> DEFINE T == {n \in 0 .. N : run[n] = f[n]}
  <2> HIDE DEF run
  <2>1. run[0] = start
    BY <1>9, <1>1
  <2>2. ASSUME NEW n \in 1 .. N
        PROVE  run[n] = RunOne(run[n - 1], commands[n])
    <3>1. n \in 0 .. N /\ n # 0
      BY <1>1
    <3> HIDE DEF N
    <3>2. QED
      BY <1>9, <3>1
  <2>3. 0 \in T
    BY <2>1, <1>1, <1>6
  <2>4. ASSUME NEW n \in 0 .. N - 1, n \in T
        PROVE  n + 1 \in T
    <3>1. n + 1 \in 1 .. N /\ n + 1 - 1 = n
      BY <1>1
    <3>2. run[n] = f[n]
      BY <2>4
    <3>3. /\ run[n + 1] = RunOne(run[n + 1 - 1], commands[n + 1])
          /\ f[n + 1] = RunOne(f[n + 1 - 1], commands[n + 1])
      BY <3>1, <2>2, <1>7
    <3>4. run[n + 1] = f[n + 1]
      BY <3>1, <3>2, <3>3
    <3>5. QED
      BY <3>1, <3>4
  <2>5. 0 .. N \subseteq T
    <3> HIDE DEF T, N
    <3>1. QED
      BY <1>1, <2>3, <2>4, BoundedInduction
  <2>6. QED
    BY <2>5, <1>1
<1>12. f[N] \in V
  BY <1>1, <1>5
<1>13. QED
  BY <1>10, <1>11, <1>12 DEF V

-----------------------------------------------------------------------------
(* The values that history entries are made of.                             *)
Kinds == {"insert", "delete", "replace", "reorder", "annotate", "metadata", "compound"}

Values ==
  Metadata \cup Annotations \cup MoveRecords \cup Nat \cup {None} \cup DocumentRecords

EntryRecords ==
  [kind : Kinds \cup {None}, nodes : Seq(StoredOf(NodeRecords)),
   root : NodeIds, parent : NodeIds, sibling_index : Nat,
   before : Values, after : Values, forward_changes : ChangeSets,
   before_current : NodeIds, after_current : NodeIds,
   before_token : Nat, after_token : Nat,
   before_document : Contents \cup {None}, after_document : Contents \cup {None},
   cost : Nat]

(* The ids of stored nodes are the ids they were stored for.                *)
LEMMA StoredNodes ==
  ASSUME NEW tree \in Trees, NEW ids
  PROVE  /\ Stored(tree, ids) \in Seq(StoredOf(NodeRecords))
         /\ ids \subseteq Ids(tree) =>
              {s.node.id : s \in Range(Stored(tree, ids))} = ids
<1> DEFINE N == Len(tree.nodes)
           all == [i \in DOMAIN tree.nodes |-> [storage_index |-> i - 1, node |-> tree.nodes[i]]]
           I == {i \in DOMAIN tree.nodes : tree.nodes[i].id \in ids}
           kept == Sublist(all, I)
<1>1. /\ N \in Nat /\ DOMAIN tree.nodes = 1 .. N
      /\ \A i \in 1 .. N : tree.nodes[i] \in NodeRecords
  BY LenProperties, ElementOfSeq DEF Trees
<1>2. \A i \in 1 .. N : all[i] \in StoredOf(NodeRecords) /\ all[i].node = tree.nodes[i]
  BY <1>1 DEF StoredOf
<1>3. all \in Seq(StoredOf(NodeRecords)) /\ Len(all) = N
  <2>1. all \in [1 .. N -> StoredOf(NodeRecords)]
    BY <1>1, <1>2
  <2> HIDE DEF all, N
  <2>2. QED
    BY <1>1, <2>1
<1>4. Stored(tree, ids) = kept
  BY DEF Stored
<1> HIDE DEF all
<1>5. /\ \A k \in 1 .. Len(kept) : \E n \in 1 .. N : n \in I /\ kept[k] = all[n]
      /\ \A n \in 1 .. N : n \in I => \E k \in 1 .. Len(kept) : kept[k] = all[n]
  <2> HIDE DEF I, N
  <2>1. \A k \in 1 .. Len(kept) : \E n \in 1 .. Len(all) : n \in I /\ kept[k] = all[n]
    BY <1>3, SublistElements
  <2>2. ASSUME NEW n \in 1 .. Len(all), n \in I
        PROVE  \E k \in 1 .. Len(kept) : kept[k] = all[n]
    <3> DEFINE S == StoredOf(NodeRecords)
    <3>1. all \in Seq(S)
      BY <1>3
    <3> HIDE DEF S
    <3>2. \A m \in 1 .. Len(all) : m \in I =>
            \E k \in 1 .. Len(Sublist(all, I)) : Sublist(all, I)[k] = all[m]
      BY <3>1, SublistElements
    <3> HIDE DEF kept
    <3>3. \E k \in 1 .. Len(Sublist(all, I)) : Sublist(all, I)[k] = all[n]
      BY <2>2, <3>2
    <3>4. QED
      BY <3>3 DEF kept
  <2> HIDE DEF kept
  <2>3. QED
    BY <2>1, <2>2, <1>3
<1>6. kept \in Seq(StoredOf(NodeRecords))
  <2> HIDE DEF I
  <2>1. QED
    BY <1>3, SublistType
<1>7. DOMAIN kept = 1 .. Len(kept)
  BY <1>6, LenProperties
<1> HIDE DEF kept
<1>8. ASSUME ids \subseteq Ids(tree)
      PROVE  {s.node.id : s \in Range(kept)} = ids
  <2>1. ASSUME NEW s \in Range(kept)
        PROVE  s.node.id \in ids
    <3>1. PICK k \in 1 .. Len(kept) : kept[k] = s
      BY <1>7 DEF Range
    <3>2. PICK n \in 1 .. N : n \in I /\ kept[k] = all[n]
      BY <1>5
    <3>3. QED
      BY <3>1, <3>2, <1>2
  <2>2. ASSUME NEW x \in ids
        PROVE  \E s \in Range(kept) : s.node.id = x
    <3>1. PICK n \in 1 .. N : tree.nodes[n].id = x
      BY <1>1, <1>8 DEF Ids, Range
    <3>2. n \in I
      BY <1>1, <3>1
    <3>3. PICK k \in 1 .. Len(kept) : kept[k] = all[n]
      BY <1>5, <3>2
    <3>4. kept[k] \in Range(kept) /\ kept[k].node.id = x
      BY <1>2, <1>7, <3>1, <3>3 DEF Range
    <3>5. QED
      BY <3>4
  <2>3. QED
    BY <2>1, <2>2
<1>9. QED
  BY <1>4, <1>6, <1>8

(* The fields of an entry that a command sets.                              *)
LEMMA EntryFields ==
  ASSUME NEW entry \in EntryRecords
  PROVE  /\ \A b \in Values, a \in Values :
              [entry EXCEPT !.before = b, !.after = a] \in EntryRecords
         /\ \A n \in Seq(StoredOf(NodeRecords)), r \in NodeIds, p \in NodeIds, i \in Nat :
              [entry EXCEPT !.nodes = n, !.root = r, !.parent = p, !.sibling_index = i]
                \in EntryRecords
BY DEF EntryRecords

(* The inverse data of a command has its type. *)
LEMMA InverseTyped ==
  ASSUME NEW d \in DocumentRecords, Valid(d), NEW current \in Ids(d.tree),
         NEW c \in Commands, Executes(d, c)
  PROVE  InverseOf(d, c) \in EntryRecords
<1> DEFINE tree == d.tree
           node == Node(tree, c.node)
           index == SiblingIndex(tree, c.node)
           inverse == InverseOf(d, c)
<1>1. /\ tree \in Trees /\ WellFormed(tree) /\ UniqueIds(tree.nodes) /\ Root \in Ids(tree)
      /\ Ids(tree) \subseteq NodeIds /\ tree.next \in NodeIds
  BY TreeShape, IdsTyped DEF Valid, Structural, DocumentRecords, Trees
<1>2. Entry0 \in EntryRecords
  <2>1. <<>> \in Seq(StoredOf(NodeRecords)) /\ Root \in NodeIds /\ NoChanges \in ChangeSets
    BY <1>1 DEF NoChanges, ChangeSets
  <2>2. None \in Values /\ 0 \in Nat
    BY DEF Values
  <2> HIDE DEF tree
  <2>3. QED
    BY <2>1, <2>2 DEF Entry0, EntryRecords
<1>3. c.node \in Ids(tree) =>
        /\ node \in NodeRecords /\ node.annotations \in Annotations
        /\ node.move \in MoveRecords \cup {None} /\ c.node \in NodeIds
  BY <1>1, NodeAt DEF NodeRecords
<1>4. c.node \in Ids(tree) \ {Root} => node.parent \in NodeIds /\ index \in Nat
  <2> SUFFICES ASSUME c.node \in Ids(tree) \ {Root}
               PROVE  node.parent \in NodeIds /\ index \in Nat
    OBVIOUS
  <2>1. node.parent \in Ids(tree)
    BY <1>1, TreeShape
  <2>2. Places(tree, c.node, Children(tree, node.parent), index, CutList(tree, c.node))
    BY <1>1, SiblingPlace
  <2>3. QED
    BY <2>1, <2>2, <1>1 DEF Places
<1>5. \A ids : Stored(tree, ids) \in Seq(StoredOf(NodeRecords))
  BY <1>1, StoredNodes
<1> HIDE DEF tree, node, index
<1>6. CASE c.kind = "metadata"
  <2>1. d.metadata \in Values /\ c.metadata \in Values
    BY <1>6 DEF Values, DocumentRecords, Commands
  <2>2. inverse = [Entry0 EXCEPT !.before = d.metadata, !.after = c.metadata]
    BY <1>6 DEF InverseOf
  <2>3. QED
    BY <2>1, <2>2, <1>2, EntryFields
<1>7. CASE c.kind = "annotate"
  <2>1. c.node \in Ids(tree) /\ c.annotations \in Annotations
    BY <1>7 DEF Executes, Accepts, Commands, tree
  <2>2. inverse = [Entry0 EXCEPT !.root = c.node, !.before = node.annotations,
                                 !.after = c.annotations]
    BY <1>7 DEF InverseOf, node, tree
  <2>3. node.annotations \in Values /\ c.annotations \in Values /\ c.node \in NodeIds
    BY <1>3, <2>1 DEF Values
  <2>4. QED
    BY <2>2, <2>3, <1>2 DEF EntryRecords
<1>8. CASE c.kind = "replace"
  <2>1. c.node \in Ids(tree) \ {Root} /\ c.move \in MoveRecords
    BY <1>8 DEF Executes, Accepts, Commands, tree, ValidMove, AnyMove, MoveRecords
  <2> DEFINE first == [Entry0 EXCEPT !.nodes = Stored(tree, {c.node}), !.root = c.node,
                                     !.parent = node.parent, !.sibling_index = index]
  <2>2. first \in EntryRecords
    BY <1>2, <1>3, <1>4, <1>5, <2>1, EntryFields
  <2>3. inverse = [first EXCEPT !.before = node.move, !.after = c.move]
    BY <1>8 DEF InverseOf, node, tree, index
  <2>4. node.move \in Values /\ c.move \in Values
    BY <1>3, <2>1 DEF Values
  <2> HIDE DEF first
  <2> DEFINE old == node.move
             new == c.move
  <2>5. old \in Values /\ new \in Values /\ inverse = [first EXCEPT !.before = old, !.after = new]
    BY <2>3, <2>4
  <2> HIDE DEF old, new, inverse
  <2>6. QED
    <3>1. [first EXCEPT !.before = old, !.after = new] \in EntryRecords
      BY <2>2, <2>5, EntryFields
    <3>2. inverse \in EntryRecords
      BY <2>5, <3>1
    <3>3. QED
      BY <3>2 DEF inverse
<1>9. CASE c.kind = "reorder"
  <2>1. c.node \in Ids(tree) \ {Root} /\ c.index \in Nat
    BY <1>9 DEF Executes, Accepts, Commands, tree
  <2> DEFINE first == [Entry0 EXCEPT !.nodes = Stored(tree, {c.node}), !.root = c.node,
                                     !.parent = node.parent, !.sibling_index = index]
  <2>2. first \in EntryRecords
    BY <1>2, <1>3, <1>4, <1>5, <2>1, EntryFields
  <2>3. inverse = [first EXCEPT !.after = c.index]
    BY <1>9 DEF InverseOf, node, tree, index
  <2>4. c.index \in Values
    BY <2>1 DEF Values
  <2> HIDE DEF first
  <2>5. QED
    BY <2>2, <2>3, <2>4 DEF EntryRecords
<1>10. CASE c.kind = "delete"
  <2>1. c.node \in Ids(tree) \ {Root}
    BY <1>10 DEF Executes, Accepts, tree
  <2>2. inverse = [Entry0 EXCEPT !.nodes = Stored(tree, Subtree(tree, c.node)), !.root = c.node,
                                 !.parent = node.parent, !.sibling_index = index]
    BY <1>10 DEF InverseOf, node, tree, index
  <2> DEFINE nodes == Stored(tree, Subtree(tree, c.node))
             parent == node.parent
  <2>3. nodes \in Seq(StoredOf(NodeRecords)) /\ parent \in NodeIds
    BY <2>1, <1>4, <1>5
  <2>4. inverse = [Entry0 EXCEPT !.nodes = nodes, !.root = c.node, !.parent = parent,
                                 !.sibling_index = index]
    BY <2>2
  <2> HIDE DEF nodes, parent, inverse
  <2>5. c.node \in NodeIds /\ index \in Nat
    BY <2>1, <1>3, <1>4
  <2>6. [Entry0 EXCEPT !.nodes = nodes, !.root = c.node, !.parent = parent,
                       !.sibling_index = index] \in EntryRecords
    BY <2>3, <2>5, <1>2, EntryFields
  <2>7. QED
    BY <2>4, <2>6 DEF inverse
<1>11. CASE c.kind = "insert"
  <2>1. c.parent \in Ids(tree) /\ c.index \in Nat
    BY <1>11 DEF Executes, Accepts, Commands, tree
  <2>2. inverse = [Entry0 EXCEPT !.nodes = Stored(After(d, c).tree, {tree.next}),
                                 !.root = tree.next, !.parent = c.parent,
                                 !.sibling_index = c.index]
    BY <1>11 DEF InverseOf, tree
  <2>3. Effective(d, current, c)
    BY CommandEffect DEF tree
  <2>4. After(d, c).tree \in Trees
    BY <2>3 DEF Effective, DocumentRecords
  <2>5. Stored(After(d, c).tree, {tree.next}) \in Seq(StoredOf(NodeRecords))
    BY <2>4, StoredNodes
  <2>6. c.parent \in NodeIds /\ tree.next \in NodeIds
    BY <2>1, <1>1 DEF tree
  <2> DEFINE nodes == Stored(After(d, c).tree, {tree.next})
             id == tree.next
             parent == c.parent
  <2>7. nodes \in Seq(StoredOf(NodeRecords)) /\ parent \in NodeIds /\ id \in NodeIds
    BY <2>5, <2>6
  <2>8. inverse = [Entry0 EXCEPT !.nodes = nodes, !.root = id, !.parent = parent,
                                 !.sibling_index = c.index]
    BY <2>2
  <2> HIDE DEF nodes, parent, id, inverse
  <2>9. [Entry0 EXCEPT !.nodes = nodes, !.root = id, !.parent = parent,
                       !.sibling_index = c.index] \in EntryRecords
    BY <2>1, <2>7, <1>2, EntryFields
  <2>10. QED
    BY <2>8, <2>9 DEF inverse
<1>12. c.kind \in {"insert", "delete", "replace", "reorder", "annotate", "metadata"}
  BY DEF Commands
<1>13. QED
  BY <1>6, <1>7, <1>8, <1>9, <1>10, <1>11, <1>12

-----------------------------------------------------------------------------
(* Undo and redo of a command only ever raise the next id                   *)

(* An id that is not given out stays so after a removal                     *)
LEMMA RemoveFresh ==
  ASSUME NEW tree \in Trees, WellFormed(tree), NEW id \in Ids(tree) \ {Root},
         WellFormed(RemoveNode(tree, id)),
         NEW other \in Trees, other.nodes = tree.nodes,
         NEW ids \in SUBSET NodeIds, Fresh(other.next, ids)
  PROVE  Fresh(RemoveNode(other, id).next, ids \cup Ids(RemoveNode(other, id)))
<1> DEFINE t == RemoveNode(other, id)
           left == Sublist(Cut(other, id).nodes, Staying(Cut(other, id).nodes, Subtree(other, id)))
<1>1. WellFormed(other) /\ id \in Ids(other) \ {Root}
  BY SameNodes
<1>2. t.nodes = RemoveNode(tree, id).nodes
  BY SameRemoval
<1>3. WellFormed(t)
  BY <1>2, SameNodes
<1>4. t \in Trees
  BY <1>1, <1>3, RemoveKeeps
<1>5. t = Reindexed(left, other.next)
  BY DEF RemoveNode, Cut, CutList, Staying
<1>6. t.nodes = left
  BY <1>5 DEF Reindexed
<1> HIDE DEF t, left
<1>7. left \in Seq(NodeRecords) /\ left # <<>>
  BY <1>3, <1>4, <1>6 DEF Trees, WellFormed
<1>8. other.next \in NodeIds /\ ids \subseteq Nat
  BY NodeIdAssumption DEF Trees, NodeIds
<1>9. Fresh(Reindexed(left, other.next).next, ids \cup Ids(Reindexed(left, other.next)))
  BY <1>7, <1>8, FreshKept
<1>10. QED
  BY <1>5, <1>9 DEF t

(* and after the nodes that were removed have been put back.                *)
LEMMA RestoreFresh ==
  ASSUME NEW tree \in Trees, WellFormed(tree), NEW id \in Ids(tree) \ {Root},
         WellFormed(RemoveNode(tree, id)),
         NEW t \in Trees, t.nodes = RemoveNode(tree, id).nodes,
         NEW ids \in SUBSET NodeIds, Fresh(t.next, ids)
  PROVE  Fresh(RestoreNodes(t, Stored(tree, Subtree(tree, id)), id, Node(tree, id).parent,
                            SiblingIndex(tree, id)).next,
               ids \cup Ids(tree))
<1> DEFINE parent == Node(tree, id).parent
           stored == Stored(tree, Subtree(tree, id))
           cut == Cut(tree, id)
           filled == Reindexed(Refill(t.nodes, stored), t.next)
           list == InsertAt(Children(filled, parent), SiblingIndex(tree, id) + 1, id)
           back == RestoreNodes(t, stored, id, parent, SiblingIndex(tree, id))
<1>1. Refill(t.nodes, stored) = cut.nodes
  BY StoredFromCut
<1>2. /\ UniqueIds(tree.nodes) /\ parent \in Ids(tree) /\ CutList(tree, id) \in Seq(NodeIds)
  BY TreeShape, RemoveShape
<1>3. HasChildren(cut, tree, parent, CutList(tree, id))
  BY <1>2, SetChildrenNodes DEF Cut
<1>4. /\ cut.nodes \in Seq(NodeRecords) /\ Ids(cut) = Ids(tree)
      /\ Len(cut.nodes) = Len(tree.nodes) /\ t.next \in NodeIds /\ ids \subseteq Nat
  <2> HIDE DEF cut
  <2>1. cut \in Trees /\ Ids(cut) = Ids(tree) /\ Len(cut.nodes) = Len(tree.nodes)
    BY <1>3 DEF HasChildren
  <2>2. cut.nodes \in Seq(NodeRecords) /\ t.next \in NodeIds
    BY <2>1 DEF Trees
  <2>3. ids \subseteq Nat
    BY NodeIdAssumption DEF NodeIds
  <2>4. QED
    BY <2>1, <2>2, <2>3
<1>5. cut.nodes # <<>>
  <2>1. Len(tree.nodes) \in Nat /\ 1 \in 1 .. Len(tree.nodes)
    BY TreeShape, LenProperties DEF Trees
  <2>2. QED
    BY <2>1, <1>4, EmptySeq
<1>6. filled = Reindexed(cut.nodes, t.next)
  BY <1>1
<1>7. filled \in Trees /\ filled.nodes = cut.nodes
  BY <1>4, <1>5, <1>6, ReindexedTree
<1> HIDE DEF filled, cut
<1>8. Fresh(filled.next, ids \cup Ids(filled))
  <2>1. Fresh(Reindexed(cut.nodes, t.next).next, ids \cup Ids(Reindexed(cut.nodes, t.next)))
    BY <1>4, <1>5, FreshKept
  <2>2. QED
    BY <2>1, <1>6
<1>9. Ids(filled) = Ids(tree)
  BY <1>4, <1>7, SameNodes
<1>10. back = SetChildren(filled, parent, list)
  BY DEF RestoreNodes, filled
<1> HIDE DEF list
<1>11. back.next = filled.next
  BY <1>7, <1>10 DEF SetChildren, Update, Trees
<1>12. QED
  BY <1>8, <1>9, <1>11

(* The next id stays above the ids it was above, and above those the        *)
(* document has again: both ways between two contents.                      *)
RaisesNext(entry, from, to) ==
  \A d \in DocumentRecords, ids \in SUBSET NodeIds :
    Ids(d.tree) \subseteq ids /\ Fresh(d.tree.next, ids) =>
      /\ Content(d) = to =>
           Fresh(Reverted(d, entry).tree.next, ids \cup Ids(Reverted(d, entry).tree))
      /\ Content(d) = from =>
           Fresh(Reapplied(d, entry).tree.next, ids \cup Ids(Reapplied(d, entry).tree))

(* Undo and redo of an atomic command never lower the next id to one in     *)
(* use.                                                                     *)
LEMMA CommandRaisesNext ==
  ASSUME NEW d \in DocumentRecords, Valid(d), NEW current \in Ids(d.tree),
         NEW c \in Commands, Executes(d, c),
         NEW entry, Carries(entry, InverseOf(d, c), c.kind)
  PROVE  RaisesNext(entry, Content(d), Content(After(d, c)))
<1> DEFINE tree == d.tree
           t == After(d, c).tree
<1>1. Effective(d, current, c) /\ Inverted(d, c, entry)
  BY CommandEffect, CommandInverted
<1>2. /\ After(d, c) \in DocumentRecords /\ Valid(After(d, c))
      /\ tree \in Trees /\ WellFormed(tree) /\ t \in Trees /\ WellFormed(t)
  BY <1>1 DEF Inverted, Executes, Valid, Structural, DocumentRecords
<1>3. SUFFICES ASSUME NEW e \in DocumentRecords, NEW ids \in SUBSET NodeIds,
                      Ids(e.tree) \subseteq ids, Fresh(e.tree.next, ids)
               PROVE  /\ Content(e) = Content(After(d, c)) =>
                           Fresh(Reverted(e, entry).tree.next, ids \cup Ids(Reverted(e, entry).tree))
                      /\ Content(e) = Content(d) =>
                           Fresh(Reapplied(e, entry).tree.next, ids \cup Ids(Reapplied(e, entry).tree))
  BY DEF RaisesNext
<1>4. Content(e) = Content(After(d, c)) =>
        /\ e.tree \in Trees /\ e.tree.nodes = t.nodes /\ Ids(e.tree) = Ids(t)
        /\ Ids(Reverted(e, entry).tree) = Ids(tree)
  <2> SUFFICES ASSUME Content(e) = Content(After(d, c))
               PROVE  /\ e.tree \in Trees /\ e.tree.nodes = t.nodes /\ Ids(e.tree) = Ids(t)
                      /\ Ids(Reverted(e, entry).tree) = Ids(tree)
    OBVIOUS
  <2>1. Reverted(e, entry) \in DocumentRecords /\ Content(Reverted(e, entry)) = Content(d)
    BY <1>1 DEF Inverted, Undoes
  <2>2. QED
    BY <2>1, <1>2, SameContent
<1>5. Content(e) = Content(d) =>
        /\ e.tree \in Trees /\ e.tree.nodes = tree.nodes /\ Ids(e.tree) = Ids(tree)
        /\ Ids(Reapplied(e, entry).tree) = Ids(t)
  <2> SUFFICES ASSUME Content(e) = Content(d)
               PROVE  /\ e.tree \in Trees /\ e.tree.nodes = tree.nodes /\ Ids(e.tree) = Ids(tree)
                      /\ Ids(Reapplied(e, entry).tree) = Ids(t)
    OBVIOUS
  <2>1. Reapplied(e, entry) \in DocumentRecords /\ Content(Reapplied(e, entry)) = Content(After(d, c))
    BY <1>1 DEF Inverted, Redoes
  <2>2. QED
    BY <2>1, <1>2, SameContent
<1>6. CASE c.kind \in {"metadata", "annotate", "replace", "reorder"}
  <2>1. entry.kind = c.kind
    BY DEF Carries
  <2>2. Ids(t) = Ids(tree)
    <3>1. ChangesOf(d, current, c).inserted = {} /\ ChangesOf(d, current, c).removed = {}
      BY <1>6 DEF ChangesOf, NoChanges
    <3>2. QED
      BY <3>1, <1>1 DEF Effective, AnnouncesChanges
  <2>a. \A node : Update(e.tree, node).next = e.tree.next
    BY DEF Update, DocumentRecords, Trees
  <2>3. ASSUME c.kind # "reorder", NEW value
        PROVE  PutBack(e, entry, value).tree.next = e.tree.next
    <3> DEFINE node == Node(e.tree, entry.root)
    <3>1. CASE c.kind = "metadata"
      <4>1. PutBack(e, entry, value) = [e EXCEPT !.metadata = value]
        BY <2>1, <3>1 DEF PutBack
      <4>2. QED
        BY <4>1 DEF DocumentRecords
    <3>2. CASE c.kind = "annotate"
      <4>1. PutBack(e, entry, value)
              = [e EXCEPT !.tree = Update(e.tree, [node EXCEPT !.annotations = value])]
        BY <2>1, <3>2 DEF PutBack
      <4>2. PutBack(e, entry, value).tree = Update(e.tree, [node EXCEPT !.annotations = value])
        BY <4>1 DEF DocumentRecords
      <4>3. QED
        BY <4>2, <2>a
    <3>3. CASE c.kind = "replace"
      <4>1. PutBack(e, entry, value)
              = [e EXCEPT !.tree = Update(e.tree, [node EXCEPT !.move = value])]
        BY <2>1, <3>3 DEF PutBack
      <4>2. PutBack(e, entry, value).tree = Update(e.tree, [node EXCEPT !.move = value])
        BY <4>1 DEF DocumentRecords
      <4>3. QED
        BY <4>2, <2>a
    <3>4. QED
      BY <1>6, <2>3, <3>1, <3>2, <3>3
  <2>4. \A index : Reordered(e, entry, index).tree.next = e.tree.next
    BY DEF Reordered, ReorderChild, SetChildren, Update, DocumentRecords, Trees
  <2>5. Reverted(e, entry).tree.next = e.tree.next
    BY <1>6, <2>1, <2>3, <2>4 DEF Reverted
  <2>6. Reapplied(e, entry).tree.next = e.tree.next
    BY <1>6, <2>1, <2>3, <2>4 DEF Reapplied
  <2>7. QED
    BY <1>3, <1>4, <1>5, <2>2, <2>5, <2>6, FreshSubset
<1>7. CASE c.kind = "delete"
  <2> DEFINE id == c.node
  <2>1. /\ id \in Ids(tree) \ {Root} /\ t = RemoveNode(tree, id)
    BY <1>7 DEF Executes, Accepts, After, DocumentRecords
  <2>2. /\ entry.kind = "delete" /\ entry.nodes = Stored(tree, Subtree(tree, id))
        /\ entry.root = id /\ entry.parent = Node(tree, id).parent
        /\ entry.sibling_index = SiblingIndex(tree, id)
    BY <1>7 DEF Carries, InverseOf, Entry0
  <2>3. /\ Reverted(e, entry).tree =
             RestoreNodes(e.tree, entry.nodes, entry.root, entry.parent, entry.sibling_index)
        /\ Reapplied(e, entry).tree = RemoveNode(e.tree, entry.root)
    BY <2>2 DEF Reverted, Restored, Reapplied, Removed, DocumentRecords
  <2> HIDE DEF id, t, tree
  <2>4. ASSUME Content(e) = Content(After(d, c))
        PROVE  Fresh(Reverted(e, entry).tree.next, ids \cup Ids(Reverted(e, entry).tree))
    BY <1>2, <1>3, <1>4, <2>1, <2>2, <2>3, <2>4, RestoreFresh
  <2>5. ASSUME Content(e) = Content(d)
        PROVE  Fresh(Reapplied(e, entry).tree.next, ids \cup Ids(Reapplied(e, entry).tree))
    BY <1>2, <1>3, <1>5, <2>1, <2>2, <2>3, <2>5, RemoveFresh
  <2>6. QED
    BY <2>4, <2>5
<1>8. CASE c.kind = "insert"
  <2> DEFINE id == tree.next
  <2>1. /\ c.parent \in Ids(tree) /\ CanAllocate(tree) /\ c.move \in MoveRecords
        /\ c.index \in Nat /\ c.index <= Len(Children(tree, c.parent))
    BY <1>8 DEF Executes, Accepts, Commands, ValidMove, AnyMove, MoveRecords
  <2>2. c.index \in 0 .. Len(Children(tree, c.parent))
    <3>1. Children(tree, c.parent) \in Seq(NodeIds)
      BY <2>1, <1>2, TreeShape
    <3>2. QED
      BY <3>1, <2>1, LenProperties
  <2>3. t = AddNode(tree, c.parent, c.move, c.index)
    BY <1>8 DEF After, DocumentRecords
  <2>4. Inserts(t, tree, c.parent, c.move, c.index)
    BY <1>2, <2>1, <2>2, <2>3, AddedNode
  <2> HIDE DEF t, tree
  <2>5. /\ id \notin Ids(tree) /\ Ids(t) = Ids(tree) \cup {id}
        /\ Node(t, id).parent = c.parent
        /\ Subtree(t, id) = {id} /\ SiblingIndex(t, id) = c.index
        /\ RemoveNode(t, id).nodes = tree.nodes
    BY <2>4 DEF Inserts, NewNode
  <2>6. id \in Ids(t) \ {Root} /\ WellFormed(RemoveNode(t, id))
    BY <1>2, <2>5, TreeShape, SameNodes
  <2>7. /\ entry.kind = "insert" /\ entry.nodes = Stored(t, Subtree(t, id))
        /\ entry.root = id /\ entry.parent = Node(t, id).parent
        /\ entry.sibling_index = SiblingIndex(t, id)
    BY <1>8, <2>5 DEF Carries, InverseOf, Entry0, t, tree
  <2>8. /\ Reapplied(e, entry).tree =
             RestoreNodes(e.tree, entry.nodes, entry.root, entry.parent, entry.sibling_index)
        /\ Reverted(e, entry).tree = RemoveNode(e.tree, entry.root)
    BY <2>7 DEF Reverted, Restored, Reapplied, Removed, DocumentRecords
  <2> HIDE DEF id
  <2>9. ASSUME Content(e) = Content(d)
        PROVE  Fresh(Reapplied(e, entry).tree.next, ids \cup Ids(Reapplied(e, entry).tree))
    <3>1. e.tree \in Trees /\ e.tree.nodes = RemoveNode(t, id).nodes
      BY <1>5, <2>5, <2>9
    <3>2. QED
      BY <3>1, <1>2, <1>3, <1>5, <2>6, <2>7, <2>8, <2>9, RestoreFresh
  <2>10. ASSUME Content(e) = Content(After(d, c))
         PROVE  Fresh(Reverted(e, entry).tree.next, ids \cup Ids(Reverted(e, entry).tree))
    BY <1>2, <1>3, <1>4, <2>6, <2>7, <2>8, <2>10, RemoveFresh
  <2>11. QED
    BY <2>9, <2>10
<1>9. c.kind \in {"insert", "delete", "replace", "reorder", "annotate", "metadata"}
  BY DEF Commands
<1>10. QED
  BY <1>6, <1>7, <1>8, <1>9
-----------------------------------------------------------------------------
(* Positions *)

(* A tree has no more ids than nodes.                                       *)
LEMMA IdsFinite ==
  ASSUME NEW tree \in Trees
  PROVE  /\ IsFiniteSet(Ids(tree))
         /\ Cardinality(Ids(tree)) <= Len(tree.nodes)
<1> DEFINE N == Len(tree.nodes)
           named == [i \in 1 .. N |-> tree.nodes[i].id]
<1>1. N \in Nat /\ DOMAIN tree.nodes = 1 .. N
  BY LenProperties DEF Trees
<1>2. IsFiniteSet(1 .. N) /\ Cardinality(1 .. N) = N
  <2> HIDE DEF N
  <2>1. QED
    BY <1>1, FS_Interval
<1>3. Ids(tree) = {tree.nodes[i].id : i \in 1 .. N}
  BY <1>1 DEF Ids, Range
<1>4. named \in Surjection(1 .. N, Ids(tree))
  <2>1. named \in [1 .. N -> Ids(tree)]
    BY <1>3
  <2>2. \A id \in Ids(tree) : \E i \in 1 .. N : named[i] = id
    BY <1>3
  <2> HIDE DEF named, N
  <2>3. QED
    BY <2>1, <2>2 DEF Surjection
<1>5. QED
  <2> HIDE DEF named, N
  <2>1. IsFiniteSet(Ids(tree)) /\ Cardinality(Ids(tree)) <= Cardinality(1 .. N)
    BY <1>2, <1>4, FS_Surjection
  <2>2. QED
    BY <1>2, <2>1 DEF N

(* A set that grows by an element has more elements.                        *)
LEMMA MoreElements ==
  ASSUME NEW S, IsFiniteSet(S), NEW T \in SUBSET S, T # S
  PROVE  /\ Cardinality(T) \in Nat /\ Cardinality(S) \in Nat
         /\ Cardinality(T) + 1 <= Cardinality(S)
<1>1. /\ IsFiniteSet(T) /\ Cardinality(T) <= Cardinality(S)
      /\ Cardinality(S) # Cardinality(T)
  BY FS_Subset
<1>2. Cardinality(T) \in Nat /\ Cardinality(S) \in Nat
  BY <1>1, FS_CardinalityType
<1>3. QED
  BY <1>1, <1>2

(* Subtree goes down far enough: it holds the children of all it holds.     *)
LEMMA SubtreeClosed ==
  ASSUME NEW tree \in Trees, NEW id \in Ids(tree),
         \A node \in Ids(tree) : Range(Children(tree, node)) \subseteq Ids(tree)
  PROVE  \A x \in Subtree(tree, id) : Range(Children(tree, x)) \subseteq Subtree(tree, id)
<1> DEFINE N == Len(tree.nodes)
<1>1. PICK f \in [0 .. N -> SUBSET Ids(tree)] :
        Descends(f, tree, id) /\ Subtree(tree, id) = f[N]
  BY SubtreeSteps
<1>2. N \in Nat
  BY LenProperties DEF Trees
<1>3. IsFiniteSet(Ids(tree)) /\ Cardinality(Ids(tree)) <= N
  BY IdsFinite
<1> DEFINE Closed(A) == \A x \in A : Range(Children(tree, x)) \subseteq A
           T == {n \in 0 .. N : Closed(f[n]) \/ n + 1 <= Cardinality(f[n])}
<1>4. 0 \in T
  <2>1. f[0] = {id}
    BY <1>1 DEF Descends
  <2>2. Cardinality(f[0]) = 1
    BY <2>1, FS_Singleton
  <2>3. QED
    BY <1>2, <2>2
<1>5. ASSUME NEW n \in 0 .. N - 1, n \in T
      PROVE  n + 1 \in T
  <2>1. n + 1 \in 1 .. N /\ n + 1 - 1 = n /\ n \in 0 .. N
    BY <1>2
  <2>2. f[n + 1] = f[n] \cup UNION {Range(Children(tree, node)) : node \in f[n]}
    BY <2>1, <1>1 DEF Descends
  <2>3. CASE Closed(f[n])
    <3>1. f[n + 1] = f[n]
      BY <2>2, <2>3
    <3>2. QED
      BY <2>1, <2>3, <3>1
  <2>4. CASE ~Closed(f[n])
    <3>1. f[n] \in SUBSET f[n + 1] /\ f[n] # f[n + 1]
      BY <2>2, <2>4
    <3>2. f[n + 1] \in SUBSET Ids(tree)
      BY <1>1, <2>1
    <3>3. IsFiniteSet(f[n + 1])
      BY <3>2, <1>3, FS_Subset
    <3>4. /\ Cardinality(f[n]) \in Nat /\ Cardinality(f[n + 1]) \in Nat
          /\ Cardinality(f[n]) + 1 <= Cardinality(f[n + 1])
      BY <3>1, <3>3, MoreElements
    <3>5. n + 1 <= Cardinality(f[n])
      BY <1>5, <2>4
    <3>6. (n + 1) + 1 <= Cardinality(f[n + 1])
      BY <2>1, <3>4, <3>5
    <3>7. QED
      BY <2>1, <3>6
  <2>5. QED
    BY <2>3, <2>4
<1>6. 0 .. N \subseteq T
  <2> HIDE DEF T, N
  <2>1. QED
    BY <1>2, <1>4, <1>5, BoundedInduction
<1>7. ~(N + 1 <= Cardinality(f[N]))
  <2>1. f[N] \in SUBSET Ids(tree)
    BY <1>1, <1>2
  <2>2. IsFiniteSet(f[N]) /\ Cardinality(f[N]) <= Cardinality(Ids(tree))
    BY <2>1, <1>3, FS_Subset
  <2>3. Cardinality(f[N]) \in Nat /\ Cardinality(Ids(tree)) \in Nat
    BY <2>2, <1>3, FS_CardinalityType
  <2> HIDE DEF N
  <2>4. QED
    BY <1>2, <1>3, <2>2, <2>3
<1>8. N \in 0 .. N
  BY <1>2
<1>9. Closed(f[N])
  BY <1>6, <1>7, <1>8
<1>10. QED
  BY <1>1, <1>9

(* What lies below a node is a matter of the children alone.                *)
LEMMA SameSubtrees ==
  ASSUME NEW tree \in Trees, NEW other \in Trees,
         Ids(other) = Ids(tree),
         \A node \in Ids(tree) : Range(Children(tree, node)) \subseteq Ids(tree),
         \A node \in Ids(tree) : Children(other, node) = Children(tree, node),
         NEW id \in Ids(tree)
  PROVE  Subtree(other, id) = Subtree(tree, id)
<1>1. \A node \in Ids(other) : Range(Children(other, node)) \subseteq Ids(other)
  OBVIOUS
<1>2. /\ id \in Subtree(tree, id) /\ Subtree(tree, id) \subseteq Ids(tree)
      /\ id \in Subtree(other, id) /\ Subtree(other, id) \subseteq Ids(tree)
  BY <1>1, SubtreeFacts
<1>3. /\ \A x \in Subtree(tree, id) : Range(Children(tree, x)) \subseteq Subtree(tree, id)
      /\ \A x \in Subtree(other, id) : Range(Children(other, x)) \subseteq Subtree(other, id)
  BY <1>1, SubtreeClosed
<1>4. Subtree(other, id) \subseteq Subtree(tree, id)
  BY <1>1, <1>2, <1>3, SubtreeWithin
<1>5. Subtree(tree, id) \subseteq Subtree(other, id)
  BY <1>2, <1>3, SubtreeWithin
<1>6. QED
  BY <1>4, <1>5

(* A move that validate_state cannot play.                                  *)
Obstructed(position, move) ==
  \/ position.board[move.from] = None
  \/ /\ position.board[move.to] # None
     /\ position.board[move.to].side = position.board[move.from].side

(* What may be played: compute_position wants a move of the right side,     *)
(* validate_state goes on below a move of the wrong one.                    *)
Allowed(rule, position, move) ==
  IF rule = "strict" THEN Playable(position, move) ELSE ~Obstructed(position, move)

(* The position of a node whose parent has the given one.                   *)
Following(rule, above, move) ==
  IF above = NoPosition \/ ~Allowed(rule, above, move)
  THEN NoPosition ELSE Play(above, move)

(* These are the positions of the nodes in the set: the root has the        *)
(* initial position, any other node follows its parent, which is in the set *)
(* as well.                                                                 *)
Replays(rule, at, tree, ids) ==
  /\ at = [id \in ids |-> at[id]]
  /\ Root \in ids => at[Root] = InitialPosition
  /\ \A id \in ids \ {Root} :
       /\ Node(tree, id).parent \in ids
       /\ at[id] = Following(rule, at[Node(tree, id).parent], Node(tree, id).move)

(* Going down the tree, every node but the root is found through its parent. *)
LEMMA FoundByParent ==
  ASSUME NEW tree \in Trees, WellFormed(tree)
  PROVE  \E f \in [0 .. Len(tree.nodes) -> SUBSET Ids(tree)] :
           /\ f[0] = {Root}
           /\ f[Len(tree.nodes)] = Ids(tree)
           /\ \A n \in 0 .. Len(tree.nodes) - 1 :
                /\ f[n] \subseteq f[n + 1]
                /\ \A x \in f[n + 1] \ f[n] : x # Root /\ Node(tree, x).parent \in f[n]
<1> DEFINE N == Len(tree.nodes)
<1>1. /\ Root \in Ids(tree) /\ Subtree(tree, Root) = Ids(tree)
      /\ \A node \in Ids(tree) :
           /\ Range(Children(tree, node)) \subseteq Ids(tree) \ {Root}
           /\ \A child \in Range(Children(tree, node)) : Node(tree, child).parent = node
  BY TreeShape
<1>2. PICK f \in [0 .. N -> SUBSET Ids(tree)] :
        Descends(f, tree, Root) /\ Subtree(tree, Root) = f[N]
  BY <1>1, SubtreeSteps
<1>3. N \in Nat
  BY LenProperties DEF Trees
<1>4. ASSUME NEW n \in 0 .. N - 1
      PROVE  /\ f[n] \subseteq f[n + 1]
             /\ \A x \in f[n + 1] \ f[n] : x # Root /\ Node(tree, x).parent \in f[n]
  <2>1. n + 1 \in 1 .. N /\ n + 1 - 1 = n /\ n \in 0 .. N
    BY <1>3
  <2>2. f[n + 1] = f[n] \cup UNION {Range(Children(tree, node)) : node \in f[n]}
    BY <2>1, <1>2 DEF Descends
  <2>3. f[n] \subseteq Ids(tree)
    BY <2>1, <1>2
  <2>4. QED
    BY <2>2, <2>3, <1>1
<1>5. f[0] = {Root}
  BY <1>2 DEF Descends
<1>6. QED
  BY <1>1, <1>2, <1>4, <1>5

(* Every node of a tree has one line of moves to replay.                    *)
LEMMA ReplayExists ==
  ASSUME NEW tree \in Trees, WellFormed(tree), NEW rule
  PROVE  \E at : Replays(rule, at, tree, Ids(tree))
<1> DEFINE N == Len(tree.nodes)
<1>1. Root \in Ids(tree)
  BY TreeShape
<1>2. PICK f \in [0 .. N -> SUBSET Ids(tree)] :
        /\ f[0] = {Root}
        /\ f[N] = Ids(tree)
        /\ \A n \in 0 .. N - 1 :
             /\ f[n] \subseteq f[n + 1]
             /\ \A x \in f[n + 1] \ f[n] : x # Root /\ Node(tree, x).parent \in f[n]
  BY <1>1, FoundByParent
<1>3. N \in Nat
  BY LenProperties DEF Trees
<1> DEFINE T == {n \in 0 .. N : Root \in f[n] /\ \E g : Replays(rule, g, tree, f[n])}
<1>4. 0 \in T
  <2> DEFINE g == [id \in {Root} |-> InitialPosition]
  <2>1. g = [id \in {Root} |-> g[id]] /\ g[Root] = InitialPosition
    OBVIOUS
  <2> HIDE DEF g
  <2>2. Replays(rule, g, tree, f[0])
    BY <2>1, <1>2 DEF Replays
  <2>3. 0 \in 0 .. N /\ Root \in f[0] /\ \E h : Replays(rule, h, tree, f[0])
    BY <2>2, <1>2, <1>3
  <2> HIDE DEF N
  <2>4. QED
    BY <2>3
<1>5. ASSUME NEW n \in 0 .. N - 1, n \in T
      PROVE  n + 1 \in T
  <2>1. PICK g : Replays(rule, g, tree, f[n])
    BY <1>5
  <2>2. /\ Root \in f[n] /\ f[n] \subseteq f[n + 1] /\ n + 1 \in 0 .. N
        /\ \A x \in f[n + 1] \ f[n] : x # Root /\ Node(tree, x).parent \in f[n]
    BY <1>2, <1>3, <1>5
  <2> DEFINE value(x) == IF x \in f[n] THEN g[x]
                         ELSE Following(rule, g[Node(tree, x).parent], Node(tree, x).move)
             h == [x \in f[n + 1] |-> value(x)]
  <2>3. \A x \in f[n + 1] : h[x] = value(x)
    OBVIOUS
  <2>4. h = [x \in f[n + 1] |-> h[x]]
    OBVIOUS
  <2> HIDE DEF h
  <2>5. \A x \in f[n] : h[x] = g[x]
    BY <2>2, <2>3
  <2>6. h[Root] = InitialPosition
    BY <2>1, <2>2, <2>5 DEF Replays
  <2>7. ASSUME NEW x \in f[n + 1] \ {Root}
        PROVE  /\ Node(tree, x).parent \in f[n + 1]
               /\ h[x] = Following(rule, h[Node(tree, x).parent], Node(tree, x).move)
    <3>1. CASE x \in f[n]
      <4>1. /\ Node(tree, x).parent \in f[n]
            /\ g[x] = Following(rule, g[Node(tree, x).parent], Node(tree, x).move)
        BY <2>1, <2>7, <3>1 DEF Replays
      <4>2. QED
        BY <4>1, <3>1, <2>2, <2>5
    <3>2. CASE x \notin f[n]
      <4>1. Node(tree, x).parent \in f[n]
        BY <2>2, <2>7, <3>2
      <4>2. QED
        BY <4>1, <3>2, <2>2, <2>3, <2>5, <2>7
    <3>3. QED
      BY <3>1, <3>2
  <2>8. Replays(rule, h, tree, f[n + 1])
    BY <2>4, <2>6, <2>7 DEF Replays
  <2>9. QED
    BY <2>2, <2>8
<1>6. 0 .. N \subseteq T
  <2> HIDE DEF T, N
  <2>1. QED
    BY <1>3, <1>4, <1>5, BoundedInduction
<1>7. QED
  BY <1>2, <1>3, <1>6

(* Positions replays the moves from the root to every node of a document.   *)
LEMMA PositionsReplay ==
  ASSUME NEW d \in DocumentRecords, WellFormed(d.tree)
  PROVE  Replays("strict", Positions(d), d.tree, Ids(d.tree))
<1> DEFINE tree == d.tree
           Is(g) == g = [id \in Ids(tree) |->
                           IF id = Root THEN InitialPosition
                           ELSE LET node == Node(tree, id)
                                    above == g[node.parent]
                                IN  IF above = NoPosition \/ ~Playable(above, node.move)
                                    THEN NoPosition
                                    ELSE Play(above, node.move)]
<1>1. tree \in Trees /\ WellFormed(tree) /\ Root \in Ids(tree)
  BY TreeShape DEF DocumentRecords
<1>2. PICK g : Replays("strict", g, tree, Ids(tree))
  BY <1>1, ReplayExists
<1>3. Is(g)
  <2> DEFINE body(id) == IF id = Root THEN InitialPosition
                         ELSE Following("strict", g[Node(tree, id).parent], Node(tree, id).move)
  <2>1. \A id \in Ids(tree) : g[id] = body(id)
    BY <1>1, <1>2 DEF Replays
  <2>2. g = [id \in Ids(tree) |-> g[id]]
    BY <1>2 DEF Replays
  <2>3. g = [id \in Ids(tree) |-> body(id)]
    <3> HIDE DEF body, tree
    <3>1. QED
      BY <2>1, <2>2
  <2>4. QED
    BY <2>3 DEF Following, Allowed
<1> DEFINE at == CHOOSE h : Is(h)
<1>4. Positions(d) = at
  BY DEF Positions
<1>5. Is(at)
  BY <1>3
<1> HIDE DEF at
<1>6. \A id \in Ids(tree) \ {Root} :
         at[id] = Following("strict", at[Node(tree, id).parent], Node(tree, id).move)
  BY <1>5 DEF Following, Allowed
<1>7. at = [id \in Ids(tree) |-> at[id]] /\ at[Root] = InitialPosition
  BY <1>1, <1>5
<1>8. \A id \in Ids(tree) \ {Root} : Node(tree, id).parent \in Ids(tree)
  BY <1>1, TreeShape
<1>9. QED
  BY <1>4, <1>6, <1>7, <1>8 DEF Replays

(* The nodes of the set are in both trees, and so is the line to each of    *)
(* them, with the same moves.                                               *)
KeepsLines(tree, t, ids) ==
  /\ ids \subseteq Ids(tree) \cap Ids(t)
  /\ \A x \in ids \ {Root} :
       /\ Node(tree, x).parent \in ids
       /\ Node(t, x).parent = Node(tree, x).parent
       /\ Node(t, x).move = Node(tree, x).move

(* A node with the same line has the same position.                         *)
LEMMA SamePositions ==
  ASSUME NEW d \in DocumentRecords, WellFormed(d.tree),
         NEW e \in DocumentRecords, WellFormed(e.tree),
         NEW ids, KeepsLines(d.tree, e.tree, ids)
  PROVE  \A id \in ids : id \in Ids(e.tree) /\ PositionOf(e, id) = PositionOf(d, id)
<1> DEFINE tree == d.tree
           t == e.tree
           N == Len(tree.nodes)
           p == Positions(d)
           q == Positions(e)
<1>1. tree \in Trees /\ Root \in Ids(tree)
  BY TreeShape DEF DocumentRecords
<1>2. PICK f \in [0 .. N -> SUBSET Ids(tree)] :
        /\ f[0] = {Root}
        /\ f[N] = Ids(tree)
        /\ \A n \in 0 .. N - 1 :
             /\ f[n] \subseteq f[n + 1]
             /\ \A x \in f[n + 1] \ f[n] : x # Root /\ Node(tree, x).parent \in f[n]
  BY <1>1, FoundByParent
<1>3. N \in Nat
  BY <1>1, LenProperties DEF Trees
<1>4. Replays("strict", p, tree, Ids(tree)) /\ Replays("strict", q, t, Ids(t))
  BY PositionsReplay
<1> HIDE DEF p, q
<1> DEFINE T == {n \in 0 .. N : \A x \in f[n] \cap ids : q[x] = p[x]}
<1>5. 0 \in T
  <2>1. ids \subseteq Ids(tree) \cap Ids(t)
    BY DEF KeepsLines
  <2>2. \A x \in f[0] \cap ids : q[x] = p[x]
    BY <2>1, <1>2, <1>4 DEF Replays
  <2>3. QED
    BY <2>2, <1>3
<1>6. ASSUME NEW n \in 0 .. N - 1, n \in T
      PROVE  n + 1 \in T
  <2>1. n + 1 \in 0 .. N
    BY <1>3
  <2>2. ASSUME NEW x \in f[n + 1] \cap ids, x \notin f[n]
        PROVE  q[x] = p[x]
    <3>1. x # Root /\ Node(tree, x).parent \in f[n]
      BY <1>2, <2>2
    <3>2. /\ x \in Ids(tree) \cap Ids(t)
          /\ Node(tree, x).parent \in ids
          /\ Node(t, x).parent = Node(tree, x).parent
          /\ Node(t, x).move = Node(tree, x).move
      BY <3>1 DEF KeepsLines
    <3>3. q[Node(tree, x).parent] = p[Node(tree, x).parent]
      BY <1>6, <3>1, <3>2
    <3>4. /\ p[x] = Following("strict", p[Node(tree, x).parent], Node(tree, x).move)
          /\ q[x] = Following("strict", q[Node(t, x).parent], Node(t, x).move)
      BY <1>4, <3>1, <3>2 DEF Replays
    <3>5. QED
      BY <3>2, <3>3, <3>4
  <2>3. \A x \in f[n + 1] \cap ids : q[x] = p[x]
    BY <1>6, <2>2
  <2>4. QED
    BY <2>1, <2>3
<1>7. 0 .. N \subseteq T
  <2> HIDE DEF T, N
  <2>1. QED
    BY <1>3, <1>5, <1>6, BoundedInduction
<1>8. \A x \in ids : x \in Ids(tree) \cap Ids(t)
  BY DEF KeepsLines
<1>9. N \in 0 .. N
  BY <1>3
<1>10. \A x \in ids : q[x] = p[x]
  BY <1>2, <1>7, <1>8, <1>9
<1>11. QED
  BY <1>8, <1>10 DEF PositionOf, p, q

(* Outside a subtree every node has its parent outside it.                  *)
LEMMA OutsideSubtree ==
  ASSUME NEW tree \in Trees, WellFormed(tree), NEW id \in Ids(tree),
         NEW x \in Ids(tree) \ Subtree(tree, id), x # Root
  PROVE  Node(tree, x).parent \in Ids(tree) \ Subtree(tree, id)
<1>1. \A node \in Ids(tree) : Range(Children(tree, node)) \subseteq Ids(tree)
  BY TreeShape
<1>2. \A y \in Subtree(tree, id) : Range(Children(tree, y)) \subseteq Subtree(tree, id)
  BY <1>1, SubtreeClosed
<1> DEFINE parent == Node(tree, x).parent
           siblings == Children(tree, parent)
<1>3. /\ parent \in Ids(tree) /\ siblings \in Seq(NodeIds)
      /\ \E k \in 1 .. Len(siblings) : siblings[k] = x
  BY TreeShape
<1>4. x \in Range(siblings)
  BY <1>3, LenProperties DEF Range
<1>5. QED
  BY <1>2, <1>3, <1>4

(* The ids whose lines a command does not touch.                            *)
Untouched(tree, c) ==
  IF c.kind \in {"replace", "delete"} THEN Ids(tree) \ Subtree(tree, c.node) ELSE Ids(tree)

(* The ids that come with a command: its own node is new, or everything     *)
(* below a replaced move stands for another position.                       *)
Brought(tree, c) ==
  CASE c.kind = "replace" -> Subtree(tree, c.node)
    [] c.kind = "insert"  -> {tree.next}
    [] OTHER -> {}

(* What a command does to the lines: of the nodes it does not touch it      *)
(* keeps them, and there are no others but the ones it brings.              *)
Lines(tree, t, c) ==
  /\ KeepsLines(tree, t, Untouched(tree, c))
  /\ Ids(t) \subseteq Untouched(tree, c) \cup Brought(tree, c)
  /\ c.kind = "replace" => Subtree(t, c.node) = Subtree(tree, c.node)

(* A command that gives a node another move or other annotations.           *)
LEMMA RenewLines ==
  ASSUME NEW tree \in Trees, WellFormed(tree), NEW c,
         c.kind \in {"annotate", "replace"}, c.node \in Ids(tree),
         NEW new \in NodeRecords, new.id = c.node,
         new.children = Children(tree, c.node), new.parent = Node(tree, c.node).parent,
         c.kind = "annotate" => new.move = Node(tree, c.node).move
  PROVE  Lines(tree, Update(tree, new), c)
<1> DEFINE t == Update(tree, new)
<1>1. UniqueIds(tree.nodes)
  BY TreeShape
<1>2. /\ t \in Trees /\ Ids(t) = Ids(tree)
      /\ \A id \in Ids(tree) : Node(t, id) = IF id = new.id THEN new ELSE Node(tree, id)
  BY <1>1, UpdateNode
<1> HIDE DEF t
<1>3. \A x \in Ids(tree) :
        /\ Node(t, x).parent = Node(tree, x).parent
        /\ Children(t, x) = Children(tree, x)
        /\ x # c.node \/ c.kind = "annotate" => Node(t, x).move = Node(tree, x).move
  BY <1>2 DEF Children
<1>4. \A x \in Ids(tree) \ {Root} : Node(tree, x).parent \in Ids(tree)
  BY TreeShape
<1>5. \A node \in Ids(tree) : Range(Children(tree, node)) \subseteq Ids(tree)
  BY TreeShape
<1>6. CASE c.kind = "annotate"
  <2>1. Untouched(tree, c) = Ids(tree)
    BY <1>6 DEF Untouched
  <2>2. KeepsLines(tree, t, Ids(tree))
    BY <1>2, <1>3, <1>4, <1>6 DEF KeepsLines
  <2>3. QED
    BY <1>2, <1>6, <2>1, <2>2 DEF Lines, t
<1>7. CASE c.kind = "replace"
  <2> DEFINE kept == Ids(tree) \ Subtree(tree, c.node)
  <2>1. Untouched(tree, c) = kept /\ Brought(tree, c) = Subtree(tree, c.node)
    BY <1>7 DEF Untouched, Brought
  <2>2. c.node \in Subtree(tree, c.node)
    BY <1>5, SubtreeFacts
  <2>3. Subtree(t, c.node) = Subtree(tree, c.node)
    BY <1>2, <1>3, <1>5, SameSubtrees
  <2>4. \A x \in kept \ {Root} : Node(tree, x).parent \in kept
    BY OutsideSubtree
  <2>5. KeepsLines(tree, t, kept)
    BY <1>2, <1>3, <2>2, <2>4 DEF KeepsLines
  <2>6. Ids(t) \subseteq kept \cup Subtree(tree, c.node)
    BY <1>2
  <2>7. QED
    BY <2>1, <2>3, <2>5, <2>6 DEF Lines, t
<1>8. QED
  BY <1>6, <1>7

(* An insertion, a deletion and a reordering list other children.           *)
LEMMA WithChildrenLine ==
  ASSUME NEW tree \in Trees, UniqueIds(tree.nodes), NEW id \in Ids(tree), NEW list
  PROVE  /\ WithChildren(tree, id, list).parent = Node(tree, id).parent
         /\ WithChildren(tree, id, list).move = Node(tree, id).move
<1>1. Node(tree, id) \in NodeRecords
  BY NodeAt
<1>2. QED
  BY <1>1 DEF WithChildren, NodeRecords

(* The lines of every command.                                              *)
LEMMA CommandLines ==
  ASSUME NEW d \in DocumentRecords, Valid(d), NEW c \in Commands, Executes(d, c)
  PROVE  Lines(d.tree, After(d, c).tree, c)
<1> DEFINE tree == d.tree
           t == After(d, c).tree
<1>1. tree \in Trees /\ WellFormed(tree) /\ UniqueIds(tree.nodes)
  BY TreeShape DEF Valid, Structural, DocumentRecords
<1>2. \A x \in Ids(tree) \ {Root} : Node(tree, x).parent \in Ids(tree)
  BY <1>1, TreeShape
<1>3. CASE c.kind = "metadata"
  <2>1. t = tree
    BY <1>3 DEF After, DocumentRecords
  <2>2. Untouched(tree, c) = Ids(tree)
    BY <1>3 DEF Untouched
  <2>3. KeepsLines(tree, tree, Ids(tree))
    BY <1>2 DEF KeepsLines
  <2>4. QED
    BY <1>3, <2>1, <2>2, <2>3 DEF Lines
<1>4. CASE c.kind = "annotate"
  <2> DEFINE new == [Node(tree, c.node) EXCEPT !.annotations = c.annotations]
  <2>1. c.node \in Ids(tree) /\ c.annotations \in Annotations
    BY <1>4 DEF Executes, Accepts, Commands
  <2>2. Node(tree, c.node) \in NodeRecords /\ Node(tree, c.node).id = c.node
    BY <1>1, <2>1, NodeAt
  <2>3. /\ new \in NodeRecords /\ new.id = c.node /\ new.children = Children(tree, c.node)
        /\ new.parent = Node(tree, c.node).parent /\ new.move = Node(tree, c.node).move
    BY <2>1, <2>2 DEF NodeRecords, Children
  <2>4. t = Update(tree, new)
    BY <1>4 DEF After, DocumentRecords
  <2> HIDE DEF new, t, tree
  <2>5. QED
    BY <1>1, <1>4, <2>1, <2>3, <2>4, RenewLines DEF t, tree
<1>5. CASE c.kind = "replace"
  <2> DEFINE new == [Node(tree, c.node) EXCEPT !.move = c.move]
  <2>1. c.node \in Ids(tree) /\ c.move \in AnyMove /\ ValidMove(c.move)
    BY <1>5 DEF Executes, Accepts, Commands
  <2>2. Node(tree, c.node) \in NodeRecords /\ Node(tree, c.node).id = c.node
    BY <1>1, <2>1, NodeAt
  <2>3. c.move \in MoveRecords
    BY <2>1 DEF ValidMove, AnyMove, MoveRecords
  <2>4. /\ new \in NodeRecords /\ new.id = c.node /\ new.children = Children(tree, c.node)
        /\ new.parent = Node(tree, c.node).parent
    BY <2>2, <2>3 DEF NodeRecords, Children
  <2>5. t = Update(tree, new)
    BY <1>5 DEF After, DocumentRecords
  <2> HIDE DEF new, t, tree
  <2>6. QED
    BY <1>1, <1>5, <2>1, <2>4, <2>5, RenewLines DEF t, tree
<1>6. CASE c.kind = "reorder"
  <2> DEFINE id == c.node
             parent == Node(tree, id).parent
             siblings == Children(tree, parent)
             list == CutList(tree, id)
             moved == InsertAt(list, c.index + 1, id)
  <2>1. id \in Ids(tree) \ {Root} /\ c.index \in Nat /\ c.index < Len(siblings)
    BY <1>6 DEF Executes, Accepts, Commands
  <2>2. Places(tree, id, siblings, SiblingIndex(tree, id), list)
    BY <1>1, <2>1, SiblingPlace
  <2>3. /\ list \in Seq(NodeIds) /\ Len(list) = Len(siblings) - 1
        /\ id \in NodeIds /\ parent \in Ids(tree) /\ Len(siblings) \in Nat
    BY <2>1, <2>2, <1>1, <1>2, IdsTyped, LenProperties DEF Places
  <2>4. moved \in Seq(NodeIds)
    <3> DEFINE p == c.index + 1
    <3>1. p \in 1 .. Len(list) + 1
      BY <2>1, <2>3
    <3> HIDE DEF p, list, siblings, id
    <3>2. InsertAt(list, p, id) \in Seq(NodeIds)
      BY <2>3, <3>1, InsertProperties
    <3>3. QED
      BY <3>2 DEF p
  <2>5. t = SetChildren(tree, parent, moved)
    BY <1>6 DEF After, ReorderChild, CutList, DocumentRecords
  <2> HIDE DEF moved, t
  <2>6. HasChildren(t, tree, parent, moved)
    BY <1>1, <2>3, <2>4, <2>5, SetChildrenNodes
  <2>7. /\ Ids(t) = Ids(tree)
        /\ \A x \in Ids(tree) :
             Node(t, x) = IF x = parent THEN WithChildren(tree, parent, moved) ELSE Node(tree, x)
    BY <2>6 DEF HasChildren
  <2>8. /\ WithChildren(tree, parent, moved).parent = Node(tree, parent).parent
        /\ WithChildren(tree, parent, moved).move = Node(tree, parent).move
    BY <1>1, <2>3, WithChildrenLine
  <2>9. KeepsLines(tree, t, Ids(tree))
    BY <1>2, <2>7, <2>8 DEF KeepsLines
  <2>10. Untouched(tree, c) = Ids(tree)
    BY <1>6 DEF Untouched
  <2>11. QED
    BY <1>6, <2>7, <2>9, <2>10 DEF Lines, t
<1>7. CASE c.kind = "insert"
  <2> DEFINE parent == c.parent
             siblings == Children(tree, parent)
             list == InsertAt(siblings, c.index + 1, tree.next)
  <2>1. /\ parent \in Ids(tree) /\ CanAllocate(tree) /\ c.move \in MoveRecords
        /\ c.index \in Nat /\ c.index <= Len(siblings)
    BY <1>7 DEF Executes, Accepts, Commands, AnyMove, ValidMove, MoveRecords
  <2>2. siblings \in Seq(NodeIds)
    BY <1>1, <2>1, TreeShape
  <2>3. c.index \in 0 .. Len(siblings)
    BY <2>1, <2>2, LenProperties
  <2>4. t = AddNode(tree, parent, c.move, c.index) /\ WellFormed(t)
    BY <1>7 DEF After, DocumentRecords, Executes, Valid, Structural
  <2>5. Inserts(t, tree, parent, c.move, c.index)
    BY <1>1, <2>1, <2>3, <2>4, AddedNode
  <2>6. /\ Ids(t) = Ids(tree) \cup {tree.next}
        /\ \A x \in Ids(tree) :
             Node(t, x) = IF x = parent THEN WithChildren(tree, parent, list) ELSE Node(tree, x)
    BY <2>5 DEF Inserts
  <2>7. /\ WithChildren(tree, parent, list).parent = Node(tree, parent).parent
        /\ WithChildren(tree, parent, list).move = Node(tree, parent).move
    BY <1>1, <2>1, WithChildrenLine
  <2> HIDE DEF list, t
  <2>8. KeepsLines(tree, t, Ids(tree))
    BY <1>2, <2>6, <2>7 DEF KeepsLines
  <2>9. Untouched(tree, c) = Ids(tree) /\ Brought(tree, c) = {tree.next}
    BY <1>7 DEF Untouched, Brought
  <2>10. QED
    BY <1>7, <2>6, <2>8, <2>9 DEF Lines, t
<1>8. CASE c.kind = "delete"
  <2> DEFINE id == c.node
             parent == Node(tree, id).parent
             gone == Subtree(tree, id)
             list == CutList(tree, id)
             kept == Ids(tree) \ gone
  <2>1. id \in Ids(tree) \ {Root}
    BY <1>8 DEF Executes, Accepts
  <2>2. t = RemoveNode(tree, id) /\ WellFormed(t)
    BY <1>8 DEF After, DocumentRecords, Executes, Valid, Structural
  <2>3. /\ parent \in kept /\ Ids(t) = kept
        /\ \A x \in Ids(t) :
             Node(t, x) = IF x = parent THEN WithChildren(tree, parent, list) ELSE Node(tree, x)
    BY <1>1, <2>1, <2>2, RemoveKeeps
  <2>4. /\ WithChildren(tree, parent, list).parent = Node(tree, parent).parent
        /\ WithChildren(tree, parent, list).move = Node(tree, parent).move
    BY <1>1, <2>3, WithChildrenLine
  <2>5. \A x \in kept \ {Root} : Node(tree, x).parent \in kept
    BY <1>1, <2>1, OutsideSubtree
  <2> HIDE DEF list, t, parent, gone
  <2>6. KeepsLines(tree, t, kept)
    BY <2>3, <2>4, <2>5 DEF KeepsLines
  <2>7. Untouched(tree, c) = kept
    BY <1>8 DEF Untouched, gone
  <2>8. QED
    BY <1>8, <2>3, <2>6, <2>7 DEF Lines, t
<1>9. c.kind \in {"insert", "delete", "replace", "reorder", "annotate", "metadata"}
  BY DEF Commands
<1>10. QED
  BY <1>3, <1>4, <1>5, <1>6, <1>7, <1>8, <1>9

(* The nodes of one document keep their positions in the other, except for  *)
(* the ones named.                                                          *)
StaysPut(d, e, gone) ==
  \A id \in Ids(d.tree) \ gone : id \in Ids(e.tree) /\ PositionOf(e, id) = PositionOf(d, id)

(* A command leaves the positions of the nodes it does not touch, and       *)
(* taking it back those of all nodes but the ones it brought.               *)
LEMMA CommandStaysPut ==
  ASSUME NEW d \in DocumentRecords, Valid(d), NEW c \in Commands, Executes(d, c)
  PROVE  /\ StaysPut(d, After(d, c), Ids(d.tree) \ Untouched(d.tree, c))
         /\ StaysPut(After(d, c), d, Brought(d.tree, c))
         /\ c.kind = "replace" =>
              Subtree(After(d, c).tree, c.node) = Subtree(d.tree, c.node)
<1> DEFINE e == After(d, c)
<1>1. Root \in Ids(d.tree)
  BY TreeShape DEF Valid, Structural, DocumentRecords
<1>2. e \in DocumentRecords
  BY <1>1, CommandEffect DEF Effective
<1>3. WellFormed(d.tree) /\ WellFormed(e.tree)
  BY DEF Executes, Valid, Structural
<1>4. Lines(d.tree, e.tree, c)
  BY CommandLines
<1> HIDE DEF e
<1>5. \A id \in Untouched(d.tree, c) : id \in Ids(e.tree) /\ PositionOf(e, id) = PositionOf(d, id)
  BY <1>2, <1>3, <1>4, SamePositions DEF Lines
<1>6. Untouched(d.tree, c) \subseteq Ids(d.tree)
  BY DEF Untouched
<1>7. Ids(e.tree) \ Brought(d.tree, c) \subseteq Untouched(d.tree, c)
  BY <1>4 DEF Lines
<1>8. QED
  BY <1>4, <1>5, <1>6, <1>7 DEF StaysPut, Lines, e
=============================================================================
