----------------------------- MODULE ListLemmas -----------------------------
(***************************************************************************)
(* Induction over the naturals, functions defined by recursion, and lists. *)
(*                                                                         *)
(* The induction theorems of the library take a predicate as a parameter,  *)
(* which the provers cannot instantiate.  Here a predicate is the set of   *)
(* numbers that satisfy it, and a step is a function of a number and the   *)
(* value before it.                                                        *)
(***************************************************************************)
EXTENDS SequencesExt, Integers, FiniteSetTheorems, SequenceTheorems, TLAPS

-----------------------------------------------------------------------------
(* Induction *)

(* A set that holds 0, and with every number the next one, holds them all: *)
(* below a number n that it misses, taking 1 away would be an injection of *)
(* the missing numbers into themselves that leaves n out.                  *)
LEMMA SetInduction ==
  ASSUME NEW S, 0 \in S, \A n \in Nat : n \in S => n + 1 \in S
  PROVE  Nat \subseteq S
<1> SUFFICES ASSUME NEW n \in Nat, n \notin S PROVE FALSE
  OBVIOUS
<1> DEFINE T == {k \in 0 .. n : k \notin S}
           shift == [k \in T |-> k - 1]
<1>1. IsFiniteSet(T)
  <2>1. IsFiniteSet(0 .. n)
    BY FS_Interval
  <2>2. T \in SUBSET (0 .. n)
    OBVIOUS
  <2>3. QED
    BY <2>1, <2>2, FS_Subset
<1>2. shift \in [T -> T]
  <2>1. \A k \in T : k # 0 /\ k - 1 \in Nat /\ k - 1 + 1 = k
    OBVIOUS
  <2>2. \A k \in T : k - 1 \notin S
    BY <2>1
  <2>3. \A k \in T : k - 1 \in T
    BY <2>1, <2>2
  <2>4. QED
    BY <2>3
<1>3. shift \in Injection(T, T)
  <2>1. \A a, b \in T : shift[a] = shift[b] => a = b
    OBVIOUS
  <2>2. QED
    BY <1>2, <2>1 DEF Injection, IsInjective
<1>4. shift \in Surjection(T, T)
  BY <1>1, <1>3, FS_Injection
<1>5. n \in T
  OBVIOUS
<1>6. PICK k \in T : shift[k] = n
  BY <1>4, <1>5 DEF Surjection
<1>7. QED
  BY <1>6

(* The same up to a bound. *)
LEMMA BoundedInduction ==
  ASSUME NEW N \in Nat, NEW S, 0 \in S,
         \A n \in 0 .. N - 1 : n \in S => n + 1 \in S
  PROVE  0 .. N \subseteq S
<1> DEFINE T == {n \in Nat : n <= N => n \in S}
<1>1. 0 \in T
  OBVIOUS
<1>2. \A n \in Nat : n \in T => n + 1 \in T
  OBVIOUS
<1> HIDE DEF T
<1>3. Nat \subseteq T
  BY <1>1, <1>2, SetInduction
<1>4. QED
  BY <1>3 DEF T

(* g starts with init, and step works out its value at n from the one       *)
(* before it.                                                               *)
Computes(g, N, init, step) ==
  /\ g[0] = init
  /\ \A n \in 1 .. N : g[n] = step[<<n, g[n - 1]>>]

(* Such a recursion has a solution. *)
LEMMA RecursionExists ==
  ASSUME NEW N \in Nat, NEW V, NEW init \in V,
         NEW step \in [(1 .. N) \X V -> V]
  PROVE  \E g \in [0 .. N -> V] : Computes(g, N, init, step)
<1> DEFINE Solves(g, m) ==
             /\ g[0] = init
             /\ \A n \in 1 .. m : g[n] = step[<<n, g[n - 1]>>]
           S == {m \in 0 .. N : \E g \in [0 .. N -> V] : Solves(g, m)}
<1>1. 0 \in S
  <2> DEFINE g == [n \in 0 .. N |-> init]
  <2>1. g \in [0 .. N -> V] /\ Solves(g, 0)
    OBVIOUS
  <2> HIDE DEF g
  <2>2. QED
    BY <2>1
<1>2. \A m \in 0 .. N - 1 : m \in S => m + 1 \in S
  <2> SUFFICES ASSUME NEW m \in 0 .. N - 1, m \in S
               PROVE  m + 1 \in S
    OBVIOUS
  <2>1. PICK g \in [0 .. N -> V] : Solves(g, m)
    OBVIOUS
  <2> DEFINE v == step[<<m + 1, g[m]>>]
             h == [g EXCEPT ![m + 1] = v]
  <2>2. v \in V
    OBVIOUS
  <2> HIDE DEF v
  <2>3. h \in [0 .. N -> V] /\ h[0] = init
    BY <2>1, <2>2
  <2> SUFFICES Solves(h, m + 1)
    <3> HIDE DEF h, Solves
    <3>1. m + 1 \in 0 .. N
      OBVIOUS
    <3>2. QED
      BY <2>3, <3>1
  <2>4. ASSUME NEW n \in 1 .. m + 1
        PROVE  h[n] = step[<<n, h[n - 1]>>]
    <3>1. CASE n = m + 1
      <4>1. h[n] = v /\ h[n - 1] = g[m]
        BY <3>1
      <4>2. QED
        BY <3>1, <4>1 DEF v
    <3>2. CASE n # m + 1
      <4>1. h[n] = g[n] /\ h[n - 1] = g[n - 1] /\ n \in 1 .. m
        BY <3>2
      <4>2. QED
        BY <2>1, <4>1
    <3>3. QED
      BY <3>1, <3>2
  <2>5. QED
    BY <2>3, <2>4
<1> HIDE DEF S
<1>3. N \in S
  BY <1>1, <1>2, BoundedInduction
<1>4. QED
  BY <1>3 DEF S, Computes

(* So has a recursion with the same step for every number.                  *)
LEMMA StepsExist ==
  ASSUME NEW V, NEW init \in V, NEW step \in [V -> V]
  PROVE  \E g \in [Nat -> V] : g[0] = init /\ \A n \in Nat : g[n + 1] = step[g[n]]
<1> DEFINE Solves(g, N) ==
             /\ g \in [0 .. N -> V]
             /\ g[0] = init
             /\ \A n \in 1 .. N : g[n] = step[g[n - 1]]
           solution(N) == CHOOSE g : Solves(g, N)
           h == [n \in Nat |-> solution(n)[n]]
<1>1. ASSUME NEW N \in Nat
      PROVE  Solves(solution(N), N)
  <2> DEFINE next == [p \in (1 .. N) \X V |-> step[p[2]]]
  <2>1. next \in [(1 .. N) \X V -> V]
    OBVIOUS
  <2>2. \A n \in 1 .. N, v \in V : next[<<n, v>>] = step[v]
    OBVIOUS
  <2> HIDE DEF next
  <2>3. PICK g \in [0 .. N -> V] : Computes(g, N, init, next)
    BY <2>1, RecursionExists
  <2>4. \A n \in 1 .. N : g[n - 1] \in V
    OBVIOUS
  <2>5. Solves(g, N)
    BY <2>2, <2>3, <2>4 DEF Computes
  <2> HIDE DEF Solves
  <2>6. QED
    BY <2>5
<1>2. ASSUME NEW N \in Nat, NEW f, Solves(f, N), NEW g, Solves(g, N + 1)
      PROVE  g[N] = f[N]
  <2> DEFINE S == {n \in 0 .. N : g[n] = f[n]}
  <2>1. 0 \in S
    BY <1>2
  <2>2. \A n \in 0 .. N - 1 : n \in S => n + 1 \in S
    <3> TAKE n \in 0 .. N - 1
    <3>1. n + 1 \in 1 .. N /\ n + 1 \in 1 .. N + 1 /\ n + 1 - 1 = n
      OBVIOUS
    <3>2. f[n + 1] = step[f[n]] /\ g[n + 1] = step[g[n]]
      BY <3>1, <1>2
    <3>3. QED
      BY <3>1, <3>2
  <2>3. 0 .. N \subseteq S
    <3> HIDE DEF S
    <3>1. QED
      BY <2>1, <2>2, BoundedInduction
  <2>4. QED
    BY <2>3
<1>3. \A n \in Nat : h[n] = solution(n)[n]
  OBVIOUS
<1>4. ASSUME NEW n \in Nat
      PROVE  h[n] \in V /\ h[n + 1] = step[h[n]]
  <2>1. Solves(solution(n), n) /\ Solves(solution(n + 1), n + 1) /\ n + 1 \in Nat
    <3> HIDE DEF Solves, solution
    <3>1. n + 1 \in Nat
      OBVIOUS
    <3>2. QED
      BY <3>1, <1>1
  <2> HIDE DEF solution
  <2>2. solution(n + 1)[n] = solution(n)[n]
    <3> HIDE DEF Solves
    <3>1. QED
      BY <2>1, <1>2
  <2>3. n + 1 \in 1 .. n + 1 /\ n + 1 - 1 = n /\ n \in 0 .. n
    OBVIOUS
  <2>4. solution(n + 1)[n + 1] = step[solution(n + 1)[n]]
    BY <2>1, <2>3
  <2>5. solution(n)[n] \in V
    BY <2>1, <2>3
  <2> HIDE DEF h
  <2>6. QED
    BY <1>3, <2>1, <2>2, <2>4, <2>5
<1>5. h[0] = init
  <2>1. Solves(solution(0), 0)
    BY <1>1
  <2> HIDE DEF solution
  <2>2. QED
    BY <2>1, <1>3
<1>6. h \in [Nat -> V]
  <2>1. \E F : h = [n \in Nat |-> F[n][n]]
    <3> DEFINE F == [n \in Nat |-> solution(n)]
    <3>1. \A n \in Nat : F[n] = solution(n)
      OBVIOUS
    <3> HIDE DEF F, solution
    <3>2. h = [n \in Nat |-> F[n][n]]
      BY <3>1
    <3>3. QED
      BY <3>2
  <2> HIDE DEF h
  <2>2. QED
    BY <1>4, <2>1
<1> HIDE DEF h
<1>7. QED
  BY <1>4, <1>5, <1>6

-----------------------------------------------------------------------------
(* Insertion *)

(* InsertAt makes room for one element: what is before it stays, what is    *)
(* after it moves up by one.                                                *)
Inserted(t, S, s, i, e) ==
  /\ t \in Seq(S)
  /\ Len(t) = Len(s) + 1
  /\ \A k \in 1 .. i - 1 : t[k] = s[k]
  /\ t[i] = e
  /\ \A k \in i + 1 .. Len(s) + 1 : t[k] = s[k - 1]

LEMMA Insertion ==
  ASSUME NEW S, NEW s \in Seq(S), NEW i \in 1 .. Len(s) + 1, NEW e \in S
  PROVE  Inserted(InsertAt(s, i, e), S, s, i, e)
<1> DEFINE a == SubSeq(s, 1, i - 1)
           b == SubSeq(s, i, Len(s))
<1>1. Len(s) \in Nat /\ i \in Nat
  BY LenProperties
<1>2. \A k \in 1 .. Len(s) : s[k] \in S
  BY ElementOfSeq
<1>3. /\ a \in Seq(S) /\ Len(a) = i - 1
      /\ \A k \in 1 .. i - 1 : a[k] = s[k]
  <2>1. 1 \in Int /\ i - 1 \in Int /\ \A k \in 1 .. i - 1 : s[k] \in S
    BY <1>1, <1>2
  <2>2. /\ a \in Seq(S) /\ Len(a) = IF 1 <= i - 1 THEN i - 1 - 1 + 1 ELSE 0
        /\ \A k \in 1 .. i - 1 - 1 + 1 : a[k] = s[1 + k - 1]
    BY <2>1, SubSeqProperties
  <2>3. QED
    BY <1>1, <2>2
<1>4. /\ b \in Seq(S) /\ Len(b) = Len(s) + 1 - i
      /\ \A k \in 1 .. Len(s) + 1 - i : b[k] = s[i + k - 1]
  <2>1. i \in Int /\ Len(s) \in Int /\ \A k \in i .. Len(s) : s[k] \in S
    BY <1>1, <1>2
  <2>2. /\ b \in Seq(S) /\ Len(b) = IF i <= Len(s) THEN Len(s) - i + 1 ELSE 0
        /\ \A k \in 1 .. Len(s) - i + 1 : b[k] = s[i + k - 1]
    BY <2>1, SubSeqProperties
  <2>3. QED
    BY <1>1, <2>2
<1> HIDE DEF a, b
<1> DEFINE c == a \o <<e>>
<1>5. /\ <<e>> \in Seq(S) /\ Len(<<e>>) = 1 /\ <<e>>[1] = e
  OBVIOUS
<1>6. /\ c \in Seq(S) /\ Len(c) = i
      /\ \A k \in 1 .. i - 1 : c[k] = s[k]
      /\ c[i] = e
  <2>1. /\ c \in Seq(S) /\ Len(c) = Len(a) + Len(<<e>>)
        /\ \A k \in 1 .. Len(a) + Len(<<e>>) :
             c[k] = IF k <= Len(a) THEN a[k] ELSE <<e>>[k - Len(a)]
    BY <1>3, <1>5, ConcatProperties
  <2>2. QED
    BY <1>1, <1>3, <1>5, <2>1
<1> HIDE DEF c
<1>7. InsertAt(s, i, e) = c \o b
  BY DEF InsertAt, a, b, c
<1>8. /\ c \o b \in Seq(S) /\ Len(c \o b) = Len(c) + Len(b)
      /\ \A k \in 1 .. Len(c) + Len(b) :
           (c \o b)[k] = IF k <= Len(c) THEN c[k] ELSE b[k - Len(c)]
  BY <1>4, <1>6, ConcatProperties
<1>9. \A k \in i + 1 .. Len(s) + 1 : (c \o b)[k] = s[k - 1]
  BY <1>1, <1>4, <1>6, <1>8
<1>10. Inserted(c \o b, S, s, i, e)
  BY <1>1, <1>4, <1>6, <1>8, <1>9 DEF Inserted
<1>11. QED
  BY <1>7, <1>10

(* The same, fact by fact. *)
LEMMA InsertProperties ==
  ASSUME NEW S, NEW s \in Seq(S), NEW i \in 1 .. Len(s) + 1, NEW e \in S
  PROVE  /\ InsertAt(s, i, e) \in Seq(S)
         /\ Len(InsertAt(s, i, e)) = Len(s) + 1
         /\ \A k \in 1 .. i - 1 : InsertAt(s, i, e)[k] = s[k]
         /\ InsertAt(s, i, e)[i] = e
         /\ \A k \in i + 1 .. Len(s) + 1 : InsertAt(s, i, e)[k] = s[k - 1]
<1> DEFINE t == InsertAt(s, i, e)
<1>1. Inserted(t, S, s, i, e)
  BY Insertion
<1> HIDE DEF t
<1>2. /\ t \in Seq(S)
      /\ Len(t) = Len(s) + 1
      /\ \A k \in 1 .. i - 1 : t[k] = s[k]
      /\ t[i] = e
      /\ \A k \in i + 1 .. Len(s) + 1 : t[k] = s[k - 1]
  BY <1>1 DEF Inserted
<1>3. QED
  BY <1>2 DEF t

(* A list that has the length and the elements of an insertion is one. *)
LEMMA InsertIs ==
  ASSUME NEW S, NEW s \in Seq(S), NEW i \in 1 .. Len(s) + 1, NEW e \in S,
         NEW t \in Seq(S), Len(t) = Len(s) + 1,
         \A k \in 1 .. i - 1 : t[k] = s[k],
         t[i] = e,
         \A k \in i + 1 .. Len(s) + 1 : t[k] = s[k - 1]
  PROVE  t = InsertAt(s, i, e)
<1> DEFINE u == InsertAt(s, i, e)
<1>1. /\ u \in Seq(S) /\ Len(u) = Len(s) + 1
      /\ \A k \in 1 .. i - 1 : u[k] = s[k]
      /\ u[i] = e
      /\ \A k \in i + 1 .. Len(s) + 1 : u[k] = s[k - 1]
  <2>1. Inserted(u, S, s, i, e)
    BY Insertion
  <2> HIDE DEF u
  <2>2. QED
    BY <2>1 DEF Inserted
<1> HIDE DEF u
<1>2. Len(s) \in Nat
  BY LenProperties
<1>3. \A k \in 1 .. Len(t) : t[k] = u[k]
  <2> TAKE k \in 1 .. Len(t)
  <2>1. CASE k < i
    BY <1>1, <1>2, <2>1
  <2>2. CASE k = i
    BY <1>1, <2>2
  <2>3. CASE k > i
    BY <1>1, <1>2, <2>3
  <2>4. QED
    BY <2>1, <2>2, <2>3, <1>2
<1>4. QED
  BY <1>1, <1>3, SeqEqual DEF u

(* Inserting at the end appends, inserting commutes with appending, and the *)
(* list can be read back from the insertion.                                *)
LEMMA InsertAtEnd ==
  ASSUME NEW S, NEW s \in Seq(S), NEW e \in S
  PROVE  InsertAt(s, Len(s) + 1, e) = Append(s, e)
<1>1. /\ Append(s, e) \in Seq(S) /\ Len(Append(s, e)) = Len(s) + 1
      /\ \A k \in 1 .. Len(s) : Append(s, e)[k] = s[k]
      /\ Append(s, e)[Len(s) + 1] = e
      /\ Len(s) \in Nat
  BY AppendProperties, LenProperties
<1> DEFINE t == Append(s, e)
           i == Len(s) + 1
<1>2. /\ t \in Seq(S) /\ Len(t) = Len(s) + 1
      /\ i \in 1 .. Len(s) + 1
      /\ \A k \in 1 .. i - 1 : t[k] = s[k]
      /\ t[i] = e
      /\ \A k \in i + 1 .. Len(s) + 1 : t[k] = s[k - 1]
  BY <1>1
<1> HIDE DEF t, i
<1>3. t = InsertAt(s, i, e)
  BY <1>2, InsertIs
<1>4. QED
  BY <1>3 DEF t, i

(* Appending after an insertion is inserting after the append. *)
LEMMA InsertThenAppend ==
  ASSUME NEW S, NEW s \in Seq(S), NEW i \in 1 .. Len(s) + 1, NEW e \in S, NEW x \in S
  PROVE  Append(InsertAt(s, i, e), x) = InsertAt(Append(s, x), i, e)
<1> DEFINE a == InsertAt(s, i, e)
           b == Append(s, x)
           t == Append(a, x)
<1>1. /\ a \in Seq(S) /\ Len(a) = Len(s) + 1
      /\ \A k \in 1 .. i - 1 : a[k] = s[k]
      /\ a[i] = e
      /\ \A k \in i + 1 .. Len(s) + 1 : a[k] = s[k - 1]
  <2>1. Inserted(a, S, s, i, e)
    BY Insertion
  <2> HIDE DEF a
  <2>2. QED
    BY <2>1 DEF Inserted
<1>2. /\ b \in Seq(S) /\ Len(b) = Len(s) + 1 /\ Len(s) \in Nat
      /\ \A k \in 1 .. Len(s) : b[k] = s[k]
      /\ b[Len(s) + 1] = x
  BY AppendProperties, LenProperties
<1> HIDE DEF a, b
<1>3. /\ t \in Seq(S) /\ Len(t) = Len(a) + 1
      /\ \A k \in 1 .. Len(a) : t[k] = a[k]
      /\ t[Len(a) + 1] = x
  BY <1>1, AppendProperties
<1> HIDE DEF t
<1>4. Len(t) = Len(b) + 1 /\ i \in 1 .. Len(b) + 1
  BY <1>1, <1>2, <1>3
<1>5. \A k \in 1 .. i - 1 : t[k] = b[k]
  BY <1>1, <1>2, <1>3
<1>6. t[i] = e
  BY <1>1, <1>2, <1>3
<1>7. \A k \in i + 1 .. Len(b) + 1 : t[k] = b[k - 1]
  <2> TAKE k \in i + 1 .. Len(b) + 1
  <2>1. CASE k = Len(b) + 1
    BY <1>1, <1>2, <1>3, <2>1
  <2>2. CASE k # Len(b) + 1
    <3>1. k \in i + 1 .. Len(s) + 1 /\ k \in 1 .. Len(a) /\ k - 1 \in 1 .. Len(s)
      BY <1>1, <1>2, <2>2
    <3>2. t[k] = a[k] /\ a[k] = s[k - 1] /\ b[k - 1] = s[k - 1]
      BY <1>1, <1>2, <1>3, <3>1
    <3>3. QED
      BY <3>2
  <2>3. QED
    BY <2>1, <2>2
<1>8. t = InsertAt(b, i, e)
  BY <1>2, <1>3, <1>4, <1>5, <1>6, <1>7, InsertIs
<1>9. QED
  BY <1>8 DEF a, b, t

(* Lists that are equal after the same insertion were equal before. *)
LEMMA InsertCancels ==
  ASSUME NEW S, NEW s \in Seq(S), NEW t \in Seq(S), Len(s) = Len(t),
         NEW i \in 1 .. Len(s) + 1, NEW e \in S
  PROVE  InsertAt(s, i, e) = InsertAt(t, i, e) => s = t
<1> DEFINE a == InsertAt(s, i, e)
           b == InsertAt(t, i, e)
<1>1. Inserted(a, S, s, i, e)
  BY Insertion
<1>2. Inserted(b, S, t, i, e)
  <2>1. i \in 1 .. Len(t) + 1
    OBVIOUS
  <2>2. QED
    BY <2>1, Insertion
<1>3. SUFFICES ASSUME a = b PROVE s = t
  BY DEF a, b
<1> HIDE DEF a, b
<1>4. Len(s) \in Nat
  BY LenProperties
<1>5. \A k \in 1 .. Len(s) : s[k] = t[k]
  <2> TAKE k \in 1 .. Len(s)
  <2>1. CASE k < i
    BY <1>1, <1>2, <1>3, <1>4, <2>1 DEF Inserted
  <2>2. CASE k >= i
    <3>1. k + 1 \in i + 1 .. Len(s) + 1 /\ k + 1 - 1 = k
      BY <1>4, <2>2
    <3>2. a[k + 1] = s[k] /\ b[k + 1] = t[k]
      BY <1>1, <1>2, <3>1 DEF Inserted
    <3>3. QED
      BY <1>3, <3>2
  <2>3. QED
    BY <1>4, <2>1, <2>2
<1>6. QED
  BY <1>5, SeqEqual

(* Inserting adds one element to the range.                                 *)
LEMMA InsertRange ==
  ASSUME NEW S, NEW s \in Seq(S), NEW i \in 1 .. Len(s) + 1, NEW e \in S
  PROVE  Range(InsertAt(s, i, e)) = Range(s) \cup {e}
<1> DEFINE t == InsertAt(s, i, e)
<1>1. /\ t \in Seq(S) /\ Len(t) = Len(s) + 1
      /\ \A k \in 1 .. i - 1 : t[k] = s[k]
      /\ t[i] = e
      /\ \A k \in i + 1 .. Len(s) + 1 : t[k] = s[k - 1]
  <2>1. Inserted(t, S, s, i, e)
    BY Insertion
  <2> HIDE DEF t
  <2>2. QED
    BY <2>1 DEF Inserted
<1>2. Len(s) \in Nat /\ DOMAIN s = 1 .. Len(s) /\ DOMAIN t = 1 .. Len(s) + 1
  BY <1>1, LenProperties
<1> HIDE DEF t
<1>3. ASSUME NEW x \in Range(t)
      PROVE  x \in Range(s) \cup {e}
  <2>1. PICK k \in 1 .. Len(s) + 1 : t[k] = x
    BY <1>2, <1>3 DEF Range
  <2>2. CASE k < i
    BY <2>1, <2>2, <1>1, <1>2 DEF Range
  <2>3. CASE k = i
    BY <2>1, <2>3, <1>1
  <2>4. CASE k > i
    <3>1. k \in i + 1 .. Len(s) + 1 /\ k - 1 \in 1 .. Len(s)
      BY <2>1, <2>4, <1>2
    <3>2. QED
      BY <2>1, <3>1, <1>1, <1>2 DEF Range
  <2>5. QED
    BY <2>1, <2>2, <2>3, <2>4, <1>2
<1>4. ASSUME NEW x \in Range(s)
      PROVE  x \in Range(t)
  <2>1. PICK k \in 1 .. Len(s) : s[k] = x
    BY <1>2, <1>4 DEF Range
  <2>2. CASE k < i
    <3>1. k \in 1 .. i - 1 /\ k \in 1 .. Len(s) + 1
      BY <1>2, <2>2
    <3>2. t[k] = x
      BY <1>1, <2>1, <3>1
    <3>3. QED
      BY <1>2, <3>1, <3>2 DEF Range
  <2>3. CASE k >= i
    <3>1. k + 1 \in i + 1 .. Len(s) + 1 /\ k + 1 - 1 = k
      BY <2>1, <2>3, <1>2
    <3>2. t[k + 1] = x /\ k + 1 \in DOMAIN t
      BY <2>1, <3>1, <1>1, <1>2
    <3>3. QED
      BY <3>2 DEF Range
  <2>4. QED
    BY <2>1, <2>2, <2>3, <1>2
<1>5. i \in DOMAIN t /\ t[i] = e
  BY <1>1, <1>2
<1>6. e \in Range(t)
  BY <1>5 DEF Range
<1>7. Range(t) = Range(s) \cup {e}
  BY <1>3, <1>4, <1>6
<1>8. QED
  BY <1>7 DEF t

-----------------------------------------------------------------------------
(* Sequences as stacks: the elements that push, pop and trimming leave. *)

(* Popping returns an element of the stack and leaves only its elements. *)
LEMMA PopElements ==
  ASSUME NEW S, NEW s \in Seq(S), s # <<>>
  PROVE  /\ Front(s) \in Seq(S)
         /\ Len(Front(s)) = Len(s) - 1
         /\ \A i \in 1 .. Len(s) - 1 : Front(s)[i] = s[i]
         /\ Last(s) \in S
         /\ Last(s) \in Range(s)
         /\ Range(Front(s)) \subseteq Range(s)
<1>1. Len(s) \in Nat /\ Len(s) # 0
  BY EmptySeq, LenProperties
<1> DEFINE n == Len(s) - 1
<1>a. n \in Int /\ \A i \in 1 .. n : s[i] \in S
  BY <1>1, ElementOfSeq
<1>b. /\ SubSeq(s, 1, n) \in Seq(S)
      /\ Len(SubSeq(s, 1, n)) = IF 1 <= n THEN n - 1 + 1 ELSE 0
      /\ \A i \in 1 .. n - 1 + 1 : SubSeq(s, 1, n)[i] = s[1 + i - 1]
  BY <1>a, SubSeqProperties
<1>c. Front(s) = SubSeq(s, 1, n)
  BY DEF Front
<1>2. Front(s) \in Seq(S) /\ Len(Front(s)) = Len(s) - 1
  <2> HIDE DEF n
  <2>1. n \in Nat /\ n = Len(s) - 1
    BY <1>1 DEF n
  <2>2. Len(Front(s)) = n
    BY <2>1, <1>b, <1>c
  <2>3. QED
    BY <1>b, <1>c, <2>1, <2>2
<1>3. \A i \in 1 .. Len(s) - 1 : Front(s)[i] = s[i]
  BY <1>1, <1>b DEF Front
<1>4. Last(s) \in S /\ Last(s) \in Range(s)
  BY <1>1, LenProperties, ElementOfSeq DEF Last, Range
<1>5. Range(Front(s)) \subseteq Range(s)
  BY <1>1, <1>2, <1>3, LenProperties DEF Range
<1>6. QED
  BY <1>2, <1>3, <1>4, <1>5

(* Pushing adds one element, on top. *)
LEMMA PushElements ==
  ASSUME NEW S, NEW s \in Seq(S), NEW e \in S
  PROVE  /\ Append(s, e) \in Seq(S)
         /\ Append(s, e) # <<>>
         /\ Len(Append(s, e)) = Len(s) + 1
         /\ \A i \in 1 .. Len(s) : Append(s, e)[i] = s[i]
         /\ Last(Append(s, e)) = e
         /\ Range(Append(s, e)) = Range(s) \cup {e}
<1>1. Append(s, e) \in Seq(S) /\ Len(Append(s, e)) = Len(s) + 1
  BY AppendProperties
<1>2. /\ \A i \in 1 .. Len(s) : Append(s, e)[i] = s[i]
      /\ Append(s, e)[Len(s) + 1] = e
      /\ Append(s, e) # <<>>
  BY AppendProperties
<1>3. Last(Append(s, e)) = e
  BY <1>1, <1>2 DEF Last
<1>4. Range(Append(s, e)) = Range(s) \cup {e}
  BY <1>1, <1>2, LenProperties DEF Range
<1>5. QED
  BY <1>1, <1>2, <1>3, <1>4

(* Trimming keeps a suffix: its top is the top, and nothing is added. *)
LEMMA TrimElements ==
  ASSUME NEW S, NEW s \in Seq(S), NEW k \in 1 .. Len(s)
  PROVE  LET t == SubSeq(s, k, Len(s))
         IN  /\ t \in Seq(S)
             /\ t # <<>>
             /\ Len(t) = Len(s) - k + 1
             /\ \A i \in 1 .. Len(t) : t[i] = s[i + k - 1]
             /\ Last(t) = Last(s)
             /\ Range(t) \subseteq Range(s)
<1> DEFINE t == SubSeq(s, k, Len(s))
<1>1. Len(s) \in Nat
  BY LenProperties
<1>a. \A i \in k .. Len(s) : s[i] \in S
  BY <1>1, ElementOfSeq
<1>b. /\ t \in Seq(S)
      /\ Len(t) = IF k <= Len(s) THEN Len(s) - k + 1 ELSE 0
      /\ \A i \in 1 .. Len(s) - k + 1 : t[i] = s[k + i - 1]
  BY <1>1, <1>a, SubSeqProperties
<1>2. t \in Seq(S) /\ Len(t) = Len(s) - k + 1
  BY <1>1, <1>b
<1>3. \A i \in 1 .. Len(t) : t[i] = s[i + k - 1]
  BY <1>1, <1>2, <1>b
<1>4. t # <<>>
  BY <1>1, <1>2, EmptySeq
<1>5. Last(t) = Last(s)
  BY <1>1, <1>2, <1>3 DEF Last
<1>6. Range(t) \subseteq Range(s)
  BY <1>1, <1>2, <1>3, LenProperties DEF Range
<1>7. QED
  BY <1>2, <1>3, <1>4, <1>5, <1>6
=============================================================================
