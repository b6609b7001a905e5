----------------------------- MODULE UnicodeText -----------------------------
(***************************************************************************)
(* Texts and their bytes (core/utf8.cpp, core/unicode_nfc.cpp).  A text is *)
(* a sequence of code points, a string its sequence of UTF-8 bytes.  Of    *)
(* the generated Unicode tables the module keeps the combining marks       *)
(* U+0300..U+036F, the letters of Latin-1 with their marks, two letters of *)
(* two marks, a mark that stands for two, and Hangul, which the code works *)
(* out by arithmetic.                                                      *)
(***************************************************************************)
EXTENDS Integers, SequencesExt, FiniteSetsExt, TLC

-----------------------------------------------------------------------------
(* UTF-8 *)

Scalar(point) == point \in 0 .. \h10FFFF /\ point \notin \hD800 .. \hDFFF

(* append_utf8, and decode of well-formed bytes. *)
Encoded(point) ==
  LET tail(shift) == 128 + ((point \div shift) % 64)
  IN  IF point <= \h7F THEN <<point>>
      ELSE IF point <= \h7FF THEN <<192 + point \div 64, tail(1)>>
      ELSE IF point <= \hFFFF THEN <<224 + point \div 4096, tail(64), tail(1)>>
      ELSE <<240 + point \div 262144, tail(4096), tail(64), tail(1)>>

Utf8(text) == FlattenSeq([i \in DOMAIN text |-> Encoded(text[i])])

Continuation(byte) == byte \in \h80 .. \hBF

(* Mutant: the second byte after E0, ED, F0 and F4 is any continuation byte. *)
SequenceAtLoose(bytes, i) ==
  LET first == bytes[i]
      follows(k) == i + k <= Len(bytes) /\ Continuation(bytes[i + k])
  IN  CASE first <= \h7F -> 1
        [] first \in \hC2 .. \hDF /\ follows(1) -> 2
        [] first \in \hE0 .. \hEF /\ follows(1) /\ follows(2) -> 3
        [] first \in \hF0 .. \hF4 /\ follows(1) /\ follows(2) /\ follows(3) -> 4
        [] OTHER -> 0

(* The number of bytes of the sequence that begins at i; 0 when none does.  *)
SequenceAt(bytes, i) ==
  LET first == bytes[i]
      follows(k) == i + k <= Len(bytes) /\ Continuation(bytes[i + k])
      second(low, high) == bytes[i + 1] \in low .. high
  IN  CASE first <= \h7F -> 1
        [] first \in \hC2 .. \hDF /\ follows(1) -> 2
        [] /\ first \in \hE0 .. \hEF /\ follows(1) /\ follows(2)
           /\ first = \hE0 => second(\hA0, \hBF)
           /\ first = \hED => second(\h80, \h9F) -> 3
        [] /\ first \in \hF0 .. \hF4 /\ follows(1) /\ follows(2) /\ follows(3)
           /\ first = \hF0 => second(\h90, \hBF)
           /\ first = \hF4 => second(\h80, \h8F) -> 4
        [] OTHER -> 0

(* valid_utf8: first_invalid_utf8 goes from sequence to sequence up to the   *)
(* end, so that every byte begins a sequence or lies in one.                *)
ValidUtf8(bytes) ==
  \A i \in DOMAIN bytes :
    IF Continuation(bytes[i])
    THEN \E back \in 1 .. Min({3, i - 1}) : SequenceAt(bytes, i - back) > back
    ELSE SequenceAt(bytes, i) # 0

DecodedAt(bytes, i) ==
  LET low(k) == bytes[i + k] % 64
  IN  CASE SequenceAt(bytes, i) = 1 -> bytes[i]
        [] SequenceAt(bytes, i) = 2 -> (bytes[i] % 32) * 64 + low(1)
        [] SequenceAt(bytes, i) = 3 -> (bytes[i] % 16) * 4096 + low(1) * 64 + low(2)
        [] OTHER -> (bytes[i] % 8) * 262144 + low(1) * 4096 + low(2) * 64 + low(3)

(* The code points of valid bytes. *)
TextOf(bytes) ==
  LET starts == SelectSeq([i \in DOMAIN bytes |-> i], LAMBDA i : ~Continuation(bytes[i]))
  IN  [k \in DOMAIN starts |-> DecodedAt(bytes, starts[k])]

(* The unsigned lexicographic order of strings. *)
BytesLess(left, right) ==
  \/ \E i \in DOMAIN right :
       /\ i <= Len(left) => left[i] < right[i]
       /\ i - 1 <= Len(left)
       /\ \A j \in 1 .. i - 1 : left[j] = right[j]

(* The elements of a set in order. *)
InOrder(set, Less(_, _)) ==
  LET rank == [x \in set |-> Cardinality({y \in set : Less(y, x)})]
  IN  [i \in 1 .. Cardinality(set) |-> CHOOSE x \in set : rank[x] = i - 1]

-----------------------------------------------------------------------------
(* Normalization form C *)

CombiningClass(point) ==
  CASE point \in \h300 .. \h314 \cup \h33D .. \h344 \cup \h34A .. \h34C
         \cup \h350 .. \h352 \cup {\h346, \h357, \h35B} \cup \h363 .. \h36F -> 230
    [] point \in {\h315, \h31A, \h358} -> 232
    [] point = \h31B -> 216
    [] point \in {\h321, \h322, \h327, \h328} -> 202
    [] point \in \h334 .. \h338 -> 1
    [] point = \h345 -> 240
    [] point \in {\h35C, \h35F, \h362} -> 233
    [] point \in {\h35D, \h35E, \h360, \h361} -> 234
    [] point \in (\h316 .. \h333 \cup \h339 .. \h33C \cup \h347 .. \h349
         \cup {\h34D, \h34E} \cup \h353 .. \h356 \cup {\h359, \h35A}) -> 220
    [] OTHER -> 0

(* The letters of Latin-1 that stand for a letter and a mark: a row is a    *)
(* letter, its first composite, and the marks of the composites in order.   *)
Grave == \h300
Acute == \h301
Circumflex == \h302
Tilde == \h303
Diaeresis == \h308
Ring == \h30A
Cedilla == \h327

Latin ==
  LET row(letter, first, marks) ==
        [point \in first .. first + Len(marks) - 1 |-> <<letter, marks[point - first + 1]>>]
      four == <<Grave, Acute, Circumflex, Diaeresis>>
      five == <<Grave, Acute, Circumflex, Tilde, Diaeresis>>
      upper == row(\h41, \hC0, Append(five, Ring)) @@ row(\h43, \hC7, <<Cedilla>>)
                 @@ row(\h45, \hC8, four) @@ row(\h49, \hCC, four)
                 @@ row(\h4E, \hD1, <<Tilde>>) @@ row(\h4F, \hD2, five)
                 @@ row(\h55, \hD9, four) @@ row(\h59, \hDD, <<Acute>>)
      lower == [point \in {p + 32 : p \in DOMAIN upper} |->
                  <<upper[point - 32][1] + 32, upper[point - 32][2]>>]
  IN  upper @@ lower @@ (\hFF :> <<\h79, Diaeresis>>)

(* A circumflex with an acute, and the mark that stands for two. *)
Decompositions ==
  Latin @@ (\h1EBE :> <<\hCA, Acute>>) @@ (\h1EBF :> <<\hEA, Acute>>)
    @@ (\h344 :> <<Diaeresis, Acute>>)

(* The mark that stands for two is not composed again. *)
Composing(decompositions) ==
  LET composed == DOMAIN decompositions \ {\h344}
  IN  [pair \in {decompositions[point] : point \in composed} |->
         CHOOSE point \in composed : decompositions[point] = pair]

Compositions == Composing(Decompositions)

SBase == \hAC00
LBase == \h1100
VBase == \h1161
TBase == \h11A7
LCount == 19
VCount == 21
TCount == 28
SCount == LCount * VCount * TCount

Syllable(point) == point \in SBase .. SBase + SCount - 1

Decomposed ==
  [point \in Nat |->
     IF Syllable(point)
     THEN LET s == point - SBase
              trailing == s % TCount
          IN  <<LBase + s \div (VCount * TCount), VBase + (s % (VCount * TCount)) \div TCount>>
                \o IF trailing = 0 THEN <<>> ELSE <<TBase + trailing>>
     ELSE <<point>>]

DecomposedBy(decompositions) ==
  LET full[point \in Nat] ==
        IF point \in DOMAIN decompositions
        THEN FlattenSeq([i \in DOMAIN decompositions[point] |-> full[decompositions[point][i]]])
        ELSE Decomposed[point]
  IN  full

Decompose == DecomposedBy(Decompositions)

NoComposite == -1

Composite(compositions, pair) ==
  IF pair \in DOMAIN compositions THEN compositions[pair] ELSE NoComposite

Compose(first, second) ==
  IF first \in LBase .. LBase + LCount - 1 /\ second \in VBase .. VBase + VCount - 1
  THEN SBase + ((first - LBase) * VCount + second - VBase) * TCount
  ELSE IF /\ Syllable(first) /\ (first - SBase) % TCount = 0
          /\ second \in TBase + 1 .. TBase + TCount - 1
  THEN first + second - TBase
  ELSE Composite(Compositions, <<first, second>>)

(* A mark moves before the marks of a higher class that precede it.         *)
Placed(points, point) ==
  LET class == CombiningClass(point)
      passed == {n \in DOMAIN points :
                   \A i \in n .. Len(points) : CombiningClass(points[i]) > class}
  IN  IF class = 0 THEN Append(points, point)
      ELSE InsertAt(points, Len(points) - Cardinality(passed) + 1, point)

CanonicalDecomposition(text) ==
  FoldLeft(Placed, <<>>, FlattenSeq([i \in DOMAIN text |-> Decompose[text[i]]]))

Joined(done, composite) ==
  [done EXCEPT !.points[done.at] = composite, !.starter = composite]

Appended(done, point, class) ==
  [points |-> Append(done.points, point),
   at |-> IF class = 0 THEN Len(done.points) + 1 ELSE done.at,
   starter |-> IF class = 0 THEN point ELSE done.starter,
   previous |-> class]

(* Mutant: marks that follow another mark are composed whatever its class.  *)
TakenUnblocked(done, point, class, composite) ==
  IF composite # NoComposite THEN Joined(done, composite) ELSE Appended(done, point, class)

(* A code point joins the last starter unless the code point before it is   *)
(* of its class or a higher one.                                            *)
Taken(done, point, class, composite) ==
  IF composite # NoComposite /\ (done.previous = 0 \/ done.previous < class)
  THEN Joined(done, composite)
  ELSE Appended(done, point, class)

(* The loop over the decomposition. *)
ComposedWith(done, point) ==
  Taken(done, point, CombiningClass(point),
        IF done.points = <<>> THEN NoComposite ELSE Compose(done.starter, point))

(* normalize_nfc and is_nfc; a text without marks is what it was before.    *)
Nfc(text) ==
  IF \A i \in DOMAIN text : text[i] < Grave THEN text
  ELSE FoldLeft(ComposedWith, [points |-> <<>>, at |-> 1, starter |-> 0, previous |-> 0],
                CanonicalDecomposition(text)).points

IsNfc(text) == Nfc(text) = text
=============================================================================
