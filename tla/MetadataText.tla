---------------------------- MODULE MetadataText ----------------------------
(***************************************************************************)
(* The texts of the metadata that have a form of their own: names of       *)
(* extensions (core/extension_name.cpp), dates (core/date_time.cpp) and    *)
(* the JSON of extended metadata (core/codec/restricted_json.cpp).  Here,  *)
(* as in the code, a text is its bytes.                                    *)
(*                                                                         *)
(* Extensions are a function from namespaces to functions from keys to     *)
(* values; a value is a string, or an array of strings.                    *)
(***************************************************************************)
EXTENDS UnicodeText

Letter(byte) == byte \in 97 .. 122
Digit(byte) == byte \in 48 .. 57
Dot == 46
Hyphen == 45
Underscore == 95
Colon == 58

-----------------------------------------------------------------------------
(* Names and dates *)

(* Segments of letters, digits and inner hyphens, each from a letter on.    *)
ValidNamespace(bytes) ==
  /\ Dot \in Range(bytes)
  /\ \A i \in DOMAIN bytes :
       LET starts == i = 1 \/ bytes[i - 1] = Dot
           ends == i = Len(bytes) \/ bytes[i + 1] = Dot
       IN  \/ Letter(bytes[i])
           \/ Digit(bytes[i]) /\ ~starts
           \/ bytes[i] = Hyphen /\ ~starts /\ ~ends
           \/ bytes[i] = Dot /\ ~starts /\ i # Len(bytes)

ValidKey(bytes) ==
  /\ bytes # <<>> /\ Letter(bytes[1])
  /\ \A i \in DOMAIN bytes : Letter(bytes[i]) \/ Digit(bytes[i]) \/ bytes[i] = Underscore

(* The number that n digits from i on stand for; -1 when they are no digits. *)
Number(bytes, i, n) ==
  LET value[k \in 0 .. n] ==
        IF k = 0 THEN 0 ELSE value[k - 1] * 10 + bytes[i + k - 1] - 48
  IN  IF /\ i + n - 1 <= Len(bytes)
         /\ \A k \in i .. i + n - 1 : Digit(bytes[k])
      THEN value[n] ELSE -1

ByteAt(bytes, i) == IF i \in DOMAIN bytes THEN bytes[i] ELSE -1

DaysOf(year, month) ==
  LET leap == year % 4 = 0 /\ (year % 100 # 0 \/ year % 400 = 0)
  IN  CASE month = 2 -> IF leap THEN 29 ELSE 28
        [] month \in {4, 6, 9, 11} -> 30
        [] OTHER -> 31

ValidZone(bytes, i) ==
  \/ i = Len(bytes) + 1
  \/ i = Len(bytes) /\ bytes[i] = 90
  \/ /\ Len(bytes) = i + 5
     /\ bytes[i] \in {43, 45} /\ bytes[i + 3] = Colon
     /\ Number(bytes, i + 1, 2) \in 0 .. 23 /\ Number(bytes, i + 4, 2) \in 0 .. 59

NoPrecision == "none"

(* date_time_precision *)
DatePrecision(bytes) ==
  LET n == Len(bytes)
      year == Number(bytes, 1, 4)
      month == Number(bytes, 6, 2)
      calendar == /\ year # -1 /\ ByteAt(bytes, 5) = Hyphen /\ month \in 1 .. 12
                  /\ ByteAt(bytes, 8) = Hyphen
                  /\ Number(bytes, 9, 2) \in 1 .. DaysOf(year, month)
      time == /\ ByteAt(bytes, 11) = 84 /\ Number(bytes, 12, 2) \in 0 .. 23
              /\ ByteAt(bytes, 14) = Colon /\ Number(bytes, 15, 2) \in 0 .. 59
      seconds == Number(bytes, 18, 2) \in 0 .. 59
      fraction == Max({i \in 20 .. n + 1 : \A k \in 21 .. i - 1 : Digit(bytes[k])} \cup {20})
      zone(i, precision) == IF ValidZone(bytes, i) THEN precision ELSE NoPrecision
  IN  CASE n = 4 /\ year # -1 -> "year"
        [] n = 7 /\ year # -1 /\ bytes[5] = Hyphen /\ month \in 1 .. 12 -> "month"
        [] n = 10 /\ calendar -> "day"
        [] n >= 16 /\ calendar /\ time ->
             IF ByteAt(bytes, 17) # Colon THEN zone(17, "minute")
             ELSE IF ~seconds THEN NoPrecision
             ELSE IF ByteAt(bytes, 20) # Dot THEN zone(20, "second")
             ELSE IF fraction = 21 \/ fraction = 20 THEN NoPrecision
             ELSE zone(fraction, "subsecond")
        [] OTHER -> NoPrecision

-----------------------------------------------------------------------------
(* The JSON of extended metadata *)

Quote == 34
Comma == 44
Backslash == 92
OpenBracket == 91
CloseBracket == 93
OpenBrace == 123
CloseBrace == 125
Spaces == {32, 9, 10, 13}

Hex(digit) == IF digit < 10 THEN 48 + digit ELSE 87 + digit

(* The letters of the short escapes; the solidus and the carriage return    *)
(* are read but never written.                                              *)
ShortEscapes ==
  (Quote :> Quote) @@ (Backslash :> Backslash) @@ (98 :> 8) @@ (102 :> 12)
    @@ (110 :> 10) @@ (116 :> 9)
ReadEscapes == ShortEscapes @@ (47 :> 47) @@ (114 :> 13)

JsonString(bytes) ==
  LET escaped(byte) ==
        IF \E letter \in DOMAIN ShortEscapes : ShortEscapes[letter] = byte
        THEN <<Backslash, CHOOSE letter \in DOMAIN ShortEscapes : ShortEscapes[letter] = byte>>
        ELSE IF byte < 32 THEN <<Backslash, 117, 48, 48, Hex(byte \div 16), Hex(byte % 16)>>
        ELSE <<byte>>
  IN  <<Quote>> \o FlattenSeq([i \in DOMAIN bytes |-> escaped(bytes[i])]) \o <<Quote>>

Separated(items) ==
  FoldLeft(LAMBDA list, item : IF list = <<>> THEN item ELSE list \o <<Comma>> \o item,
           <<>>, items)

(* serialize_restricted_metadata_json: maps go by the order of their keys.  *)
Object(map, Write(_)) ==
  LET names == InOrder(DOMAIN map, BytesLess)
  IN  <<OpenBrace>>
        \o Separated([i \in DOMAIN names |->
                        JsonString(names[i]) \o <<Colon>> \o Write(map[names[i]])])
        \o <<CloseBrace>>

JsonValue(value) ==
  LET items == [i \in DOMAIN value.items |-> JsonString(value.items[i])]
  IN  IF value.array THEN <<OpenBracket>> \o Separated(items) \o <<CloseBracket>>
      ELSE items[1]

SerializedExtensions(extensions) ==
  Object(extensions, LAMBDA properties : Object(properties, JsonValue))

(* The parser: each part yields what it read and the place after it, or     *)
(* place 0 when it failed.                                                  *)
Failed == [at |-> 0, value |-> <<>>]

Skip(input, p) ==
  IF p > Len(input) THEN Len(input) + 1
  ELSE CHOOSE q \in p .. Len(input) + 1 :
         /\ q = Len(input) + 1 \/ input[q] \notin Spaces
         /\ \A r \in p .. q - 1 : input[r] \in Spaces

HexQuad(input, p) ==
  LET digit(byte) == CASE byte \in 48 .. 57 -> byte - 48
                       [] byte \in 97 .. 102 -> byte - 87
                       [] byte \in 65 .. 70 -> byte - 55
                       [] OTHER -> -1
      quad == [k \in 0 .. 3 |-> digit(ByteAt(input, p + k))]
  IN  IF \E k \in 0 .. 3 : quad[k] = -1 THEN -1
      ELSE ((quad[0] * 16 + quad[1]) * 16 + quad[2]) * 16 + quad[3]

(* What the escape at p stands for, and the place after it. *)
CodePointAt(input, p, high, low) ==
  CASE high # -1 /\ high \notin \hD800 .. \hDFFF -> [at |-> p + 6, value |-> Encoded(high)]
    [] /\ high \in \hD800 .. \hDBFF /\ ByteAt(input, p + 6) = Backslash
       /\ ByteAt(input, p + 7) = 117 /\ low \in \hDC00 .. \hDFFF ->
         [at |-> p + 12, value |-> Encoded(\h10000 + (high - \hD800) * 1024 + low - \hDC00)]
    [] OTHER -> Failed

EscapeAt(input, p) ==
  LET letter == ByteAt(input, p + 1)
  IN  CASE letter \in DOMAIN ReadEscapes -> [at |-> p + 2, value |-> <<ReadEscapes[letter]>>]
        [] letter = 117 -> CodePointAt(input, p, HexQuad(input, p + 2), HexQuad(input, p + 8))
        [] OTHER -> Failed

Preceded(bytes, rest) ==
  IF rest.at = 0 THEN Failed ELSE [rest EXCEPT !.value = bytes \o @]

(* What was read and then the rest, which follows at the place after it. *)
Continued(part, rest) ==
  IF part.at = 0 THEN Failed ELSE Preceded(part.value, rest[part.at])

ParseString(input, p) ==
  LET content[q \in 1 .. Len(input) + 1] ==
        CASE q = Len(input) + 1 -> Failed
          [] q <= Len(input) /\ input[q] = Quote -> [at |-> q + 1, value |-> <<>>]
          [] q <= Len(input) /\ input[q] < 32 -> Failed
          [] q <= Len(input) /\ input[q] = Backslash -> Continued(EscapeAt(input, q), content)
          [] OTHER -> Continued([at |-> q + 1, value |-> <<input[q]>>], content)
      start == Skip(input, p)
  IN  IF ByteAt(input, start) = Quote THEN content[start + 1] ELSE Failed

(* Items between brackets, at least one, separated by commas. *)
ParseItems(input, p, open, close, Item(_)) ==
  LET items[q \in 1 .. Len(input) + 1] ==
        LET item == Item(q)
            next == Skip(input, item.at)
            rest == items[next + 1]
        IN  IF item.at = 0 THEN Failed
            ELSE IF ByteAt(input, next) = close
            THEN [at |-> next + 1, value |-> <<item.value>>]
            ELSE IF ByteAt(input, next) # Comma \/ rest.at = 0 THEN Failed
            ELSE [rest EXCEPT !.value = <<item.value>> \o rest.value]
      start == Skip(input, p)
  IN  IF ByteAt(input, start) = open THEN items[start + 1] ELSE Failed

ParseMember(input, name, Named(_), Value(_)) ==
  LET colon == Skip(input, name.at)
      value == Value(colon + 1)
  IN  IF name.at = 0 \/ ~Named(name.value) \/ ByteAt(input, colon) # Colon \/ value.at = 0
      THEN Failed
      ELSE [value EXCEPT !.value = <<name.value, value.value>>]

(* The members as a map, unless a name occurs twice. *)
AsMap(members) ==
  IF members.at = 0 \/ \E i, j \in DOMAIN members.value :
                         i # j /\ members.value[i][1] = members.value[j][1]
  THEN Failed
  ELSE [members EXCEPT !.value =
          [name \in {member[1] : member \in Range(members.value)} |->
             (CHOOSE member \in Range(members.value) : member[1] = name)[2]]]

AsValue(read, array) ==
  IF read.at = 0 THEN Failed
  ELSE [read EXCEPT !.value = [array |-> array, items |-> IF array THEN @ ELSE <<@>>]]

ParseValue(input, p) ==
  IF ByteAt(input, Skip(input, p)) = OpenBracket
  THEN AsValue(ParseItems(input, p, OpenBracket, CloseBracket,
                          LAMBDA q : ParseString(input, q)), TRUE)
  ELSE AsValue(ParseString(input, p), FALSE)

ParseProperties(input, p) ==
  AsMap(ParseItems(input, p, OpenBrace, CloseBrace, LAMBDA q :
          ParseMember(input, ParseString(input, q), ValidKey,
                      LAMBDA r : ParseValue(input, r))))

(* The object must be all of the input; canonical is what would be written. *)
AsExtensions(input, read) ==
  LET ok == read.at # 0 /\ Skip(input, read.at) = Len(input) + 1
  IN  [ok |-> ok, value |-> read.value,
       canonical |-> ok /\ SerializedExtensions(read.value) = input]

ParseExtensions(input) ==
  AsExtensions(input,
    AsMap(ParseItems(input, 1, OpenBrace, CloseBrace, LAMBDA q :
            ParseMember(input, ParseString(input, q), ValidNamespace,
                        LAMBDA r : ParseProperties(input, r)))))
=============================================================================
