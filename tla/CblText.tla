------------------------------- MODULE CblText -------------------------------
(***************************************************************************)
(* The texts of a CBL library: UTF-16 units in slots and comments, and the *)
(* numbers and uuids that the adapter of src/convert keeps as text.        *)
(*                                                                         *)
(* A slot is its units up to its end; the zero units that fill it up are   *)
(* left out.  Numbers are kept as bytes of text in a game's extensions.    *)
(***************************************************************************)
EXTENDS GameModel

(* A name of letters and underscores as bytes. *)
Alphabet == "abcdefghijklmnopqrstuvwxyz"
Ascii(name) ==
  [k \in 1 .. Len(name) |->
     IF \E i \in 1 .. 26 : SubSeq(Alphabet, i, i) = SubSeq(name, k, k)
     THEN 96 + CHOOSE i \in 1 .. 26 : SubSeq(Alphabet, i, i) = SubSeq(name, k, k)
     ELSE IF SubSeq(name, k, k) = "." THEN Dot ELSE Underscore]

-----------------------------------------------------------------------------
(* UTF-16 *)

High(unit) == unit \in \hD800 .. \hDBFF
Low(unit) == unit \in \hDC00 .. \hDFFF

(* append_code_point of the writers; its length is what utf16_length counts. *)
Units(point) ==
  IF point <= \hFFFF THEN <<point>>
  ELSE <<\hD800 + (point - \h10000) \div 1024, \hDC00 + ((point - \h10000) % 1024)>>

Utf16(bytes) ==
  LET text == TextOf(bytes) IN FlattenSeq([i \in DOMAIN text |-> Units(text[i])])

Paired(units) ==
  \A i \in DOMAIN units :
    /\ High(units[i]) => i < Len(units) /\ Low(units[i + 1])
    /\ Low(units[i]) => i > 1 /\ High(units[i - 1])

(* The bytes of units that are paired. *)
FromUtf16(units) ==
  LET point(i) == IF High(units[i])
                  THEN \h10000 + (units[i] - \hD800) * 1024 + units[i + 1] - \hDC00
                  ELSE units[i]
  IN  FlattenSeq([i \in DOMAIN units |->
                    IF Low(units[i]) THEN <<>> ELSE Encoded(point(i))])

(* decode_utf16_slot and decode_ascii_slot stop at the first zero. *)
UpToZero(units) ==
  SubSeq(units, 1, Min({i \in DOMAIN units : units[i] = 0} \cup {Len(units) + 1}) - 1)

-----------------------------------------------------------------------------
(* New lines *)

CarriageReturn == 13
LineFeed == 10

(* normalize_newlines: a carriage return is a line feed, unless one follows. *)
LineFeeds(text) ==
  LET kept == SelectSeq([i \in DOMAIN text |-> i],
                LAMBDA i : ~(text[i] = LineFeed /\ i > 1 /\ text[i - 1] = CarriageReturn))
  IN  [k \in DOMAIN kept |->
         IF text[kept[k]] = CarriageReturn THEN LineFeed ELSE text[kept[k]]]

CarriageReturns(text) == {i \in DOMAIN text : text[i] = CarriageReturn}

(* The carriage returns that a line feed follows. *)
Pairs(text) ==
  {i \in CarriageReturns(text) : i < Len(text) /\ text[i + 1] = LineFeed}

-----------------------------------------------------------------------------
(* Numbers as text *)

Refuse == -1

DecimalText(n) ==
  LET digits[k \in Nat] == IF k < 10 THEN <<48 + k>> ELSE digits[k \div 10] \o <<48 + (k % 10)>>
  IN  IF n < 0 THEN <<Hyphen>> \o digits[-n] ELSE digits[n]

(* from_chars of an unsigned number over the whole text; numbers of more    *)
(* than nine digits are out of range here.                                  *)
DecimalValue(bytes) ==
  IF bytes # <<>> /\ Len(bytes) <= 9 THEN Number(bytes, 1, Len(bytes)) ELSE Refuse

(* parse_integer: a rating, with a sign; none is a rating of no digits.     *)
ParsedInteger(bytes) ==
  LET negative == bytes # <<>> /\ bytes[1] = Hyphen
      value == DecimalValue(IF negative THEN Tail(bytes) ELSE bytes)
  IN  [ok |-> value # Refuse, value |-> IF negative THEN -value ELSE value]

HexDigit(byte) ==
  CASE byte \in 48 .. 57 -> byte - 48
    [] byte \in 97 .. 102 -> byte - 87
    [] byte \in 65 .. 70 -> byte - 55
    [] OTHER -> Refuse

(* hex_extension_text: so many digits, in either case. *)
HexText(bytes, width) ==
  Len(bytes) = width /\ \A i \in DOMAIN bytes : HexDigit(bytes[i]) # Refuse

(* hex_value of the reader: four digits. *)
Hex4(n) == <<Hex(n \div 4096), Hex((n \div 256) % 16), Hex((n \div 16) % 16), Hex(n % 16)>>

HexNumber(bytes) == FoldLeft(LAMBDA n, byte : n * 16 + HexDigit(byte), 0, bytes)

LowerHex(bytes) == [i \in DOMAIN bytes |-> Hex(HexDigit(bytes[i]))]

-----------------------------------------------------------------------------
(* Uuids *)

(* Uuid::to_string *)
UuidText(uuid) ==
  FlattenSeq([i \in 1 .. 16 |->
     (IF i \in {5, 7, 9, 11} THEN <<Hyphen>> ELSE <<>>)
       \o <<Hex(uuid[i] \div 16), Hex(uuid[i] % 16)>>])

(* Uuid::parse *)
NoUuid == <<>>
UuidParsed(bytes) ==
  LET hyphens == {9, 14, 19, 24}
      digits == SelectSeq([i \in DOMAIN bytes |-> i], LAMBDA i : i \notin hyphens)
  IN  IF /\ Len(bytes) = 36
         /\ \A i \in 1 .. 36 : IF i \in hyphens THEN bytes[i] = Hyphen
                               ELSE HexDigit(bytes[i]) # Refuse
      THEN [k \in 1 .. 16 |-> HexDigit(bytes[digits[2 * k - 1]]) * 16
                                + HexDigit(bytes[digits[2 * k]])]
      ELSE NoUuid

(* parse_directory_uuid: between braces or not. *)
DirectoryUuid(bytes) ==
  LET bare == IF Len(bytes) = 38 /\ bytes[1] = OpenBrace /\ bytes[38] = CloseBrace
              THEN SubSeq(bytes, 2, 37) ELSE bytes
      uuid == UuidParsed(bare)
  IN  IF uuid # NoUuid /\ ValidUuid(uuid) THEN uuid ELSE NoUuid

(* directory_uuid of the writer: in capitals, between braces. *)
DirectoryText(uuid) ==
  LET text == UuidText(uuid)
  IN  <<OpenBrace>> \o [i \in DOMAIN text |-> IF Letter(text[i]) THEN text[i] - 32 ELSE text[i]]
        \o <<CloseBrace>>

(* The order in which Windows stores the bytes of a guid; its own inverse.  *)
WindowsOrder == <<4, 3, 2, 1, 6, 5, 8, 7, 9, 10, 11, 12, 13, 14, 15, 16>>
WindowsGuid(uuid) == [i \in 1 .. 16 |-> uuid[WindowsOrder[i]]]
=============================================================================
