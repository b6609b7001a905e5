----------------------------- MODULE OxqPosition -----------------------------
(***************************************************************************)
(* The position section of an .oxq file (build_position in                 *)
(* core/writer.cpp, core/codec/position.cpp).                              *)
(***************************************************************************)
EXTENDS OxqStrings

BuildPosition(position) ==
  LET pieces == InOrder(Range(position.pieces), LAMBDA p, q : p.square < q.square)
  IN  [header |-> <<1, 16, 1, 0, 0>>, size |-> 16 + 4 * Len(pieces),
       side_to_move |-> position.side_to_move, fullmove |-> position.fullmove,
       count |-> Len(pieces),
       pieces |-> [i \in DOMAIN pieces |->
                     [code |-> pieces[i].type + 128 * pieces[i].side,
                      square |-> pieces[i].square, flags |-> 0]]]

(* The reserved bits 4 to 6 of a piece's code are zero. *)
ReadablePiece(piece) ==
  /\ (piece.code % 128) \in 1 .. 7
  /\ piece.square <= 89
  /\ piece.flags = 0

(* read_position *)
ReadPosition(payload) ==
  LET pieces == payload.pieces
  IN  IF /\ payload.header = <<1, 16, 1, 0, 0>>
         /\ payload.side_to_move <= 1 /\ payload.fullmove # 0
         /\ payload.count <= 32 /\ payload.size = 16 + 4 * payload.count
         /\ \A i \in DOMAIN pieces :
              /\ ReadablePiece(pieces[i])
              /\ \A j \in 1 .. i - 1 : pieces[j].square # pieces[i].square
      THEN [ok |-> TRUE,
            canonical_order |->
              \A i \in 2 .. Len(pieces) : pieces[i - 1].square < pieces[i].square,
            value |-> [side_to_move |-> payload.side_to_move, fullmove |-> payload.fullmove,
                       pieces |-> [i \in DOMAIN pieces |->
                                     [side |-> pieces[i].code \div 128,
                                      type |-> pieces[i].code % 16,
                                      square |-> pieces[i].square]]]]
      ELSE Refused
=============================================================================
