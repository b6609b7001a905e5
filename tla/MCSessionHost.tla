---------------------------- MODULE MCSessionHost ----------------------------
(* A small instance of SessionHost: three documents, two of which have a    *)
(* node the others lack, and a history of three entries or five bytes.      *)
EXTENDS SessionHost

CONSTANTS d0, d1, d2

MCDocuments == {d0, d1, d2}
MCNodesOf(d) == CASE d = d0 -> {0} [] d = d1 -> {0, 1} [] OTHER -> {0, 2}
=============================================================================
