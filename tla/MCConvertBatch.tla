--------------------------- MODULE MCConvertBatch ---------------------------
(* Small instances of ConvertBatch: p and q convert CBL libraries that have *)
(* game g in common, r and s convert OXQ files into the same library.       *)
EXTENDS ConvertBatch

CONSTANTS p, q, r, s, g, h, library

MCDirection == [w \in Processes |-> IF w \in {p, q} THEN "to_oxq" ELSE "to_cbl"]
MCInputs ==
  [w \in Processes |->
     CASE w = p -> <<<<g, h>>, <<g>>>>
       [] w = q -> <<<<g>>>>
       [] OTHER -> <<<<>>, <<>>>>]
=============================================================================
