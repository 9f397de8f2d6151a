------------------------------ MODULE MCTransfer ------------------------------
(* A small instance of Transfer for TLC, with the sizes where the code's         *)
(* comparisons turn over: 373 and a name of one byte fill one request, 427 fill   *)
(* one part of a reply, 476 one write; texts of 896 bytes fill two parts.         *)
EXTENDS Transfer, TLC

MCFileSizes == {0, 372, 373, 427, 476, 477}
MCTextLens == {0, 496, 498, 895, 896, 897}

(* The text that fills tmpmsg without its terminator.                            *)
MCFullTextLens == {496, 497, 498}

===============================================================================
