----------------------------- MODULE MCBoardLibrary ----------------------------
(* A small instance of BoardLibrary for TLC. *)
EXTENDS BoardLibrary, TLC

MCSizes == {1, 2}

PostSymmetry == Permutations(Posts)

===============================================================================
