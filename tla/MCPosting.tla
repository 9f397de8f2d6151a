------------------------------- MODULE MCPosting -------------------------------
(* Small instances of Posting for TLC. *)
EXTENDS PostingInv, TLC

\* A file of two fragments and one whose only fragment fills the buffer.
MCFiles == {[frags |-> 2, short |-> TRUE], [frags |-> 1, short |-> FALSE]}
MCShortFile == {[frags |-> 2, short |-> TRUE]}
MCAllFiles == MCFiles \cup {[frags |-> 0, short |-> TRUE]}

PostSymmetry == Permutations(Posts)

===============================================================================
