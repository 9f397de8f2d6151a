------------------------------- MODULE Prefixes -------------------------------
(***************************************************************************)
(* What is made of a sequence from its front on: the elements at chosen    *)
(* places, and sums.  They are recursive functions, so that they can be    *)
(* reasoned about; Pick(s, I) is what SelectSeq selects.                   *)
(***************************************************************************)
EXTENDS Integers, Sequences

\* For each n, the elements among the first n of s whose places are in I.
Picked(s, I) ==
  LET picked[n \in 0 .. Len(s)] ==
        IF n = 0 THEN <<>>
        ELSE IF n \in I THEN Append(picked[n - 1], s[n]) ELSE picked[n - 1]
  IN picked

Pick(s, I) == Picked(s, I)[Len(s)]

\* For each n, the sum of the first n of s.
SumTo(s) ==
  LET sum[n \in 0 .. Len(s)] == IF n = 0 THEN 0 ELSE sum[n - 1] + s[n]
  IN sum

===============================================================================
