---------------------------- MODULE RecursionProofs ----------------------------
(***************************************************************************)
(* What makes recursive functions usable in proofs.  Induction is stated   *)
(* over a set of numbers and comes from the library's theorem that a       *)
(* well-founded relation has minimal elements; with it a function that     *)
(* obeys its recursion is shown to exist.                                  *)
(***************************************************************************)
EXTENDS Prefixes, TLAPS, WellFoundedInduction

-------------------------------------------------------------------------------
(* Induction *)

\* A set of numbers has a least one.
LEMMA Least ==
  ASSUME NEW T, T \subseteq Nat, T # {}
  PROVE  \E x \in T : \A y \in T : x <= y
<1>1. IsWellFoundedOn(OpToRel(<, Nat), Nat)
  BY NatLessThanWellFounded
<1>2. PICK x \in T : \A y \in T : ~ (<<y, x>> \in OpToRel(<, Nat))
  BY <1>1, WFMin, Zenon
<1>3. \A y \in T : y < x => <<y, x>> \in OpToRel(<, Nat)
  BY DEF OpToRel
<1>4. \A y \in T : ~ (y < x)
  BY <1>2, <1>3
<1>5. \A y \in T : x <= y
  BY ONLY <1>4, T \subseteq Nat, x \in T
<1> QED BY <1>5, Zenon

\* A set that holds 0 and the successor of each number it holds has them all.
LEMMA Induct ==
  ASSUME NEW S, 0 \in S, \A n \in Nat : n \in S => n + 1 \in S
  PROVE  Nat \subseteq S
<1> DEFINE T == {n \in Nat : n \notin S}
<1>1. SUFFICES ASSUME T # {} PROVE FALSE
  OBVIOUS
<1>2. PICK x \in T : \A y \in T : x <= y
  BY <1>1, Least
<1>3. x # 0 /\ x - 1 \in Nat /\ x - 1 \notin T
  BY <1>2
<1> QED BY <1>2, <1>3

-------------------------------------------------------------------------------
(* Picked *)

\* f obeys the recursion of Picked up to m.
PickRule(f, s, I, m) ==
  f = [n \in 0 .. m |->
         IF n = 0 THEN <<>> ELSE IF n \in I THEN Append(f[n - 1], s[n]) ELSE f[n - 1]]

LEMMA PicksExist ==
  ASSUME NEW s, NEW I, NEW m \in Nat
  PROVE  \E f : PickRule(f, s, I, m)
<1> DEFINE S == {k \in Nat : \E f : f = [n \in 0 .. k |->
             IF n = 0 THEN <<>> ELSE IF n \in I THEN Append(f[n - 1], s[n]) ELSE f[n - 1]]}
<1>1. 0 \in S
  <2> DEFINE f == [n \in 0 .. 0 |-> <<>>]
  <2>1. f = [n \in 0 .. 0 |->
               IF n = 0 THEN <<>> ELSE IF n \in I THEN Append(f[n - 1], s[n]) ELSE f[n - 1]]
    OBVIOUS
  <2> QED BY <2>1
<1>2. ASSUME NEW k \in Nat, k \in S PROVE k + 1 \in S
  <2>1. PICK f : f = [n \in 0 .. k |->
             IF n = 0 THEN <<>> ELSE IF n \in I THEN Append(f[n - 1], s[n]) ELSE f[n - 1]]
    BY <1>2
  <2> DEFINE g == [n \in 0 .. k + 1 |-> IF n \in 0 .. k THEN f[n]
                     ELSE IF n \in I THEN Append(f[k], s[n]) ELSE f[k]]
  <2>2. \A n \in 0 .. k + 1 :
          g[n] = IF n = 0 THEN <<>> ELSE IF n \in I THEN Append(g[n - 1], s[n]) ELSE g[n - 1]
    <3> TAKE n \in 0 .. k + 1
    <3>1. CASE n = 0
      BY <3>1, <2>1
    <3>2. CASE n \in 1 .. k
      <4>1. f[n] = IF n \in I THEN Append(f[n - 1], s[n]) ELSE f[n - 1]
        <5>1. \A j \in 0 .. k : f[j] = IF j = 0 THEN <<>> ELSE IF j \in I
                                      THEN Append(f[j - 1], s[j]) ELSE f[j - 1]
          BY <2>1, Zenon
        <5> QED BY <5>1, <3>2
      <4>2. g[n] = f[n] /\ g[n - 1] = f[n - 1]
        BY <3>2
      <4> QED BY <3>2, <4>1, <4>2
    <3>3. CASE n = k + 1
      BY <3>3, <2>1
    <3> QED BY <3>1, <3>2, <3>3
  <2>3. g = [n \in 0 .. k + 1 |->
          IF n = 0 THEN <<>> ELSE IF n \in I THEN Append(g[n - 1], s[n]) ELSE g[n - 1]]
    BY <2>2
  <2> HIDE DEF g
  <2> QED BY <2>3
<1>3. Nat \subseteq S
  <2> HIDE DEF S
  <2> QED BY <1>1, <1>2, Induct
<1> QED BY <1>3 DEF PickRule

LEMMA PickedEquals ==
  ASSUME NEW s, NEW I, Len(s) \in Nat
  PROVE  Picked(s, I) = [n \in 0 .. Len(s) |->
           IF n = 0 THEN <<>>
           ELSE IF n \in I THEN Append(Picked(s, I)[n - 1], s[n]) ELSE Picked(s, I)[n - 1]]
<1>1. \E f : PickRule(f, s, I, Len(s))
  BY PicksExist
<1>2. Picked(s, I) = CHOOSE f : PickRule(f, s, I, Len(s))
  BY DEF Picked, PickRule
<1>3. PickRule(Picked(s, I), s, I, Len(s))
  BY <1>1, <1>2, Zenon
<1> QED BY <1>3 DEF PickRule

\* What is picked of the first n elements: nothing of none, and the n-th if it is chosen.
LEMMA PickedIs ==
  ASSUME NEW s, NEW I, Len(s) \in Nat
  PROVE  /\ Picked(s, I)[0] = <<>>
         /\ \A n \in 1 .. Len(s) :
              Picked(s, I)[n] = IF n \in I THEN Append(Picked(s, I)[n - 1], s[n])
                                ELSE Picked(s, I)[n - 1]
<1> DEFINE f == Picked(s, I)
<1>1. f = [n \in 0 .. Len(s) |->
             IF n = 0 THEN <<>> ELSE IF n \in I THEN Append(f[n - 1], s[n]) ELSE f[n - 1]]
  BY PickedEquals
<1> HIDE DEF f
<1>2. f[0] = <<>> /\ \A n \in 1 .. Len(s) :
        f[n] = IF n \in I THEN Append(f[n - 1], s[n]) ELSE f[n - 1]
  <2>1. \A n \in 0 .. Len(s) : f[n] = IF n = 0 THEN <<>> ELSE IF n \in I
                                    THEN Append(f[n - 1], s[n]) ELSE f[n - 1]
    BY <1>1, Zenon
  <2> QED BY <2>1
<1> QED BY <1>2 DEF f

\* It is a sequence, and no longer than n.
LEMMA PickedType ==
  ASSUME NEW D, NEW s \in Seq(D), NEW I
  PROVE  \A n \in 0 .. Len(s) : Picked(s, I)[n] \in Seq(D) /\ Len(Picked(s, I)[n]) <= n
<1> DEFINE f == Picked(s, I)
           S == {n \in Nat : n <= Len(s) => f[n] \in Seq(D) /\ Len(f[n]) <= n}
<1>1. f[0] = <<>> /\ \A n \in 1 .. Len(s) :
        f[n] = IF n \in I THEN Append(f[n - 1], s[n]) ELSE f[n - 1]
  BY PickedIs
<1> HIDE DEF f
<1>2. 0 \in S
  <2>1. <<>> \in Seq(D) /\ Len(<<>>) = 0
    OBVIOUS
  <2>2. f[0] \in Seq(D) /\ Len(f[0]) <= 0
    BY <1>1, <2>1
  <2> QED BY <2>2
<1>3. ASSUME NEW n \in Nat, n \in S PROVE n + 1 \in S
  <2> SUFFICES ASSUME n + 1 <= Len(s)
               PROVE  f[n + 1] \in Seq(D) /\ Len(f[n + 1]) <= n + 1
    OBVIOUS
  <2>1. f[n] \in Seq(D) /\ Len(f[n]) <= n
    BY <1>3
  <2>2. f[n + 1] = IF n + 1 \in I THEN Append(f[n], s[n + 1]) ELSE f[n]
    BY <1>1
  <2>3. s[n + 1] \in D
    OBVIOUS
  <2> QED BY <2>1, <2>2, <2>3
<1>4. Nat \subseteq S
  <2> HIDE DEF S
  <2> QED BY <1>2, <1>3, Induct
<1> QED BY <1>4 DEF f

\* What is picked comes from a chosen place among the first n.
LEMMA PickedFrom ==
  ASSUME NEW D, NEW s \in Seq(D), NEW I
  PROVE  \A n \in 0 .. Len(s) : \A i \in 1 .. Len(Picked(s, I)[n]) :
           \E m \in 1 .. n : m \in I /\ Picked(s, I)[n][i] = s[m]
<1> DEFINE f == Picked(s, I)
           S == {n \in Nat : n <= Len(s) => \A i \in 1 .. Len(f[n]) :
                   \E m \in 1 .. n : m \in I /\ f[n][i] = s[m]}
<1>1. f[0] = <<>> /\ \A n \in 1 .. Len(s) :
        f[n] = IF n \in I THEN Append(f[n - 1], s[n]) ELSE f[n - 1]
  BY PickedIs
<1>2. \A n \in 0 .. Len(s) : f[n] \in Seq(D)
  BY PickedType
<1> HIDE DEF f
<1>3. 0 \in S
  BY <1>1
<1>4. ASSUME NEW n \in Nat, n \in S PROVE n + 1 \in S
  <2> SUFFICES ASSUME n + 1 <= Len(s), NEW i \in 1 .. Len(f[n + 1])
               PROVE  \E m \in 1 .. n + 1 : m \in I /\ f[n + 1][i] = s[m]
    OBVIOUS
  <2>1. f[n] \in Seq(D) /\ f[n + 1] = IF n + 1 \in I THEN Append(f[n], s[n + 1]) ELSE f[n]
    BY <1>1, <1>2
  <2>2. CASE i \in 1 .. Len(f[n])
    <3>1. PICK m \in 1 .. n : m \in I /\ f[n][i] = s[m]
      BY <1>4, <2>2
    <3>2. f[n + 1][i] = f[n][i] /\ m \in 1 .. n + 1
      BY <2>1, <2>2
    <3> QED BY <3>1, <3>2
  <2>3. CASE i \notin 1 .. Len(f[n])
    <3>1. n + 1 \in I /\ i = Len(f[n]) + 1
      BY <2>1, <2>3
    <3>2. f[n + 1][i] = s[n + 1]
      BY <2>1, <3>1
    <3> QED BY <3>1, <3>2
  <2> QED BY <2>2, <2>3
<1>5. Nat \subseteq S
  <2> HIDE DEF S
  <2> QED BY <1>3, <1>4, Induct
<1> QED BY <1>5 DEF f

\* Every chosen place is picked.
LEMMA PickedAll ==
  ASSUME NEW D, NEW s \in Seq(D), NEW I
  PROVE  \A n \in 0 .. Len(s) : \A m \in 1 .. n :
           m \in I => \E i \in 1 .. Len(Picked(s, I)[n]) : Picked(s, I)[n][i] = s[m]
<1> DEFINE f == Picked(s, I)
           S == {n \in Nat : n <= Len(s) => \A m \in 1 .. n :
                   m \in I => \E i \in 1 .. Len(f[n]) : f[n][i] = s[m]}
<1>1. f[0] = <<>> /\ \A n \in 1 .. Len(s) :
        f[n] = IF n \in I THEN Append(f[n - 1], s[n]) ELSE f[n - 1]
  BY PickedIs
<1>2. \A n \in 0 .. Len(s) : f[n] \in Seq(D)
  BY PickedType
<1> HIDE DEF f
<1>3. 0 \in S
  OBVIOUS
<1>4. ASSUME NEW n \in Nat, n \in S PROVE n + 1 \in S
  <2> SUFFICES ASSUME n + 1 <= Len(s), NEW m \in 1 .. n + 1, m \in I
               PROVE  \E i \in 1 .. Len(f[n + 1]) : f[n + 1][i] = s[m]
    OBVIOUS
  <2>1. f[n] \in Seq(D) /\ f[n + 1] = IF n + 1 \in I THEN Append(f[n], s[n + 1]) ELSE f[n]
    BY <1>1, <1>2
  <2>2. CASE m \in 1 .. n
    <3>1. PICK i \in 1 .. Len(f[n]) : f[n][i] = s[m]
      BY <1>4, <2>2
    <3>2. i \in 1 .. Len(f[n + 1]) /\ f[n + 1][i] = f[n][i]
      BY <2>1
    <3> QED BY <3>1, <3>2
  <2>3. CASE m = n + 1
    <3>1. Len(f[n]) + 1 \in 1 .. Len(f[n + 1]) /\ f[n + 1][Len(f[n]) + 1] = s[m]
      BY <2>1, <2>3
    <3> QED BY <3>1
  <2> QED BY <2>2, <2>3
<1>5. Nat \subseteq S
  <2> HIDE DEF S
  <2> QED BY <1>3, <1>4, Induct
<1> QED BY <1>5 DEF f

\* What is picked keeps its order.
LEMMA PickedOrder ==
  ASSUME NEW D, NEW s \in Seq(D), NEW I
  PROVE  \A n \in 0 .. Len(s) : \A i, j \in 1 .. Len(Picked(s, I)[n]) :
           i < j => \E k, m \in 1 .. n : /\ k < m
                                         /\ Picked(s, I)[n][i] = s[k]
                                         /\ Picked(s, I)[n][j] = s[m]
<1> DEFINE f == Picked(s, I)
           S == {n \in Nat : n <= Len(s) => \A i, j \in 1 .. Len(f[n]) :
                   i < j => \E k, m \in 1 .. n : k < m /\ f[n][i] = s[k] /\ f[n][j] = s[m]}
<1>1. f[0] = <<>> /\ \A n \in 1 .. Len(s) :
        f[n] = IF n \in I THEN Append(f[n - 1], s[n]) ELSE f[n - 1]
  BY PickedIs
<1>2. \A n \in 0 .. Len(s) : f[n] \in Seq(D)
  BY PickedType
<1>3. \A n \in 0 .. Len(s) : \A i \in 1 .. Len(f[n]) : \E m \in 1 .. n : f[n][i] = s[m]
  BY PickedFrom
<1> HIDE DEF f
<1>4. 0 \in S
  BY <1>1
<1>5. ASSUME NEW n \in Nat, n \in S PROVE n + 1 \in S
  <2> SUFFICES ASSUME n + 1 <= Len(s),
                      NEW i \in 1 .. Len(f[n + 1]), NEW j \in 1 .. Len(f[n + 1]), i < j
               PROVE  \E k, m \in 1 .. n + 1 : k < m /\ f[n + 1][i] = s[k] /\ f[n + 1][j] = s[m]
    OBVIOUS
  <2>1. f[n] \in Seq(D) /\ f[n + 1] = IF n + 1 \in I THEN Append(f[n], s[n + 1]) ELSE f[n]
    BY <1>1, <1>2
  <2>2. i \in 1 .. Len(f[n]) /\ f[n + 1][i] = f[n][i]
    BY <2>1
  <2>3. CASE j \in 1 .. Len(f[n])
    <3>1. PICK k \in 1 .. n, m \in 1 .. n : k < m /\ f[n][i] = s[k] /\ f[n][j] = s[m]
      BY <1>5, <2>2, <2>3
    <3>2. f[n + 1][j] = f[n][j] /\ k \in 1 .. n + 1 /\ m \in 1 .. n + 1
      BY <2>1, <2>3
    <3> QED BY <2>2, <3>1, <3>2
  <2>4. CASE j \notin 1 .. Len(f[n])
    <3>1. PICK k \in 1 .. n : f[n][i] = s[k]
      BY <1>3, <2>2
    <3>2. f[n + 1][j] = s[n + 1] /\ k < n + 1 /\ k \in 1 .. n + 1 /\ n + 1 \in 1 .. n + 1
      BY <2>1, <2>4
    <3> QED BY <2>2, <3>1, <3>2
  <2> QED BY <2>3, <2>4
<1>6. Nat \subseteq S
  <2> HIDE DEF S
  <2> QED BY <1>4, <1>5, Induct
<1> QED BY <1>6 DEF f

-------------------------------------------------------------------------------
(* SumTo *)

\* f obeys the recursion of SumTo up to m.
SumRule(f, s, m) == f = [n \in 0 .. m |-> IF n = 0 THEN 0 ELSE f[n - 1] + s[n]]

LEMMA SumsExist ==
  ASSUME NEW s, NEW m \in Nat
  PROVE  \E f : SumRule(f, s, m)
<1> DEFINE S == {k \in Nat : \E f : f = [n \in 0 .. k |-> IF n = 0 THEN 0 ELSE f[n - 1] + s[n]]}
<1>1. 0 \in S
  <2> DEFINE f == [n \in 0 .. 0 |-> 0]
  <2>1. f = [n \in 0 .. 0 |-> IF n = 0 THEN 0 ELSE f[n - 1] + s[n]]
    OBVIOUS
  <2> QED BY <2>1
<1>2. ASSUME NEW k \in Nat, k \in S PROVE k + 1 \in S
  <2>1. PICK f : f = [n \in 0 .. k |-> IF n = 0 THEN 0 ELSE f[n - 1] + s[n]]
    BY <1>2
  <2> DEFINE g == [n \in 0 .. k + 1 |-> IF n \in 0 .. k THEN f[n] ELSE f[k] + s[n]]
  <2>2. \A n \in 0 .. k + 1 : g[n] = IF n = 0 THEN 0 ELSE g[n - 1] + s[n]
    <3> TAKE n \in 0 .. k + 1
    <3>1. CASE n = 0
      BY <3>1, <2>1
    <3>2. CASE n \in 1 .. k
      <4>1. \A j \in 0 .. k : f[j] = IF j = 0 THEN 0 ELSE f[j - 1] + s[j]
        BY <2>1, Zenon
      <4>2. f[n] = f[n - 1] + s[n]
        BY <4>1, <3>2
      <4>3. g[n] = f[n] /\ g[n - 1] = f[n - 1]
        BY <3>2
      <4> QED BY <3>2, <4>2, <4>3
    <3>3. CASE n = k + 1
      BY <3>3, <2>1
    <3> QED BY <3>1, <3>2, <3>3
  <2>3. g = [n \in 0 .. k + 1 |-> IF n = 0 THEN 0 ELSE g[n - 1] + s[n]]
    BY <2>2
  <2> HIDE DEF g
  <2> QED BY <2>3
<1>3. Nat \subseteq S
  <2> HIDE DEF S
  <2> QED BY <1>1, <1>2, Induct
<1> QED BY <1>3 DEF SumRule

\* The sum of the first n: 0 of none, and each adds its own.
LEMMA SumToIs ==
  ASSUME NEW s, Len(s) \in Nat
  PROVE  /\ SumTo(s)[0] = 0
         /\ \A n \in 1 .. Len(s) : SumTo(s)[n] = SumTo(s)[n - 1] + s[n]
<1> DEFINE f == SumTo(s)
<1>1. \E g : SumRule(g, s, Len(s))
  BY SumsExist
<1>2. SumTo(s) = CHOOSE g : SumRule(g, s, Len(s))
  BY DEF SumTo, SumRule
<1>3. SumRule(f, s, Len(s))
  BY <1>1, <1>2, Zenon
<1> HIDE DEF f
<1>4. \A n \in 0 .. Len(s) : f[n] = IF n = 0 THEN 0 ELSE f[n - 1] + s[n]
  BY <1>3, Zenon DEF SumRule
<1>5. f[0] = 0 /\ \A n \in 1 .. Len(s) : f[n] = f[n - 1] + s[n]
  BY <1>4
<1> QED BY <1>5 DEF f

LEMMA SumToType ==
  ASSUME NEW s \in Seq(Nat)
  PROVE  \A n \in 0 .. Len(s) : SumTo(s)[n] \in Nat
<1> DEFINE f == SumTo(s)
           S == {n \in Nat : n <= Len(s) => f[n] \in Nat}
<1>1. f[0] = 0 /\ \A n \in 1 .. Len(s) : f[n] = f[n - 1] + s[n]
  BY SumToIs
<1> HIDE DEF f
<1>2. 0 \in S
  BY <1>1
<1>3. ASSUME NEW n \in Nat, n \in S PROVE n + 1 \in S
  <2> SUFFICES ASSUME n + 1 <= Len(s) PROVE f[n + 1] \in Nat
    OBVIOUS
  <2>1. f[n + 1] = f[n] + s[n + 1] /\ s[n + 1] \in Nat /\ f[n] \in Nat
    BY <1>1, <1>3
  <2> QED BY <2>1
<1>4. Nat \subseteq S
  <2> HIDE DEF S
  <2> QED BY <1>2, <1>3, Induct
<1> QED BY <1>4 DEF f

\* It depends on the first n only.
LEMMA SumToSame ==
  ASSUME NEW s, NEW t, Len(s) \in Nat, Len(t) \in Nat,
         NEW k \in Nat, k <= Len(s), k <= Len(t), \A i \in 1 .. k : s[i] = t[i]
  PROVE  \A n \in 0 .. k : SumTo(s)[n] = SumTo(t)[n]
<1> DEFINE f == SumTo(s)
           g == SumTo(t)
           S == {n \in Nat : n <= k => f[n] = g[n]}
<1>1. f[0] = 0 /\ \A n \in 1 .. Len(s) : f[n] = f[n - 1] + s[n]
  BY SumToIs
<1>2. g[0] = 0 /\ \A n \in 1 .. Len(t) : g[n] = g[n - 1] + t[n]
  BY SumToIs
<1> HIDE DEF f, g
<1>3. 0 \in S
  BY <1>1, <1>2
<1>4. ASSUME NEW n \in Nat, n \in S PROVE n + 1 \in S
  <2> SUFFICES ASSUME n + 1 <= k PROVE f[n + 1] = g[n + 1]
    OBVIOUS
  <2>1. f[n + 1] = f[n] + s[n + 1] /\ g[n + 1] = g[n] + t[n + 1]
    BY <1>1, <1>2
  <2> QED BY <1>4, <2>1
<1>5. Nat \subseteq S
  <2> HIDE DEF S
  <2> QED BY <1>3, <1>4, Induct
<1> QED BY <1>5 DEF f, g

\* If every element adds something, more elements add more.
LEMMA SumToOrder ==
  ASSUME NEW s \in Seq(Nat), \A i \in 1 .. Len(s) : s[i] > 0
  PROVE  \A n \in 0 .. Len(s) : \A i \in 0 .. n : i < n => SumTo(s)[i] < SumTo(s)[n]
<1> DEFINE f == SumTo(s)
           S == {n \in Nat : n <= Len(s) => \A i \in 0 .. n : i < n => f[i] < f[n]}
<1>1. f[0] = 0 /\ \A n \in 1 .. Len(s) : f[n] = f[n - 1] + s[n]
  BY SumToIs
<1>2. \A n \in 0 .. Len(s) : f[n] \in Nat
  BY SumToType
<1> HIDE DEF f
<1>3. 0 \in S
  OBVIOUS
<1>4. ASSUME NEW n \in Nat, n \in S PROVE n + 1 \in S
  <2> SUFFICES ASSUME n + 1 <= Len(s), NEW i \in 0 .. n + 1, i < n + 1 PROVE f[i] < f[n + 1]
    OBVIOUS
  <2>1. f[n + 1] = f[n] + s[n + 1] /\ s[n + 1] \in Nat /\ s[n + 1] > 0
    BY <1>1
  <2>2. f[n] \in Nat /\ f[i] \in Nat
    BY <1>2
  <2>3. f[i] <= f[n]
    <3>1. i = n \/ (i \in 0 .. n /\ i < n)
      OBVIOUS
    <3> QED BY <1>4, <2>2, <3>1
  <2> QED BY <2>1, <2>2, <2>3
<1>5. Nat \subseteq S
  <2> HIDE DEF S
  <2> QED BY <1>3, <1>4, Induct
<1> QED BY <1>5 DEF f

===============================================================================
