--------------------------- MODULE ChannelListProofs ---------------------------
(***************************************************************************)
(* Proofs about ChannelList.  The first part relates At and Chain to a     *)
(* sequence of nodes; each action is then a change of that sequence.       *)
(***************************************************************************)
EXTENDS ChannelListInv, RecursionProofs, FiniteSetTheorems

-------------------------------------------------------------------------------
(* The nodes behind the front *)

\* There is a function that does what At says.
LEMMA WalkExists ==
  ASSUME NEW fr, NEW nx, NEW nul
  PROVE  \A n \in Nat : \E f : f = [i \in 0 .. n |->
           IF i = 0 THEN fr ELSE IF f[i - 1] = nul THEN nul ELSE nx[f[i - 1]]]
<1> DEFINE S == {n \in Nat : \E f : f = [i \in 0 .. n |->
           IF i = 0 THEN fr ELSE IF f[i - 1] = nul THEN nul ELSE nx[f[i - 1]]]}
<1>1. 0 \in S
  <2> DEFINE f == [i \in 0 .. 0 |-> fr]
  <2>1. f = [i \in 0 .. 0 |-> IF i = 0 THEN fr ELSE IF f[i - 1] = nul THEN nul ELSE nx[f[i - 1]]]
    OBVIOUS
  <2> QED BY <2>1
<1>2. ASSUME NEW n \in Nat, n \in S PROVE n + 1 \in S
  <2>1. PICK f : f = [i \in 0 .. n |->
           IF i = 0 THEN fr ELSE IF f[i - 1] = nul THEN nul ELSE nx[f[i - 1]]]
    BY <1>2
  <2> DEFINE g == [i \in 0 .. n + 1 |-> IF i \in 0 .. n THEN f[i]
                       ELSE IF f[n] = nul THEN nul ELSE nx[f[n]]]
  <2>2. \A i \in 0 .. n + 1 :
          g[i] = IF i = 0 THEN fr ELSE IF g[i - 1] = nul THEN nul ELSE nx[g[i - 1]]
    <3> TAKE i \in 0 .. n + 1
    <3>1. CASE i = 0
      BY <3>1, <2>1
    <3>2. CASE i \in 1 .. n
      BY <3>2, <2>1
    <3>3. CASE i = n + 1
      BY <3>3, <2>1
    <3> QED BY <3>1, <3>2, <3>3
  <2>3. g = [i \in 0 .. n + 1 |->
               IF i = 0 THEN fr ELSE IF g[i - 1] = nul THEN nul ELSE nx[g[i - 1]]]
    BY <2>2
  <2> HIDE DEF g
  <2> QED BY <2>3
<1>3. Nat \subseteq S
  <2> HIDE DEF S
  <2> QED BY <1>1, <1>2, Induct
<1> QED BY <1>3

\* At for any front and successors.
AtOf(fr, nx) ==
  CHOOSE f : f = [i \in 0 .. Cardinality(Nodes) |->
                    IF i = 0 THEN fr ELSE IF f[i - 1] = Null THEN Null ELSE nx[f[i - 1]]]

LEMMA NodesCounted == Cardinality(Nodes) \in Nat
BY ListAssumption, FS_CardinalityType

LEMMA AtOfEquals ==
  ASSUME NEW fr, NEW nx
  PROVE  AtOf(fr, nx) = [i \in 0 .. Cardinality(Nodes) |->
                           IF i = 0 THEN fr ELSE IF AtOf(fr, nx)[i - 1] = Null THEN Null
                           ELSE nx[AtOf(fr, nx)[i - 1]]]
BY WalkExists, NodesCounted DEF AtOf

LEMMA AtOfIs ==
  ASSUME NEW fr, NEW nx
  PROVE  \A i \in 0 .. Cardinality(Nodes) :
           AtOf(fr, nx)[i] = IF i = 0 THEN fr
                             ELSE IF AtOf(fr, nx)[i - 1] = Null THEN Null
                             ELSE nx[AtOf(fr, nx)[i - 1]]
<1> DEFINE a == AtOf(fr, nx)
<1>1. a = [i \in 0 .. Cardinality(Nodes) |->
             IF i = 0 THEN fr ELSE IF a[i - 1] = Null THEN Null ELSE nx[a[i - 1]]]
  BY AtOfEquals
<1> HIDE DEF a
<1>2. \A i \in 0 .. Cardinality(Nodes) :
        a[i] = IF i = 0 THEN fr ELSE IF a[i - 1] = Null THEN Null ELSE nx[a[i - 1]]
  BY <1>1
<1> QED BY <1>2 DEF a

LEMMA AtNow == At = AtOf(front, next)
BY DEF At, AtOf

LEMMA AtNext == At' = AtOf(front', next')
BY DEF At, AtOf

\* c are the nodes from the front on, up to the end.
IsChain(c, fr, nx, en) ==
  /\ c \in Seq(Nodes)
  /\ \A i, j \in 1 .. Len(c) : c[i] = c[j] => i = j
  /\ fr = IF Len(c) = 0 THEN Null ELSE c[1]
  /\ en = IF Len(c) = 0 THEN Null ELSE c[Len(c)]
  /\ \A i \in 1 .. Len(c) : nx[c[i]] = IF i = Len(c) THEN Null ELSE c[i + 1]

\* A chain has no more nodes than there are.
LEMMA ChainLength ==
  ASSUME NEW c \in Seq(Nodes), \A i, j \in 1 .. Len(c) : c[i] = c[j] => i = j
  PROVE  Len(c) \in 0 .. Cardinality(Nodes)
<1>1. c \in Injection(1 .. Len(c), Nodes)
  BY DEF Injection, IsInjective
<1>2. Cardinality(1 .. Len(c)) <= Cardinality(Nodes)
  BY <1>1, FS_Injection, ListAssumption
<1>3. Cardinality(1 .. Len(c)) = Len(c)
  BY FS_Interval
<1> QED BY <1>2, <1>3, NodesCounted

\* Who follows the pointers from the front walks along the chain.
LEMMA ChainAt ==
  ASSUME NEW c, NEW fr, NEW nx, NEW en, IsChain(c, fr, nx, en)
  PROVE  \A i \in 0 .. Len(c) : AtOf(fr, nx)[i] = IF i = Len(c) THEN Null ELSE c[i + 1]
<1> DEFINE a == AtOf(fr, nx)
           S == {n \in Nat : n <= Len(c) => a[n] = IF n = Len(c) THEN Null ELSE c[n + 1]}
<1>0. Len(c) \in 0 .. Cardinality(Nodes) /\ Cardinality(Nodes) \in Nat /\ Len(c) \in Nat
  BY ChainLength, NodesCounted DEF IsChain
<1>1. \A i \in 0 .. Cardinality(Nodes) :
        a[i] = IF i = 0 THEN fr ELSE IF a[i - 1] = Null THEN Null ELSE nx[a[i - 1]]
  BY AtOfIs
<1> HIDE DEF a
<1>2. 0 \in S
  BY <1>0, <1>1 DEF IsChain
<1>3. ASSUME NEW n \in Nat, n \in S PROVE n + 1 \in S
  <2> SUFFICES ASSUME n + 1 <= Len(c)
               PROVE  a[n + 1] = IF n + 1 = Len(c) THEN Null ELSE c[n + 2]
    OBVIOUS
  <2>1. a[n] = c[n + 1] /\ c[n + 1] \in Nodes
    BY <1>0, <1>3 DEF IsChain
  <2>2. a[n + 1] = nx[c[n + 1]]
    BY <1>0, <1>1, <2>1, ListAssumption
  <2> QED BY <1>0, <2>2 DEF IsChain
<1>4. Nat \subseteq S
  <2> HIDE DEF S
  <2> QED BY <1>2, <1>3, Induct
<1> QED BY <1>0, <1>4 DEF a

\* In a state of the invariant Chain is such a chain.
LEMMA ChainNow ==
  ASSUME ListTypeOK, WellFormed, DataInv
  PROVE  /\ size \in 0 .. Cardinality(Nodes) /\ Cardinality(Nodes) \in Nat
         /\ IsChain(Chain, front, next, end) /\ Len(Chain) = size
         /\ \A i \in 0 .. size : At[i] = IF i = size THEN Null ELSE Chain[i + 1]
         /\ Linked = {Chain[i] : i \in 1 .. Len(Chain)}
<1>0. size \in 0 .. Cardinality(Nodes) /\ Cardinality(Nodes) \in Nat
  BY NodesCounted DEF ListTypeOK
<1>1. \A i \in 0 .. Cardinality(Nodes) :
        At[i] = IF i = 0 THEN front ELSE IF At[i - 1] = Null THEN Null ELSE next[At[i - 1]]
  BY AtOfIs, AtNow
<1>2. Chain = [i \in 1 .. size |-> At[i - 1]]
  BY DEF Chain
<1>3. \A i \in 1 .. size : Chain[i] \in Nodes
  BY DEF DataInv, Linked
<1> HIDE DEF Chain
<1>4. Chain \in Seq(Nodes) /\ Len(Chain) = size
  BY <1>0, <1>2, <1>3
<1>5. \A i \in 0 .. size : At[i] = IF i = size THEN Null ELSE Chain[i + 1]
  BY <1>0, <1>2 DEF WellFormed
<1>6. front = IF size = 0 THEN Null ELSE Chain[1]
  BY <1>0, <1>1, <1>5
<1>7. \A i \in 1 .. size : next[Chain[i]] = IF i = size THEN Null ELSE Chain[i + 1]
  <2> TAKE i \in 1 .. size
  <2>1. At[i - 1] = Chain[i] /\ Chain[i] # Null
    BY <1>0, <1>3, <1>5, ListAssumption
  <2>2. At[i] = next[Chain[i]]
    BY <1>0, <1>1, <2>1
  <2> QED BY <1>0, <1>5, <2>2
<1> QED BY <1>0, <1>4, <1>5, <1>6, <1>7 DEF WellFormed, IsChain, Linked

\* And what is a chain after a step is Chain then.
LEMMA ChainNext ==
  ASSUME NEW c, IsChain(c, front', next', end'), size' = Len(c)
  PROVE  /\ Chain' = c
         /\ \A i \in 0 .. Len(c) : (At')[i] = IF i = Len(c) THEN Null ELSE c[i + 1]
<1>0. Len(c) \in Nat
  BY DEF IsChain
<1>1. \A i \in 0 .. Len(c) : (At')[i] = IF i = Len(c) THEN Null ELSE c[i + 1]
  BY ChainAt, AtNext
<1>2. Chain' = [i \in 1 .. Len(c) |-> (At')[i - 1]]
  BY DEF Chain
<1>3. \A i \in 1 .. Len(c) : (Chain')[i] = c[i]
  BY <1>0, <1>1, <1>2
<1>4. c = [i \in 1 .. Len(c) |-> c[i]]
  BY DEF IsChain
<1> QED BY <1>0, <1>1, <1>2, <1>3, <1>4

\* What is allocated while the chain c is there.
Allocated(c, destroying, n) ==
  IF destroying THEN {c[i] : i \in {j \in 1 .. Len(c) : \E k \in 1 .. j : c[k] = n}}
  ELSE {c[i] : i \in 1 .. Len(c)}

LEMMA WellFormedNext ==
  ASSUME NEW c, IsChain(c, front', next', end'), size' = Len(c),
         alive' = Allocated(c, op' = "destroy", todel'),
         \A i \in 1 .. Len(c) : data'[c[i]] \in Keys
  PROVE  /\ WellFormed' /\ DataInv'
         /\ size' \in 0 .. Cardinality(Nodes)
         /\ Linked' = {c[i] : i \in 1 .. Len(c)}
         /\ Contents' = IF op' = "destroy" THEN <<>> ELSE [i \in 1 .. Len(c) |-> data'[c[i]]]
<1>0. Len(c) \in 0 .. Cardinality(Nodes)
  BY ChainLength DEF IsChain
<1>1. Chain' = c /\ (At')[Len(c)] = Null
  BY <1>0, ChainNext, NodesCounted
<1>2. Linked' = {c[i] : i \in 1 .. Len(c)}
  BY <1>1 DEF Linked
<1>3. Undestroyed' = {c[i] : i \in {j \in 1 .. Len(c) : \E k \in 1 .. j : c[k] = todel'}}
  BY <1>1 DEF Undestroyed
<1>4. WellFormed'
  BY <1>1, <1>3 DEF WellFormed, IsChain, Allocated
<1>5. DataInv'
  BY <1>2 DEF DataInv, IsChain
<1>6. Contents' = IF op' = "destroy" THEN <<>> ELSE [i \in 1 .. Len(c) |-> data'[c[i]]]
  BY <1>1 DEF Contents
<1> QED BY <1>0, <1>2, <1>4, <1>5, <1>6

\* c without its j-th node.
Cut(c, j) == [i \in 1 .. Len(c) - 1 |-> IF i < j THEN c[i] ELSE c[i + 1]]

LEMMA CutIs ==
  ASSUME NEW D, NEW c \in Seq(D), NEW j \in 1 .. Len(c)
  PROVE  /\ Cut(c, j) \in Seq(D) /\ Len(Cut(c, j)) = Len(c) - 1
         /\ \A i \in 1 .. Len(c) - 1 : Cut(c, j)[i] = IF i < j THEN c[i] ELSE c[i + 1]
<1>1. \A i \in 1 .. Len(c) - 1 : (IF i < j THEN c[i] ELSE c[i + 1]) \in D
  OBVIOUS
<1> QED BY <1>1 DEF Cut

\* What is left when the j-th node is unlinked.
LEMMA CutChain ==
  ASSUME NEW c, NEW fr, NEW nx, NEW en, IsChain(c, fr, nx, en),
         NEW j \in 1 .. Len(c),
         NEW fr2, fr2 = IF j = 1 THEN nx[c[1]] ELSE fr,
         NEW en2, en2 = IF j # Len(c) THEN en ELSE IF j = 1 THEN Null ELSE c[j - 1],
         NEW nx2, \A i \in 1 .. Len(c) : i # j =>
                    nx2[c[i]] = IF i = j - 1 THEN nx[c[j]] ELSE nx[c[i]]
  PROVE  IsChain(Cut(c, j), fr2, nx2, en2)
<1> DEFINE d == Cut(c, j)
<1>0. c \in Seq(Nodes) /\ Len(c) \in Nat /\ Len(c) >= 1
  BY DEF IsChain
<1>1. /\ d \in Seq(Nodes) /\ Len(d) = Len(c) - 1
      /\ \A i \in 1 .. Len(c) - 1 : d[i] = IF i < j THEN c[i] ELSE c[i + 1]
  BY <1>0, CutIs
<1> HIDE DEF d
<1>2. \A i, k \in 1 .. Len(d) : d[i] = d[k] => i = k
  BY <1>0, <1>1 DEF IsChain
<1>3. fr2 = IF Len(d) = 0 THEN Null ELSE d[1]
  BY <1>0, <1>1 DEF IsChain
<1>4. en2 = IF Len(d) = 0 THEN Null ELSE d[Len(d)]
  BY <1>0, <1>1 DEF IsChain
<1>5. \A i \in 1 .. Len(d) : nx2[d[i]] = IF i = Len(d) THEN Null ELSE d[i + 1]
  <2> TAKE i \in 1 .. Len(d)
  <2>1. CASE i < j - 1
    <3>1. i \in 1 .. Len(c) /\ i # j /\ i # Len(c) /\ i # Len(d) /\ d[i] = c[i] /\ d[i + 1] = c[i + 1]
      BY <2>1, <1>0, <1>1
    <3>2. nx2[c[i]] = nx[c[i]] /\ nx[c[i]] = c[i + 1]
      BY <2>1, <3>1, <1>0 DEF IsChain
    <3> QED BY <3>1, <3>2
  <2>2. CASE i = j - 1
    BY <2>2, <1>0, <1>1 DEF IsChain
  <2>3. CASE i >= j
    <3>1. i + 1 \in 1 .. Len(c) /\ i + 1 # j /\ d[i] = c[i + 1]
      BY <2>3, <1>0, <1>1
    <3>2. nx2[c[i + 1]] = nx[c[i + 1]]
      BY <2>3, <3>1, <1>0
    <3>3. nx[c[i + 1]] = IF i + 1 = Len(c) THEN Null ELSE c[i + 1 + 1]
      BY <3>1 DEF IsChain
    <3>4. i # Len(d) => d[i + 1] = c[i + 1 + 1]
      BY <2>3, <1>0, <1>1
    <3> QED BY <3>1, <3>2, <3>3, <3>4, <1>0, <1>1
  <2> QED BY <1>0, <1>1, <2>1, <2>2, <2>3
<1> QED BY <1>1, <1>2, <1>3, <1>4, <1>5 DEF IsChain, d

\* Its nodes are the others.
LEMMA CutNodes ==
  ASSUME NEW c \in Seq(Nodes), NEW j \in 1 .. Len(c),
         \A i, k \in 1 .. Len(c) : c[i] = c[k] => i = k
  PROVE  {Cut(c, j)[i] : i \in 1 .. Len(Cut(c, j))} = {c[i] : i \in 1 .. Len(c)} \ {c[j]}
<1> DEFINE d == Cut(c, j)
<1>0. Len(c) \in Nat /\ Len(c) >= 1
  OBVIOUS
<1>1. /\ d \in Seq(Nodes) /\ Len(d) = Len(c) - 1
      /\ \A i \in 1 .. Len(c) - 1 : d[i] = IF i < j THEN c[i] ELSE c[i + 1]
  BY <1>0, CutIs
<1> HIDE DEF d
<1>6. {d[i] : i \in 1 .. Len(d)} = {c[i] : i \in 1 .. Len(c)} \ {c[j]}
  <2>1. ASSUME NEW i \in 1 .. Len(c), i # j
        PROVE  \E k \in 1 .. Len(d) : d[k] = c[i]
    <3>1. CASE i < j
      BY <3>1, <1>0, <1>1
    <3>2. CASE i > j
      <4>1. i - 1 \in 1 .. Len(d) /\ d[i - 1] = c[i]
        BY <3>2, <1>0, <1>1
      <4> QED BY <4>1
    <3> QED BY <2>1, <3>1, <3>2, <1>0
  <2>2. ASSUME NEW k \in 1 .. Len(d)
        PROVE  \E i \in 1 .. Len(c) : i # j /\ c[i] = d[k]
    <3>1. CASE k < j
      BY <3>1, <1>0, <1>1
    <3>2. CASE k >= j
      <4>1. k + 1 \in 1 .. Len(c) /\ k + 1 # j /\ d[k] = c[k + 1]
        BY <3>2, <1>0, <1>1
      <4> QED BY <4>1
    <3> QED BY <3>1, <3>2, <1>0
  <2>3. \A i \in 1 .. Len(c) : c[i] = c[j] => i = j
    BY <1>0 DEF IsChain
  <2> QED BY <2>1, <2>2, <2>3
<1> QED BY <1>6 DEF d

-------------------------------------------------------------------------------
(* What each action makes of the chain *)

MemInv == ListTypeOK /\ WellFormed /\ DataInv

\* The memory part of the invariant after a step.
MemNext == WellFormed' /\ DataInv' /\ size' \in 0 .. Cardinality(Nodes)

LEMMA ContentsNow ==
  ASSUME MemInv, op # "destroy"
  PROVE  /\ alive = {Chain[i] : i \in 1 .. Len(Chain)}
         /\ Contents \in Seq(Keys) /\ Len(Contents) = size
         /\ \A i \in 1 .. size : Contents[i] = data[Chain[i]]
<1>1. size \in Nat /\ Len(Chain) = size
  BY ChainNow DEF MemInv
<1>2. \A i \in 1 .. size : data[Chain[i]] \in Keys
  BY DEF MemInv, DataInv, Linked
<1>3. Contents = [i \in 1 .. size |-> data[Chain[i]]]
  BY DEF Contents
<1>4. alive = {Chain[i] : i \in 1 .. size}
  BY DEF MemInv, WellFormed
<1> QED BY <1>1, <1>2, <1>3, <1>4

\* A step that moves no pointer of the list keeps the chain.
LEMMA StaySame ==
  ASSUME MemInv, UNCHANGED <<data, next, head>>,
         alive' = Allocated(Chain, op' = "destroy", todel')
  PROVE  /\ MemNext /\ Chain' = Chain /\ At' = At /\ Linked' = Linked
         /\ Contents' = IF op' = "destroy" THEN <<>> ELSE [i \in 1 .. size |-> data[Chain[i]]]
<1> DEFINE c == Chain
<1>1. IsChain(c, front, next, end) /\ Len(c) = size /\ Linked = {c[i] : i \in 1 .. Len(c)}
  BY ChainNow DEF MemInv
<1>2. \A i \in 1 .. Len(c) : data[c[i]] \in Keys
  BY <1>1 DEF MemInv, DataInv
<1>3. At' = At
  BY AtNow, AtNext DEF head
<1> HIDE DEF c
<1>4. IsChain(c, front', next', end') /\ size' = Len(c)
      /\ \A i \in 1 .. Len(c) : data'[c[i]] \in Keys
  BY <1>1, <1>2 DEF head
<1>5. alive' = Allocated(c, op' = "destroy", todel')
  BY DEF c
<1>6. /\ WellFormed' /\ DataInv' /\ size' \in 0 .. Cardinality(Nodes)
      /\ Linked' = {c[i] : i \in 1 .. Len(c)}
      /\ Contents' = IF op' = "destroy" THEN <<>> ELSE [i \in 1 .. Len(c) |-> data'[c[i]]]
  BY <1>4, <1>5, WellFormedNext
<1>7. Chain' = c
  BY <1>4, ChainNext
<1>8. [i \in 1 .. Len(c) |-> data'[c[i]]] = [i \in 1 .. size |-> data[c[i]]]
  BY <1>1
<1> QED BY <1>1, <1>3, <1>6, <1>7, <1>8 DEF MemNext, c

\* In particular one inside delete or pop_back, or that begins one.
LEMMA StayInside ==
  ASSUME MemInv, op # "destroy", op' # "destroy", UNCHANGED <<memory, head>>
  PROVE  /\ MemNext /\ Chain' = Chain /\ At' = At /\ Linked' = Linked
         /\ Contents' = Contents
<1>1. alive' = Allocated(Chain, op' = "destroy", todel')
  BY ContentsNow DEF Allocated, memory
<1>2. Contents = [i \in 1 .. size |-> data[Chain[i]]]
  BY DEF Contents
<1> QED BY <1>1, <1>2, StaySame DEF memory

LEMMA InsertChain ==
  ASSUME MemInv, NEW k \in Keys, Insert(k)
  PROVE  MemNext /\ Contents' = <<k>> \o Contents
<1>1. op = "none" /\ op' = "none" /\ walk = "none"
  BY DEF Insert, Idle, loopVars
<1>2. PICK n \in Nodes \ alive :
        /\ alive' = alive \cup {n}
        /\ data' = [data EXCEPT ![n] = k]
        /\ next' = [next EXCEPT ![n] = front]
        /\ front' = n
        /\ end' = IF size = 0 THEN n ELSE end
        /\ size' = size + 1
  BY DEF Insert
<1> DEFINE b == Chain
           c == [i \in 1 .. size + 1 |-> IF i = 1 THEN n ELSE b[i - 1]]
<1>3. /\ IsChain(b, front, next, end) /\ Len(b) = size /\ size \in Nat
      /\ alive = {b[i] : i \in 1 .. Len(b)}
      /\ Contents \in Seq(Keys) /\ Len(Contents) = size
      /\ \A i \in 1 .. size : Contents[i] = data[b[i]]
  BY <1>1, ChainNow, ContentsNow DEF MemInv
<1>4. /\ data \in [Nodes \cup {Null} -> Keys \cup {Null}] /\ next \in [Nodes -> Nodes \cup {Null}]
  BY DEF MemInv, ListTypeOK
<1> HIDE DEF b
<1>5. b \in Seq(Nodes) /\ \A i \in 1 .. size : b[i] \in Nodes /\ b[i] # n
  BY <1>2, <1>3 DEF IsChain
<1>6. c \in Seq(Nodes) /\ Len(c) = size + 1 /\ c[1] = n
      /\ \A i \in 1 .. size : c[i + 1] = b[i]
  BY <1>2, <1>3, <1>5
<1>7. \A i \in 2 .. size + 1 : c[i] = b[i - 1]
  BY <1>3
<1> HIDE DEF c
<1>8. IsChain(c, front', next', end')
  <2>1. \A i, j \in 1 .. Len(c) : c[i] = c[j] => i = j
    <3> SUFFICES ASSUME NEW i \in 1 .. size + 1, NEW j \in 1 .. size + 1, c[i] = c[j]
                 PROVE  i = j
      BY <1>6
    <3>1. CASE i = 1 \/ j = 1
      BY <3>1, <1>3, <1>5, <1>6, <1>7
    <3>2. CASE i # 1 /\ j # 1
      <4>1. b[i - 1] = b[j - 1] /\ i - 1 \in 1 .. size /\ j - 1 \in 1 .. size
        BY <3>2, <1>3, <1>7
      <4> QED BY <4>1, <1>3 DEF IsChain
    <3> QED BY <3>1, <3>2
  <2>2. \A i \in 1 .. Len(c) : next'[c[i]] = IF i = Len(c) THEN Null ELSE c[i + 1]
    <3> TAKE i \in 1 .. Len(c)
    <3>1. CASE i = 1
      <4>1. next'[c[i]] = front
        BY <3>1, <1>2, <1>4, <1>6
      <4> QED BY <3>1, <4>1, <1>3, <1>6 DEF IsChain
    <3>2. CASE i # 1
      <4>1. c[i] = b[i - 1] /\ i - 1 \in 1 .. size /\ next'[c[i]] = next[b[i - 1]]
        BY <3>2, <1>2, <1>3, <1>4, <1>5, <1>6, <1>7
      <4>2. next[b[i - 1]] = IF i - 1 = size THEN Null ELSE b[i - 1 + 1]
        BY <4>1, <1>3 DEF IsChain
      <4>3. i - 1 # size => c[i + 1] = b[i - 1 + 1]
        BY <4>1, <1>3, <1>6
      <4> QED BY <4>1, <4>2, <4>3, <1>3, <1>6
    <3> QED BY <3>1, <3>2
  <2>3. front' = c[1] /\ end' = c[Len(c)]
    <3>1. CASE size = 0
      BY <3>1, <1>2, <1>6
    <3>2. CASE size # 0
      BY <3>2, <1>2, <1>3, <1>6, <1>7 DEF IsChain
    <3> QED BY <3>1, <3>2
  <2> QED BY <2>1, <2>2, <2>3, <1>3, <1>6 DEF IsChain
<1>9. alive' = {c[i] : i \in 1 .. Len(c)}
  <2>1. \A i \in 1 .. size : \E j \in 1 .. Len(c) : c[j] = b[i]
    BY <1>3, <1>6
  <2>2. \A j \in 1 .. Len(c) : c[j] = n \/ \E i \in 1 .. size : c[j] = b[i]
    <3> TAKE j \in 1 .. Len(c)
    <3>1. CASE j = 1
      BY <3>1, <1>6
    <3>2. CASE j # 1
      <4>1. j - 1 \in 1 .. size /\ c[j] = b[j - 1]
        BY <3>2, <1>3, <1>6, <1>7
      <4> QED BY <4>1
    <3> QED BY <3>1, <3>2
  <2>3. \E j \in 1 .. Len(c) : c[j] = n
    BY <1>3, <1>6
  <2>4. alive' = {b[i] : i \in 1 .. size} \cup {n}
    BY <1>2, <1>3
  <2> QED BY <2>1, <2>2, <2>3, <2>4
<1>10. data'[c[1]] = k /\ \A i \in 1 .. size : data'[c[i + 1]] = Contents[i] /\ Contents[i] \in Keys
  BY <1>2, <1>3, <1>4, <1>5, <1>6
<1>11. \A i \in 1 .. Len(c) : data'[c[i]] = (<<k>> \o Contents)[i] /\ data'[c[i]] \in Keys
  <2> TAKE i \in 1 .. Len(c)
  <2>1. CASE i = 1
    BY <2>1, <1>3, <1>10
  <2>2. CASE i # 1
    <3>1. i - 1 \in 1 .. size /\ (i - 1) + 1 = i
      BY <2>2, <1>3, <1>6
    <3>2. data'[c[i]] = Contents[i - 1] /\ Contents[i - 1] \in Keys
      BY <3>1, <1>10
    <3>3. (<<k>> \o Contents)[i] = Contents[i - 1]
      BY <3>1, <1>3
    <3> QED BY <3>2, <3>3
  <2> QED BY <2>1, <2>2
<1>12. /\ MemNext
       /\ Contents' = [i \in 1 .. Len(c) |-> data'[c[i]]]
  <2>1. size' = Len(c) /\ alive' = Allocated(c, op' = "destroy", todel')
    BY <1>1, <1>2, <1>6, <1>9 DEF Allocated
  <2>2. \A i \in 1 .. Len(c) : data'[c[i]] \in Keys
    BY <1>11
  <2> QED BY <2>1, <2>2, <1>1, <1>8, WellFormedNext DEF MemNext
<1>13. <<k>> \o Contents = [i \in 1 .. Len(c) |-> (<<k>> \o Contents)[i]]
  BY <1>3, <1>6
<1> QED BY <1>11, <1>12, <1>13

LEMMA InsertBackChain ==
  ASSUME MemInv, NEW k \in Keys, InsertBack(k)
  PROVE  MemNext /\ Contents' = Append(Contents, k)
<1>1. op = "none" /\ op' = "none" /\ walk = "none"
  BY DEF InsertBack, Idle, loopVars
<1>2. PICK n \in Nodes \ alive :
        /\ alive' = alive \cup {n}
        /\ data' = [data EXCEPT ![n] = k]
        /\ next' = [m \in Nodes |-> IF m = n THEN Null
                                    ELSE IF size > 0 /\ m = end THEN n ELSE next[m]]
        /\ front' = IF size = 0 THEN n ELSE front
        /\ end' = n
        /\ size' = size + 1
  BY DEF InsertBack
<1> DEFINE b == Chain
           c == Append(b, n)
<1>3. /\ IsChain(b, front, next, end) /\ Len(b) = size /\ size \in Nat
      /\ alive = {b[i] : i \in 1 .. Len(b)}
      /\ Contents \in Seq(Keys) /\ Len(Contents) = size
      /\ \A i \in 1 .. size : Contents[i] = data[b[i]]
  BY <1>1, ChainNow, ContentsNow DEF MemInv
<1>4. /\ data \in [Nodes \cup {Null} -> Keys \cup {Null}] /\ next \in [Nodes -> Nodes \cup {Null}]
  BY DEF MemInv, ListTypeOK
<1> HIDE DEF b
<1>5. b \in Seq(Nodes) /\ \A i \in 1 .. size : b[i] \in Nodes /\ b[i] # n
  BY <1>2, <1>3 DEF IsChain
<1>6. c \in Seq(Nodes) /\ Len(c) = size + 1 /\ c[size + 1] = n
      /\ \A i \in 1 .. size : c[i] = b[i]
  BY <1>2, <1>3, <1>5
<1> HIDE DEF c
<1>7. IsChain(c, front', next', end')
  <2>1. \A i, j \in 1 .. Len(c) : c[i] = c[j] => i = j
    <3> SUFFICES ASSUME NEW i \in 1 .. size + 1, NEW j \in 1 .. size + 1, c[i] = c[j]
                 PROVE  i = j
      BY <1>6
    <3>1. CASE i = size + 1 \/ j = size + 1
      BY <3>1, <1>3, <1>5, <1>6
    <3>2. CASE i \in 1 .. size /\ j \in 1 .. size
      BY <3>2, <1>3, <1>6 DEF IsChain
    <3> QED BY <3>1, <3>2, <1>3
  <2>2. \A i \in 1 .. Len(c) : next'[c[i]] = IF i = Len(c) THEN Null ELSE c[i + 1]
    <3> TAKE i \in 1 .. Len(c)
    <3>1. CASE i = size + 1
      BY <3>1, <1>2, <1>4, <1>6
    <3>2. CASE i = size
      <4>1. end = b[i] /\ size > 0 /\ c[i] = b[i] /\ b[i] \in Nodes /\ b[i] # n
        BY <3>2, <1>3, <1>5, <1>6 DEF IsChain
      <4>2. next'[c[i]] = n
        BY <4>1, <1>2
      <4> QED BY <3>2, <4>2, <1>3, <1>6
    <3>3. CASE i \in 1 .. size - 1
      <4>1. end = b[size] /\ b[i] # b[size] /\ next[b[i]] = b[i + 1]
        BY <3>3, <1>3 DEF IsChain
      <4>2. c[i] = b[i] /\ c[i + 1] = b[i + 1] /\ b[i] \in Nodes /\ b[i] # n
        BY <3>3, <1>3, <1>5, <1>6
      <4>3. next'[b[i]] = next[b[i]]
        BY <4>1, <4>2, <1>2
      <4> QED BY <3>3, <4>1, <4>2, <4>3, <1>3, <1>6
    <3> QED BY <3>1, <3>2, <3>3, <1>3, <1>6
  <2>3. front' = c[1] /\ end' = c[Len(c)]
    <3>1. CASE size = 0
      BY <3>1, <1>2, <1>6
    <3>2. CASE size # 0
      BY <3>2, <1>2, <1>3, <1>6 DEF IsChain
    <3> QED BY <3>1, <3>2
  <2> QED BY <2>1, <2>2, <2>3, <1>3, <1>6 DEF IsChain
<1>8. alive' = {c[i] : i \in 1 .. Len(c)}
  <2>1. alive' = {b[i] : i \in 1 .. size} \cup {n}
    BY <1>2, <1>3
  <2>2. \A i \in 1 .. size : \E j \in 1 .. Len(c) : c[j] = b[i]
    BY <1>3, <1>6
  <2>3. \A j \in 1 .. Len(c) : c[j] = n \/ \E i \in 1 .. size : c[j] = b[i]
    BY <1>3, <1>6
  <2>4. \E j \in 1 .. Len(c) : c[j] = n
    BY <1>3, <1>6
  <2> QED BY <2>1, <2>2, <2>3, <2>4
<1>9. \A i \in 1 .. Len(c) : data'[c[i]] = Append(Contents, k)[i] /\ data'[c[i]] \in Keys
  <2> TAKE i \in 1 .. Len(c)
  <2>1. CASE i = size + 1
    BY <2>1, <1>2, <1>3, <1>4, <1>6
  <2>2. CASE i \in 1 .. size
    <3>1. data'[c[i]] = Contents[i] /\ Contents[i] \in Keys
      BY <2>2, <1>2, <1>3, <1>4, <1>5, <1>6
    <3>2. Append(Contents, k)[i] = Contents[i]
      BY <2>2, <1>3
    <3> QED BY <3>1, <3>2
  <2> QED BY <2>1, <2>2, <1>3, <1>6
<1>10. /\ MemNext
       /\ Contents' = [i \in 1 .. Len(c) |-> data'[c[i]]]
  <2>1. size' = Len(c) /\ alive' = Allocated(c, op' = "destroy", todel')
    BY <1>1, <1>2, <1>6, <1>8 DEF Allocated
  <2>2. \A i \in 1 .. Len(c) : data'[c[i]] \in Keys
    BY <1>9
  <2> QED BY <2>1, <2>2, <1>1, <1>7, WellFormedNext DEF MemNext
<1>11. Append(Contents, k) = [i \in 1 .. Len(c) |-> Append(Contents, k)[i]]
  <2> DEFINE d == Append(Contents, k)
  <2>1. d \in Seq(Keys) /\ Len(d) = size + 1
    BY <1>3
  <2> HIDE DEF d
  <2>2. d = [i \in 1 .. size + 1 |-> d[i]]
    BY <2>1
  <2> QED BY <2>2, <1>6 DEF d
<1> QED BY <1>9, <1>10, <1>11

\* A list that is emptied.
LEMMA EmptyChain ==
  ASSUME front' = Null, end' = Null, size' = 0, alive' = {}
  PROVE  MemNext /\ Contents' = <<>> /\ (At')[0] = Null /\ Linked' = {} /\ Chain' = <<>>
<1> DEFINE c == <<>>
<1>1. c \in Seq(Nodes) /\ Len(c) = 0
  OBVIOUS
<1>2. [i \in 1 .. Len(c) |-> data'[c[i]]] = <<>>
  BY <1>1
<1> HIDE DEF c
<1>3. IsChain(c, front', next', end')
  BY <1>1 DEF IsChain
<1>4. {c[i] : i \in 1 .. Len(c)} = {}
  BY <1>1
<1>5. alive' = Allocated(c, op' = "destroy", todel')
  BY <1>1 DEF Allocated
<1>6. \A i \in 1 .. Len(c) : data'[c[i]] \in Keys
  BY <1>1
<1>7. MemNext /\ Linked' = {} /\ Contents' = <<>>
  BY <1>1, <1>2, <1>3, <1>4, <1>5, <1>6, WellFormedNext DEF MemNext
<1>8. (At')[0] = Null /\ Chain' = c
  BY <1>1, <1>3, ChainNext
<1> QED BY <1>7, <1>8 DEF c

\* A node that is unlinked and freed.
LEMMA UnlinkChain ==
  ASSUME MemInv, op # "destroy", op' # "destroy",
         NEW j \in 1 .. size,
         front' = IF j = 1 THEN next[Chain[1]] ELSE front,
         end' = IF j # size THEN end ELSE IF j = 1 THEN Null ELSE Chain[j - 1],
         \A i \in 1 .. size : i # j =>
           next'[Chain[i]] = IF i = j - 1 THEN next[Chain[j]] ELSE next[Chain[i]],
         alive' = alive \ {Chain[j]}, data' = data, size' = size - 1
  PROVE  /\ MemNext
         /\ Chain' = Cut(Chain, j) /\ Contents' = Cut(Contents, j)
         /\ \A i \in 0 .. size - 1 :
              (At')[i] = IF i = size - 1 THEN Null ELSE Cut(Chain, j)[i + 1]
<1> DEFINE b == Chain
           c == Cut(b, j)
<1>1. /\ IsChain(b, front, next, end) /\ Len(b) = size /\ size \in Nat
      /\ alive = {b[i] : i \in 1 .. Len(b)}
      /\ Contents \in Seq(Keys) /\ Len(Contents) = size
      /\ \A i \in 1 .. size : Contents[i] = data[b[i]]
  BY ChainNow, ContentsNow DEF MemInv
<1>2. /\ front' = IF j = 1 THEN next[b[1]] ELSE front
      /\ end' = IF j # Len(b) THEN end ELSE IF j = 1 THEN Null ELSE b[j - 1]
      /\ \A i \in 1 .. Len(b) : i # j =>
           next'[b[i]] = IF i = j - 1 THEN next[b[j]] ELSE next[b[i]]
      /\ alive' = alive \ {b[j]} /\ j \in 1 .. Len(b)
  BY <1>1
<1> HIDE DEF b
<1>3. /\ IsChain(c, front', next', end')
      /\ {c[i] : i \in 1 .. Len(c)} = {b[i] : i \in 1 .. Len(b)} \ {b[j]}
  <2> DEFINE f == front'
             n == next'
             e == end'
  <2>1. f = IF j = 1 THEN next[b[1]] ELSE front
    BY <1>2
  <2>2. e = IF j # Len(b) THEN end ELSE IF j = 1 THEN Null ELSE b[j - 1]
    BY <1>2
  <2>3. \A i \in 1 .. Len(b) : i # j =>
          n[b[i]] = IF i = j - 1 THEN next[b[j]] ELSE next[b[i]]
    BY <1>2
  <2>4. j \in 1 .. Len(b)
    BY <1>2
  <2>5. IsChain(b, front, next, end)
    BY <1>1
  <2> HIDE DEF f, n, e
  <2>6. IsChain(Cut(b, j), f, n, e)
    BY <2>1, <2>4, <2>2, <2>3, <2>5, CutChain
  <2>7. {Cut(b, j)[i] : i \in 1 .. Len(Cut(b, j))} = {b[i] : i \in 1 .. Len(b)} \ {b[j]}
    BY <1>1, <2>4, CutNodes DEF IsChain
  <2> QED BY <2>6, <2>7 DEF f, n, e
<1>4. Len(c) = size - 1 /\ \A i \in 1 .. size - 1 : c[i] = IF i < j THEN b[i] ELSE b[i + 1]
  <2>1. b \in Seq(Nodes) /\ j \in 1 .. Len(b)
    BY <1>1 DEF IsChain
  <2>2. /\ Len(Cut(b, j)) = Len(b) - 1
        /\ \A i \in 1 .. Len(b) - 1 : Cut(b, j)[i] = IF i < j THEN b[i] ELSE b[i + 1]
    BY <2>1, CutIs
  <2> QED BY <1>1, <2>2
<1>5. /\ Len(Cut(Contents, j)) = size - 1 /\ Cut(Contents, j) \in Seq(Keys)
      /\ \A i \in 1 .. size - 1 : Cut(Contents, j)[i] = IF i < j THEN Contents[i] ELSE Contents[i + 1]
  <2> DEFINE d == Contents
  <2>1. d \in Seq(Keys) /\ Len(d) = size /\ j \in 1 .. Len(d)
    BY <1>1
  <2> HIDE DEF d
  <2>2. /\ Cut(d, j) \in Seq(Keys) /\ Len(Cut(d, j)) = Len(d) - 1
        /\ \A i \in 1 .. Len(d) - 1 : Cut(d, j)[i] = IF i < j THEN d[i] ELSE d[i + 1]
    BY <2>1, CutIs
  <2> QED BY <2>1, <2>2 DEF d
<1> HIDE DEF c
<1>6. \A i \in 1 .. Len(c) : data'[c[i]] = Cut(Contents, j)[i] /\ data'[c[i]] \in Keys
  <2> TAKE i \in 1 .. Len(c)
  <2>1. Cut(Contents, j)[i] \in Keys
    BY <1>4, <1>5
  <2>2. CASE i < j
    BY <2>1, <2>2, <1>1, <1>4, <1>5
  <2>3. CASE i >= j
    BY <2>1, <2>3, <1>1, <1>4, <1>5
  <2> QED BY <2>2, <2>3, <1>4
<1>7. alive' = Allocated(c, op' = "destroy", todel') /\ size' = Len(c)
  BY <1>1, <1>2, <1>3, <1>4 DEF Allocated
<1>8. MemNext /\ Contents' = [i \in 1 .. Len(c) |-> data'[c[i]]]
  BY <1>3, <1>6, <1>7, WellFormedNext DEF MemNext
<1>9. /\ Chain' = c
      /\ \A i \in 0 .. Len(c) : (At')[i] = IF i = Len(c) THEN Null ELSE c[i + 1]
  BY <1>3, <1>7, ChainNext
<1>10. Cut(Contents, j) = [i \in 1 .. Len(c) |-> Cut(Contents, j)[i]]
  BY <1>4, <1>5
<1> QED BY <1>4, <1>6, <1>8, <1>9, <1>10 DEF b, c

\* delete and pop_back have prev just before todel.
LEMMA PrevIs ==
  ASSUME MemInv, PrevBeforeTodel, op \in {"delete", "pop"},
         NEW j \in 1 .. size, todel = Chain[j], j # 1
  PROVE  prev = Chain[j - 1]
<1>1. /\ IsChain(Chain, front, next, end) /\ Len(Chain) = size /\ size \in Nat
      /\ alive = {Chain[i] : i \in 1 .. Len(Chain)}
  BY ChainNow, ContentsNow DEF MemInv
<1> HIDE DEF Chain
<1>2. todel # Null /\ todel # front
  BY <1>1, ListAssumption DEF IsChain
<1>3. prev \in alive /\ next[prev] = todel
  BY <1>2 DEF PrevBeforeTodel
<1>4. PICK i \in 1 .. size : prev = Chain[i]
  BY <1>1, <1>3
<1>5. i # size /\ Chain[i + 1] = Chain[j]
  BY <1>1, <1>2, <1>3, <1>4 DEF IsChain
<1>6. i + 1 = j
  BY <1>1, <1>4, <1>5 DEF IsChain
<1> QED BY <1>4, <1>6

\* What delete does to the pointers when it takes out the j-th node.
LEMMA UnlinkIs ==
  ASSUME MemInv, PrevBeforeTodel, op = "delete", NEW j \in 1 .. size, todel = Chain[j], Unlink
  PROVE  /\ front' = IF j = 1 THEN next[Chain[1]] ELSE front
         /\ end' = IF j # size THEN end ELSE IF j = 1 THEN Null ELSE Chain[j - 1]
         /\ \A i \in 1 .. size : i # j =>
              next'[Chain[i]] = IF i = j - 1 THEN next[Chain[j]] ELSE next[Chain[i]]
         /\ next'[todel] = next[todel]
<1>1. /\ IsChain(Chain, front, next, end) /\ Len(Chain) = size /\ size \in Nat
      /\ next \in [Nodes -> Nodes \cup {Null}]
  BY ChainNow DEF MemInv, ListTypeOK
<1>2. j # 1 => prev = Chain[j - 1]
  BY PrevIs
<1> HIDE DEF Chain
<1>3. front = Chain[1] /\ end = Chain[size] /\ next[Chain[size]] = Null
  BY <1>1 DEF IsChain
<1>4. \A i \in 1 .. size : Chain[i] \in Nodes
  BY <1>1 DEF IsChain
<1>5. \A i, k \in 1 .. size : Chain[i] = Chain[k] => i = k
  BY <1>1 DEF IsChain
<1>6. CASE size = 1 /\ front' = Null /\ end' = Null /\ UNCHANGED next
  BY <1>1, <1>3, <1>6
<1>7. CASE size > 1 /\ front = todel /\ front' = next[todel] /\ UNCHANGED <<end, next>>
  <2>1. j = 1
    <3>1. Chain[j] = Chain[1] /\ 1 \in 1 .. size
      BY <1>1, <1>3, <1>7
    <3> QED BY <3>1, <1>5
  <2> QED BY <1>1, <1>7, <2>1
<1>8. CASE /\ size > 1 /\ front # todel /\ end = todel
           /\ end' = prev
           /\ next' = [next EXCEPT ![prev] = Null]
           /\ UNCHANGED front
  <2>1. j # 1 /\ j = size /\ prev = Chain[j - 1] /\ j - 1 \in 1 .. size
    <3>1. Chain[j] = Chain[size] /\ size \in 1 .. size /\ Chain[j] # Chain[1]
      BY <1>1, <1>3, <1>8
    <3>2. j = size /\ j # 1
      BY <3>1, <1>5
    <3> QED BY <3>2, <1>1, <1>2
  <2>2. \A i \in 1 .. size : next'[Chain[i]] = IF i = j - 1 THEN Null ELSE next[Chain[i]]
    BY <1>1, <1>4, <1>5, <1>8, <2>1
  <2> QED BY <1>1, <1>3, <1>8, <2>1, <2>2
<1>9. CASE /\ size > 1 /\ front # todel /\ end # todel
           /\ next' = [next EXCEPT ![prev] = next[todel]]
           /\ UNCHANGED <<front, end>>
  <2>1. j # 1 /\ j # size /\ prev = Chain[j - 1] /\ j - 1 \in 1 .. size
    BY <1>1, <1>2, <1>3, <1>5, <1>9
  <2>2. \A i \in 1 .. size :
          next'[Chain[i]] = IF i = j - 1 THEN next[Chain[j]] ELSE next[Chain[i]]
    BY <1>1, <1>4, <1>5, <1>9, <2>1
  <2> QED BY <1>1, <1>9, <2>1, <2>2
<1> QED BY <1>6, <1>7, <1>8, <1>9 DEF Unlink

\* A node that matches is cut out of the chain and of the contents.
LEMMA DeleteMatchChain ==
  ASSUME MemInv, PrevBeforeTodel, LoopInv, DeleteMatch
  PROVE  \E j \in 1 .. size :
           /\ todel = Chain[j] /\ Contents[j] = key
           /\ MemNext /\ size' = size - 1
           /\ Chain' = Cut(Chain, j) /\ Contents' = Cut(Contents, j)
           /\ \A i \in 0 .. size - 1 :
                (At')[i] = IF i = size - 1 THEN Null ELSE Cut(Chain, j)[i + 1]
           /\ todel' = (At')[j - 1]
           /\ next'[todel] = next[todel]
<1>1. /\ IsChain(Chain, front, next, end) /\ Len(Chain) = size /\ size \in Nat
      /\ \A i \in 1 .. size : Contents[i] = data[Chain[i]]
      /\ Linked = {Chain[i] : i \in 1 .. Len(Chain)}
  BY ChainNow, ContentsNow DEF MemInv, DeleteMatch
<1>2. /\ op = "delete" /\ op' = "delete" /\ todel # Null /\ data[todel] = key /\ Unlink
      /\ alive' = alive \ {todel} /\ data' = data /\ size' = size - 1 /\ todel' = next[todel]
  BY DEF DeleteMatch, Free
<1>3. todel \in Linked
  BY <1>2 DEF LoopInv
<1>4. PICK j \in 1 .. size : todel = Chain[j]
  BY <1>1, <1>3
<1>5. /\ front' = IF j = 1 THEN next[Chain[1]] ELSE front
      /\ end' = IF j # size THEN end ELSE IF j = 1 THEN Null ELSE Chain[j - 1]
      /\ \A i \in 1 .. size : i # j =>
           next'[Chain[i]] = IF i = j - 1 THEN next[Chain[j]] ELSE next[Chain[i]]
      /\ next'[todel] = next[todel]
  BY <1>2, <1>4, UnlinkIs
<1>6. /\ MemNext
      /\ Chain' = Cut(Chain, j) /\ Contents' = Cut(Contents, j)
      /\ \A i \in 0 .. size - 1 :
           (At')[i] = IF i = size - 1 THEN Null ELSE Cut(Chain, j)[i + 1]
  BY <1>2, <1>4, <1>5, UnlinkChain
<1> HIDE DEF Chain
<1>7. todel' = IF j = size THEN Null ELSE Chain[j + 1]
  BY <1>1, <1>2, <1>4 DEF IsChain
<1>8. \A i \in 1 .. size - 1 : Cut(Chain, j)[i] = IF i < j THEN Chain[i] ELSE Chain[i + 1]
  BY <1>1, CutIs DEF IsChain
<1>9. todel' = (At')[j - 1]
  <2>1. CASE j = size
    BY <2>1, <1>1, <1>6, <1>7
  <2>2. CASE j # size
    <3>1. j - 1 \in 0 .. size - 1 /\ j - 1 # size - 1 /\ j \in 1 .. size - 1
      BY <2>2, <1>1
    <3>2. (At')[j - 1] = Cut(Chain, j)[j]
      BY <3>1, <1>1, <1>6
    <3>3. Cut(Chain, j)[j] = Chain[j + 1]
      BY <3>1, <1>1, <1>8
    <3> QED BY <2>2, <3>2, <3>3, <1>7
  <2> QED BY <2>1, <2>2
<1> QED BY <1>1, <1>2, <1>4, <1>5, <1>6, <1>9

\* pop_back cuts the last node.
LEMMA PopEndChain ==
  ASSUME MemInv, PrevBeforeTodel, LoopInv, PopEnd
  PROVE  MemNext /\ size > 1 /\ Contents' = Cut(Contents, size)
<1>1. /\ IsChain(Chain, front, next, end) /\ Len(Chain) = size /\ size \in Nat
      /\ next \in [Nodes -> Nodes \cup {Null}]
  BY ChainNow DEF MemInv, ListTypeOK
<1>2. /\ op = "pop" /\ op' = "none" /\ todel = end /\ end' = prev /\ size' = size - 1
      /\ next' = [next EXCEPT ![prev] = Null] /\ alive' = alive \ {todel}
      /\ data' = data /\ front' = front
  BY DEF PopEnd, Free, Return
<1>3. size > 1
  BY <1>2 DEF LoopInv
<1> HIDE DEF Chain
<1>4. todel = Chain[size] /\ size \in 1 .. size /\ size # 1
  BY <1>1, <1>2, <1>3 DEF IsChain
<1>5. prev = Chain[size - 1]
  BY <1>2, <1>4, PrevIs
<1>6. \A i \in 1 .. size : i # size =>
        next'[Chain[i]] = IF i = size - 1 THEN next[Chain[size]] ELSE next[Chain[i]]
  <2> TAKE i \in 1 .. size
  <2>1. Chain[i] \in Nodes /\ Chain[size - 1] \in Nodes /\ next[Chain[size]] = Null
    BY <1>1, <1>3 DEF IsChain
  <2>2. Chain[i] = Chain[size - 1] => i = size - 1
    BY <1>1, <1>3 DEF IsChain
  <2>3. next'[Chain[i]] = IF Chain[i] = Chain[size - 1] THEN Null ELSE next[Chain[i]]
    BY <1>1, <1>2, <1>5, <2>1
  <2> QED BY <2>1, <2>2, <2>3
<1> QED BY <1>2, <1>3, <1>4, <1>5, <1>6, UnlinkChain

\* The list of one element is emptied.
LEMMA EmptyListChain ==
  ASSUME MemInv, op # "destroy", size = 1, EmptyList
  PROVE  /\ MemNext /\ Contents' = <<>> /\ (At')[0] = Null /\ Linked' = {}
         /\ front = Chain[1] /\ next[front] = Null
<1>1. /\ IsChain(Chain, front, next, end) /\ Len(Chain) = 1
      /\ alive = {Chain[i] : i \in 1 .. Len(Chain)}
  BY ChainNow, ContentsNow DEF MemInv
<1> HIDE DEF Chain
<1>2. front = Chain[1] /\ next[front] = Null
  BY <1>1 DEF IsChain
<1>3. alive' = {} /\ front' = Null /\ end' = Null /\ size' = 0
  BY <1>1, <1>2 DEF EmptyList, Free
<1> QED BY <1>2, <1>3, EmptyChain

\* ds_list begins at the front,
LEMMA DestroyChain ==
  ASSUME MemInv, Destroy
  PROVE  MemNext /\ Contents' = <<>> /\ todel' \in Linked' \cup {Null}
<1>1. /\ IsChain(Chain, front, next, end) /\ Len(Chain) = size /\ size \in Nat
      /\ Linked = {Chain[i] : i \in 1 .. Len(Chain)}
  BY ChainNow DEF MemInv
<1>2. /\ op = "none" /\ op' = "destroy" /\ todel' = front
      /\ UNCHANGED <<memory, head>>
  BY DEF Destroy, Idle
<1>3. alive = {Chain[i] : i \in 1 .. Len(Chain)}
  BY <1>2, ContentsNow
<1> HIDE DEF Chain
<1>4. alive' = Allocated(Chain, op' = "destroy", todel')
  <2>1. \A i \in 1 .. Len(Chain) : 1 \in 1 .. i /\ Chain[1] = front
    BY <1>1 DEF IsChain
  <2>2. {j \in 1 .. Len(Chain) : \E k \in 1 .. j : Chain[k] = front} = 1 .. Len(Chain)
    BY <2>1
  <2>3. Allocated(Chain, TRUE, front) = {Chain[i] : i \in 1 .. Len(Chain)}
    BY <2>2 DEF Allocated
  <2> QED BY <1>2, <1>3, <2>3 DEF memory
<1>5. MemNext /\ Contents' = <<>> /\ Linked' = Linked
  BY <1>2, <1>4, StaySame DEF memory
<1>6. front \in Linked \cup {Null}
  BY <1>1 DEF IsChain
<1> QED BY <1>2, <1>5, <1>6

\* frees one node after the other
LEMMA DestroyNodeChain ==
  ASSUME MemInv, LoopInv, DestroyNode
  PROVE  MemNext /\ Contents' = <<>> /\ todel' \in Linked' \cup {Null}
<1>1. /\ IsChain(Chain, front, next, end) /\ Len(Chain) = size /\ size \in Nat
      /\ Linked = {Chain[i] : i \in 1 .. Len(Chain)}
  BY ChainNow DEF MemInv
<1>2. /\ op = "destroy" /\ op' = "destroy" /\ todel # Null /\ todel' = next[todel]
      /\ alive' = alive \ {todel} /\ UNCHANGED <<data, next, head>>
  BY DEF DestroyNode, Free
<1>3. alive = {Chain[i] : i \in {m \in 1 .. size : \E k \in 1 .. m : Chain[k] = todel}}
  BY <1>2 DEF MemInv, WellFormed, Undestroyed
<1>4. PICK j \in 1 .. size : todel = Chain[j]
  BY <1>1, <1>2 DEF LoopInv
<1> HIDE DEF Chain
<1>5. \A i, k \in 1 .. size : Chain[i] = Chain[k] => i = k
  BY <1>1 DEF IsChain
<1>6. todel' = IF j = size THEN Null ELSE Chain[j + 1]
  BY <1>1, <1>2, <1>4 DEF IsChain
<1>7. \A i \in 1 .. size : Chain[i] \in alive' <=> i > j
  <2> TAKE i \in 1 .. size
  <2>1. Chain[i] \in alive <=> i >= j
    <3>1. Chain[i] \in alive <=> \E k \in 1 .. i : Chain[k] = Chain[j]
      BY <1>3, <1>4, <1>5
    <3>2. ASSUME NEW k \in 1 .. i, Chain[k] = Chain[j] PROVE i >= j
      <4>1. k \in 1 .. size
        BY <1>1
      <4>2. k = j
        BY <1>5, <3>2, <4>1
      <4> QED BY <4>2
    <3>3. i >= j => j \in 1 .. i
      OBVIOUS
    <3> QED BY <3>1, <3>2, <3>3
  <2> QED BY <1>2, <1>4, <1>5, <2>1
<1>8. \A i \in 1 .. size : (\E k \in 1 .. i : Chain[k] = todel') <=> i > j
  <2> TAKE i \in 1 .. size
  <2>1. CASE j = size
    <3>1. \A k \in 1 .. size : Chain[k] # todel'
      BY <2>1, <1>1, <1>6, ListAssumption DEF IsChain
    <3> QED BY <2>1, <3>1, <1>1
  <2>2. CASE j # size
    <3>1. \A k \in 1 .. i : Chain[k] = todel' <=> k = j + 1
      BY <2>2, <1>1, <1>5, <1>6
    <3> QED BY <2>2, <3>1, <1>1
  <2> QED BY <2>1, <2>2
<1>9. alive' = Allocated(Chain, op' = "destroy", todel')
  <2>1. alive' \subseteq {Chain[i] : i \in 1 .. size}
    BY <1>2, <1>3
  <2>2. Allocated(Chain, op' = "destroy", todel')
          = {Chain[i] : i \in {m \in 1 .. size : \E k \in 1 .. m : Chain[k] = todel'}}
    BY <1>1, <1>2 DEF Allocated
  <2>3. {m \in 1 .. size : \E k \in 1 .. m : Chain[k] = todel'} = {m \in 1 .. size : m > j}
    BY <1>8
  <2>4. alive' = {Chain[i] : i \in {m \in 1 .. size : m > j}}
    BY <1>7, <2>1
  <2> QED BY <2>2, <2>3, <2>4
<1>10. MemNext /\ Contents' = <<>> /\ Linked' = Linked
  BY <1>2, <1>9, StaySame
<1>11. todel' \in Linked \cup {Null}
  BY <1>1, <1>6
<1> QED BY <1>10, <1>11

\* and leaves nothing.
LEMMA DestroyEndChain ==
  ASSUME MemInv, DestroyEnd
  PROVE  MemNext /\ Contents' = <<>>
<1>1. /\ IsChain(Chain, front, next, end) /\ Len(Chain) = size /\ size \in Nat
  BY ChainNow DEF MemInv
<1>2. alive = {Chain[i] : i \in {m \in 1 .. size : \E k \in 1 .. m : Chain[k] = Null}}
  BY DEF MemInv, WellFormed, Undestroyed, DestroyEnd
<1> HIDE DEF Chain
<1>3. alive = {}
  BY <1>1, <1>2, ListAssumption DEF IsChain
<1>4. front' = Null /\ end' = Null /\ size' = 0 /\ alive' = {}
  BY <1>3 DEF DestroyEnd, memory
<1> QED BY <1>4, EmptyChain

-------------------------------------------------------------------------------
(* The contents as a sequence *)

LEMMA Concat ==
  ASSUME NEW D, NEW a \in Seq(D), NEW b \in Seq(D)
  PROVE  /\ a \o b \in Seq(D) /\ Len(a \o b) = Len(a) + Len(b)
         /\ \A i \in 1 .. Len(a) : (a \o b)[i] = a[i]
         /\ \A i \in 1 .. Len(b) : (a \o b)[Len(a) + i] = b[i]
OBVIOUS

\* The first occurrence is what RemoveFirst removes.
LEMMA CutFirst ==
  ASSUME NEW D, NEW s \in Seq(D), NEW k, NEW j \in 1 .. Len(s), s[j] = k,
         \A i \in 1 .. Len(s) : i < j => s[i] # k
  PROVE  RemoveFirst(s, k) = Cut(s, j)
<1> DEFINE I == {i \in 1 .. Len(s) : s[i] = k}
<1>1. RemoveFirst(s, k) = RemoveAt(s, Min(I))
  <2>1. \E i \in 1 .. Len(s) : s[i] = k
    OBVIOUS
  <2>2. SelectInSeq(s, LAMBDA v : v = k) = Min(I)
    BY <2>1 DEF SelectInSeq
  <2> QED BY <2>1, <2>2 DEF RemoveFirst
<1>2. Min(I) = j
  <2>1. j \in I /\ \A i \in I : j <= i
    OBVIOUS
  <2>2. \A m \in I : (\A i \in I : m <= i) => m = j
    BY <2>1
  <2> HIDE DEF I
  <2> QED BY <2>1, <2>2, Zenon DEF Min
<1>3. RemoveAt(s, j) = Cut(s, j)
  <2> DEFINE a == SubSeq(s, 1, j - 1)
             b == SubSeq(s, j + 1, Len(s))
             r == a \o b
  <2>1. a \in Seq(D) /\ Len(a) = j - 1 /\ \A i \in 1 .. j - 1 : a[i] = s[i]
    OBVIOUS
  <2>2. /\ b \in Seq(D) /\ Len(b) = Len(s) - j
        /\ \A i \in 1 .. Len(s) - j : b[i] = s[j + i]
    OBVIOUS
  <2>3. RemoveAt(s, j) = r
    BY DEF RemoveAt
  <2> HIDE DEF a, b
  <2>4. r \in Seq(D) /\ Len(r) = Len(s) - 1
    <3>1. r \in Seq(D)
      BY <2>1, <2>2
    <3>2. Len(r) = Len(a) + Len(b)
      BY <2>1, <2>2, Concat
    <3> QED BY <2>1, <2>2, <3>1, <3>2
  <2>5. \A i \in 1 .. Len(s) - 1 : r[i] = IF i < j THEN s[i] ELSE s[i + 1]
    <3> TAKE i \in 1 .. Len(s) - 1
    <3>1. CASE i < j
      BY <3>1, <2>1, <2>2
    <3>2. CASE i >= j
      <4>1. r[i] = b[i - (j - 1)] /\ i - (j - 1) \in 1 .. Len(s) - j
        BY <3>2, <2>1, <2>2
      <4>2. b[i - (j - 1)] = s[j + (i - (j - 1))]
        BY <4>1, <2>2
      <4>3. j + (i - (j - 1)) = i + 1
        OBVIOUS
      <4> QED BY <3>2, <4>1, <4>2, <4>3
    <3> HIDE DEF r
    <3> QED BY <3>1, <3>2
  <2> HIDE DEF r
  <2>6. r = [i \in 1 .. Len(s) - 1 |-> r[i]]
    BY <2>4
  <2> QED BY <2>3, <2>5, <2>6 DEF Cut
<1> QED BY <1>1, <1>2, <1>3

\* The last element is what Front leaves out.
LEMMA CutLast ==
  ASSUME NEW D, NEW s \in Seq(D), Len(s) > 0
  PROVE  Front(s) = Cut(s, Len(s))
<1> DEFINE r == Front(s)
<1>1. r \in Seq(D) /\ Len(r) = Len(s) - 1 /\ \A i \in 1 .. Len(s) - 1 : r[i] = s[i]
  <2>1. Len(s) \in 1 .. Len(s) /\ Front(s) = SubSeq(s, 1, Len(s) - 1)
    BY DEF Front
  <2>2. \A j \in 1 .. Len(s) :
          /\ SubSeq(s, 1, j - 1) \in Seq(D) /\ Len(SubSeq(s, 1, j - 1)) = j - 1
          /\ \A i \in 1 .. j - 1 : SubSeq(s, 1, j - 1)[i] = s[i]
    OBVIOUS
  <2> QED BY <2>1, <2>2
<1>2. r = [i \in 1 .. Len(s) - 1 |-> s[i]]
  <2> HIDE DEF r
  <2> QED BY <1>1
<1>3. Cut(s, Len(s)) = [i \in 1 .. Len(s) - 1 |-> s[i]]
  BY DEF Cut
<1> QED BY <1>2, <1>3

\* The library's operators as ListSpec has them are the same.
LEMMA SameRemoveFirst ==
  ASSUME NEW s, NEW k
  PROVE  Abstract!RemoveFirst(s, k) = RemoveFirst(s, k)
BY DEF RemoveFirst, SelectInSeq, RemoveAt, Min,
       Abstract!RemoveFirst, Abstract!SelectInSeq, Abstract!RemoveAt, Abstract!Min

LEMMA SameFront ==
  ASSUME NEW s
  PROVE  Abstract!Front(s) = Front(s)
BY DEF Front, Abstract!Front

-------------------------------------------------------------------------------
(* Each action keeps the invariant and is a step of the abstract list, or none *)

LEMMA InsertInv ==
  ASSUME CInv, NEW k \in Keys, Insert(k)
  PROVE  CInv' /\ Abstract!Next
<1>1. MemInv /\ ListTypeOK
  BY DEF CInv, MemInv
<1>2. MemNext /\ Contents' = <<k>> \o Contents
  BY <1>1, InsertChain
<1>3. op = "none" /\ walk = "none" /\ UNCHANGED <<loopVars, walkVars>>
  BY DEF Insert, Idle
<1>4. ListTypeOK'
  <2>1. PICK n \in Nodes \ alive :
          /\ alive' = alive \cup {n}
          /\ data' = [data EXCEPT ![n] = k]
          /\ next' = [next EXCEPT ![n] = front]
          /\ front' = n
          /\ end' = IF size = 0 THEN n ELSE end
    BY DEF Insert
  <2>2. data' \in [Nodes \cup {Null} -> Keys \cup {Null}] /\ data'[Null] = Null
    BY <1>1, <2>1, ListAssumption DEF ListTypeOK
  <2>3. next' \in [Nodes -> Nodes \cup {Null}] /\ alive' \subseteq Nodes
        /\ front' \in Nodes \cup {Null} /\ end' \in Nodes \cup {Null}
    BY <1>1, <2>1 DEF ListTypeOK
  <2> QED BY <1>1, <1>2, <1>3, <2>2, <2>3 DEF ListTypeOK, MemNext, loopVars, walkVars
<1>5. PrevBeforeTodel' /\ LoopInv' /\ WalkInv'
  BY <1>3 DEF PrevBeforeTodel, LoopInv, WalkInv, loopVars, walkVars
<1>6. Abstract!Next
  BY <1>2 DEF Abstract!Next, Abstract!InsertFront
<1> QED BY <1>2, <1>4, <1>5, <1>6 DEF CInv, MemNext

LEMMA InsertBackInv ==
  ASSUME CInv, NEW k \in Keys, InsertBack(k)
  PROVE  CInv' /\ Abstract!Next
<1>1. MemInv /\ ListTypeOK
  BY DEF CInv, MemInv
<1>2. MemNext /\ Contents' = Append(Contents, k)
  BY <1>1, InsertBackChain
<1>3. op = "none" /\ walk = "none" /\ UNCHANGED <<loopVars, walkVars>>
  BY DEF InsertBack, Idle
<1>4. ListTypeOK'
  <2>1. PICK n \in Nodes \ alive :
          /\ alive' = alive \cup {n}
          /\ data' = [data EXCEPT ![n] = k]
          /\ next' = [m \in Nodes |-> IF m = n THEN Null
                                      ELSE IF size > 0 /\ m = end THEN n ELSE next[m]]
          /\ front' = IF size = 0 THEN n ELSE front
          /\ end' = n
    BY DEF InsertBack
  <2>2. data' \in [Nodes \cup {Null} -> Keys \cup {Null}] /\ data'[Null] = Null
    BY <1>1, <2>1, ListAssumption DEF ListTypeOK
  <2>3. next' \in [Nodes -> Nodes \cup {Null}] /\ alive' \subseteq Nodes
        /\ front' \in Nodes \cup {Null} /\ end' \in Nodes \cup {Null}
    BY <1>1, <2>1 DEF ListTypeOK
  <2> QED BY <1>1, <1>2, <1>3, <2>2, <2>3 DEF ListTypeOK, MemNext, loopVars, walkVars
<1>5. PrevBeforeTodel' /\ LoopInv' /\ WalkInv'
  BY <1>3 DEF PrevBeforeTodel, LoopInv, WalkInv, loopVars, walkVars
<1>6. Abstract!Next
  BY <1>2 DEF Abstract!Next, Abstract!InsertBack
<1> QED BY <1>2, <1>4, <1>5, <1>6 DEF CInv, MemNext

\* What delete does before its loop, for the callers and for the walk.
LEMMA StartDeleteIs ==
  ASSUME MemInv, op = "none", NEW k \in Keys, StartDelete(k)
  PROVE  /\ MemNext /\ op' \in {"none", "delete"} /\ PrevBeforeTodel'
         /\ data' = data /\ next' = next /\ alive' \subseteq Nodes
         /\ {front', end', prev', todel'} \subseteq Nodes \cup {Null, prev, todel}
         /\ key' \in {key, k}
         /\ op' = "delete" =>
              /\ todel' \in Linked'
              /\ \A i \in 1 .. size' :
                   (\A m \in 1 .. i : Chain'[m] # todel') => data'[Chain'[i]] # key'
         /\ \/ /\ UNCHANGED <<memory, head, loopVars>>
               /\ \A i \in 1 .. size : Contents[i] # k
            \/ size = 1 /\ data[front] = k /\ EmptyList /\ UNCHANGED loopVars
            \/ /\ op' = "delete" /\ key' = k /\ todel' = front /\ size > 1
               /\ UNCHANGED <<memory, head>>
<1>1. /\ IsChain(Chain, front, next, end) /\ Len(Chain) = size /\ size \in Nat
      /\ Linked = {Chain[i] : i \in 1 .. Len(Chain)}
      /\ \A i \in 1 .. size : Contents[i] = data[Chain[i]]
  BY ChainNow, ContentsNow DEF MemInv
<1>2. ListTypeOK
  BY DEF MemInv
<1>3. CASE /\ size = 0 \/ (size = 1 /\ data[front] # k)
           /\ UNCHANGED <<memory, head, loopVars>>
  <2>1. op' = "none" /\ UNCHANGED <<memory, head, loopVars>>
    BY <1>3 DEF loopVars
  <2>2. MemNext
    BY <2>1, StayInside
  <2>3. \A i \in 1 .. size : Contents[i] # k
    <3> HIDE DEF Chain
    <3> QED BY <1>1, <1>3 DEF IsChain
  <2> QED BY <1>2, <2>1, <2>2, <2>3
        DEF ListTypeOK, memory, head, loopVars, PrevBeforeTodel
<1>4. CASE size = 1 /\ data[front] = k /\ EmptyList /\ UNCHANGED loopVars
  <2>1. MemNext
    BY <1>4, EmptyListChain
  <2>2. /\ op' = "none" /\ data' = data /\ next' = next /\ alive' \subseteq Nodes
        /\ front' = Null /\ end' = Null /\ prev' = prev /\ todel' = todel /\ key' = key
    BY <1>2, <1>4 DEF EmptyList, Free, loopVars, ListTypeOK
  <2> QED BY <1>4, <2>1, <2>2 DEF PrevBeforeTodel
<1>5. CASE /\ size > 1
           /\ op' = "delete" /\ key' = k /\ prev' = front /\ todel' = front
           /\ UNCHANGED <<memory, head>>
  <2>1. MemNext /\ Chain' = Chain /\ Linked' = Linked
    BY <1>5, StayInside
  <2>2. /\ data' = data /\ next' = next /\ alive' \subseteq Nodes /\ front' = front
        /\ {front', end', prev', todel'} \subseteq Nodes \cup {Null, prev, todel}
    BY <1>2, <1>5 DEF ListTypeOK, memory, head
  <2> DEFINE b == Chain
  <2>3. b[1] = front /\ front \in Linked /\ size' = size /\ size > 1
    BY <1>1, <1>5 DEF IsChain, head
  <2> HIDE DEF b
  <2>4. \A i \in 1 .. size : 1 \in 1 .. i /\ b[1] = front
    BY <1>1, <2>3
  <2>5. \A i \in 1 .. size : ~ (\A m \in 1 .. i : b[m] # front)
    BY <2>4
  <2>6. PrevBeforeTodel'
    BY <1>5, <2>2 DEF PrevBeforeTodel
  <2>7. /\ todel' \in Linked'
        /\ \A i \in 1 .. size' :
             (\A m \in 1 .. i : Chain'[m] # todel') => data'[Chain'[i]] # key'
    BY <1>5, <2>1, <2>3, <2>5 DEF b
  <2> QED BY <1>5, <2>1, <2>2, <2>6, <2>7
<1> QED BY <1>3, <1>4, <1>5 DEF StartDelete

LEMMA DeleteInv ==
  ASSUME CInv, NEW k \in Keys, Delete(k)
  PROVE  CInv' /\ (Abstract!Next \/ UNCHANGED Contents)
<1>1. MemInv /\ ListTypeOK
  BY DEF CInv, MemInv
<1>2. op = "none" /\ walk = "none" /\ StartDelete(k) /\ UNCHANGED walkVars
  BY DEF Delete, Idle
<1>3. /\ MemNext /\ op' \in {"none", "delete"} /\ PrevBeforeTodel'
      /\ data' = data /\ next' = next /\ alive' \subseteq Nodes
      /\ {front', end', prev', todel'} \subseteq Nodes \cup {Null, prev, todel}
      /\ key' \in {key, k}
      /\ op' = "delete" =>
           /\ todel' \in Linked'
           /\ \A i \in 1 .. size' :
                (\A m \in 1 .. i : Chain'[m] # todel') => data'[Chain'[i]] # key'
  BY <1>1, <1>2, StartDeleteIs
<1>4. ListTypeOK'
  BY <1>1, <1>2, <1>3 DEF ListTypeOK, MemNext, walkVars
<1>5. LoopInv' /\ WalkInv'
  BY <1>2, <1>3 DEF LoopInv, WalkInv, walkVars
<1>6. Abstract!Next \/ UNCHANGED Contents
  <2>1. CASE UNCHANGED <<memory, head, loopVars>>
    BY <2>1, <1>1, <1>2, StayInside DEF loopVars
  <2>2. CASE size = 1 /\ data[front] = k /\ EmptyList /\ UNCHANGED loopVars
    <3>1. Contents' = <<>> /\ front = Chain[1]
      BY <2>2, <1>1, <1>2, EmptyListChain
    <3>2. Contents \in Seq(Keys) /\ Len(Contents) = 1 /\ Contents[1] = k
      BY <2>2, <3>1, <1>1, <1>2, ContentsNow
    <3>3. RemoveFirst(Contents, k) = Cut(Contents, 1)
      BY <3>2, CutFirst
    <3>4. Cut(Contents, 1) = <<>>
      BY <3>2 DEF Cut
    <3>5. Abstract!DeleteFirst(k)
      BY <3>1, <3>3, <3>4, SameRemoveFirst DEF Abstract!DeleteFirst
    <3> QED BY <3>5 DEF Abstract!Next
  <2>3. CASE op' = "delete" /\ UNCHANGED <<memory, head>>
    BY <2>3, <1>1, <1>2, StayInside
  <2> QED BY <2>1, <2>2, <2>3, <1>1, <1>2, StartDeleteIs
<1> QED BY <1>3, <1>4, <1>5, <1>6 DEF CInv, MemNext

\* A step inside delete that looks at the next node.
LEMMA DeleteSkipLoop ==
  ASSUME CInv, DeleteSkip
  PROVE  /\ ListTypeOK' /\ MemNext /\ PrevBeforeTodel' /\ LoopInv'
         /\ Chain' = Chain /\ At' = At /\ UNCHANGED Contents
<1>1. MemInv /\ ListTypeOK /\ LoopInv
  BY DEF CInv, MemInv
<1>2. /\ op = "delete" /\ op' = "delete" /\ todel # Null /\ data[todel] # key
      /\ prev' = todel /\ todel' = next[todel]
      /\ UNCHANGED <<memory, head, key, walkVars>>
  BY DEF DeleteSkip
<1>3. /\ MemNext /\ Chain' = Chain /\ At' = At /\ Linked' = Linked /\ Contents' = Contents
  BY <1>1, <1>2, StayInside
<1>4. /\ IsChain(Chain, front, next, end) /\ Len(Chain) = size /\ size \in Nat
      /\ Linked = {Chain[i] : i \in 1 .. Len(Chain)}
      /\ alive = {Chain[i] : i \in 1 .. Len(Chain)}
  BY <1>1, <1>2, ChainNow, ContentsNow DEF MemInv
<1>5. PICK j \in 1 .. size : todel = Chain[j]
  BY <1>1, <1>2, <1>4 DEF LoopInv
<1> DEFINE b == Chain
<1> HIDE DEF b
<1>6. todel' = IF j = size THEN Null ELSE b[j + 1]
  BY <1>2, <1>4, <1>5 DEF IsChain, b
<1>7. todel' \in Linked \cup {Null} /\ todel \in alive
  BY <1>4, <1>5, <1>6 DEF b
<1>8. ListTypeOK'
  <2>1. todel \in Nodes /\ todel' \in Nodes \cup {Null}
    BY <1>1, <1>2, <1>4, <1>5 DEF ListTypeOK, IsChain
  <2> QED BY <1>1, <1>2, <1>3, <2>1 DEF ListTypeOK, MemNext, memory, head, walkVars
<1>9. PrevBeforeTodel'
  <2>1. prev' \in alive' /\ next'[prev'] = todel'
    BY <1>2, <1>7 DEF memory
  <2> QED BY <2>1 DEF PrevBeforeTodel
<1>10. LoopInv'
  <2>1. \A i \in 1 .. size : (\A m \in 1 .. i : b[m] # todel') => data[b[i]] # key
    <3> SUFFICES ASSUME NEW i \in 1 .. size, \A m \in 1 .. i : b[m] # todel'
                 PROVE  data[b[i]] # key
      OBVIOUS
    <3>1. i <= j
      <4>1. i > j => j + 1 \in 1 .. i /\ j # size
        BY <1>4
      <4> QED BY <1>6, <4>1, <1>4
    <3>2. CASE i = j
      BY <3>2, <1>2, <1>5 DEF b
    <3>3. CASE i # j
      <4>1. \A m \in 1 .. i : b[m] # b[j]
        BY <3>1, <3>3, <1>4 DEF IsChain, b
      <4> QED BY <4>1, <1>1, <1>2, <1>5 DEF LoopInv, b
    <3> QED BY <3>2, <3>3
  <2>2. size' = size /\ data' = data /\ walk' = walk
    BY <1>2 DEF head, memory, walkVars
  <2> QED BY <1>2, <1>3, <1>7, <2>1, <2>2 DEF LoopInv, b
<1> QED BY <1>3, <1>8, <1>9, <1>10

\* A step of delete that takes out a node.
LEMMA DeleteMatchLoop ==
  ASSUME CInv, DeleteMatch
  PROVE  /\ ListTypeOK' /\ MemNext /\ PrevBeforeTodel' /\ LoopInv' /\ Abstract!Next
<1>1. MemInv /\ ListTypeOK /\ LoopInv /\ PrevBeforeTodel
  BY DEF CInv, MemInv
<1>2. PICK j \in 1 .. size :
        /\ todel = Chain[j] /\ Contents[j] = key
        /\ MemNext /\ size' = size - 1
        /\ Chain' = Cut(Chain, j) /\ Contents' = Cut(Contents, j)
        /\ \A i \in 0 .. size - 1 :
             (At')[i] = IF i = size - 1 THEN Null ELSE Cut(Chain, j)[i + 1]
        /\ todel' = (At')[j - 1]
  BY <1>1, DeleteMatchChain
<1>3. /\ op = "delete" /\ op' = "delete" /\ data[todel] = key /\ Unlink
      /\ UNCHANGED <<data, key, prev, walkVars>> /\ alive' = alive \ {todel}
      /\ todel' = next[todel]
  BY DEF DeleteMatch, Free
<1>4. /\ IsChain(Chain, front, next, end) /\ Len(Chain) = size /\ size \in Nat
      /\ Linked = {Chain[i] : i \in 1 .. Len(Chain)}
      /\ Contents \in Seq(Keys) /\ Len(Contents) = size
      /\ \A i \in 1 .. size : Contents[i] = data[Chain[i]]
  BY <1>1, <1>3, ChainNow, ContentsNow DEF MemInv
<1> DEFINE b == Chain
           c == Cut(b, j)
<1> HIDE DEF b
<1>5. b \in Seq(Nodes) /\ j \in 1 .. Len(b) /\ Len(b) = size
  BY <1>4 DEF IsChain, b
<1>6. /\ c \in Seq(Nodes) /\ Len(c) = size - 1
      /\ \A i \in 1 .. size - 1 : c[i] = IF i < j THEN b[i] ELSE b[i + 1]
  BY <1>5, CutIs
<1> HIDE DEF c
<1>7. /\ todel = b[j] /\ Chain' = c /\ todel' = IF j = size THEN Null ELSE c[j]
      /\ Linked' = {c[i] : i \in 1 .. size - 1}
  <2>1. Chain' = c /\ todel = b[j]
    BY <1>2 DEF b, c
  <2>2. todel' = IF j - 1 = size - 1 THEN Null ELSE c[j - 1 + 1]
    BY <1>2, <1>4 DEF b, c
  <2>3. Linked' = {c[i] : i \in 1 .. size'}
    BY <2>1 DEF Linked
  <2> QED BY <2>1, <2>2, <2>3, <1>2, <1>4
<1>8. todel' \in Linked' \cup {Null}
  BY <1>4, <1>7
<1>9. ListTypeOK'
  <2>1. todel \in Nodes /\ todel' \in Nodes \cup {Null}
    BY <1>1, <1>3, <1>5, <1>7 DEF ListTypeOK
  <2>2. /\ next' \in [Nodes -> Nodes \cup {Null}]
        /\ {front', end'} \subseteq Nodes \cup {Null}
    BY <1>1, <1>3, <2>1 DEF Unlink, ListTypeOK
  <2> QED BY <1>1, <1>2, <1>3, <2>1, <2>2 DEF ListTypeOK, MemNext, walkVars
<1>10. PrevBeforeTodel'
  <2> SUFFICES ASSUME todel' # Null, todel' # front'
               PROVE  prev' \in alive' /\ next'[prev'] = todel'
    BY DEF PrevBeforeTodel
  <2>1. j # size /\ j # 1
    <3>1. j = 1 => front' = next[b[1]]
      BY <1>1, <1>2, <1>3, UnlinkIs DEF b
    <3> QED BY <3>1, <1>3, <1>7
  <2>2. prev = b[j - 1]
    BY <2>1, <1>1, <1>2, <1>3, PrevIs DEF b
  <2>3. next'[b[j - 1]] = next[b[j]]
    <3>1. \A i \in 1 .. size : i # j =>
            next'[b[i]] = IF i = j - 1 THEN next[b[j]] ELSE next[b[i]]
      BY <1>1, <1>2, <1>3, UnlinkIs DEF b
    <3>2. j - 1 \in 1 .. size /\ j - 1 # j
      BY <2>1, <1>4
    <3> QED BY <3>1, <3>2
  <2>4. prev \in alive'
    <3>1. alive = {b[i] : i \in 1 .. size}
      BY <1>1, <1>3, <1>4, ContentsNow DEF b
    <3>2. j - 1 \in 1 .. size /\ b[j - 1] # b[j]
      BY <2>1, <1>4 DEF IsChain, b
    <3> QED BY <2>2, <3>1, <3>2, <1>3, <1>7
  <2> QED BY <2>2, <2>3, <2>4, <1>3, <1>7
<1>11. \A i \in 1 .. size : i < j => data[b[i]] # key
  <2> TAKE i \in 1 .. size
  <2> SUFFICES ASSUME i < j PROVE data[b[i]] # key
    OBVIOUS
  <2>1. \A m \in 1 .. i : b[m] # b[j]
    BY <1>4 DEF IsChain, b
  <2> QED BY <2>1, <1>1, <1>3, <1>7 DEF LoopInv, b
<1>12. LoopInv'
  <2>1. \A i \in 1 .. size - 1 : (\A m \in 1 .. i : c[m] # todel') => data[c[i]] # key
    <3> SUFFICES ASSUME NEW i \in 1 .. size - 1, \A m \in 1 .. i : c[m] # todel'
                 PROVE  data[c[i]] # key
      OBVIOUS
    <3>1. i < j
      <4>1. i >= j => j \in 1 .. i /\ j # size
        BY <1>4
      <4> QED BY <4>1, <1>4, <1>7
    <3> QED BY <3>1, <1>4, <1>6, <1>11
  <2>2. op' = "delete" =>
          \A i \in 1 .. size' : (\A m \in 1 .. i : Chain'[m] # todel') => data'[Chain'[i]] # key'
    BY <1>2, <1>3, <1>7, <2>1
  <2> QED BY <1>3, <1>8, <2>2 DEF LoopInv
<1>13. Abstract!Next
  <2>1. \A i \in 1 .. Len(Contents) : i < j => Contents[i] # key
    BY <1>4, <1>11 DEF b
  <2>2. j \in 1 .. Len(Contents) /\ Contents[j] = key
    BY <1>2, <1>4
  <2>3. RemoveFirst(Contents, key) = Cut(Contents, j)
    BY <1>4, <2>1, <2>2, CutFirst
  <2>4. key \in Keys
    BY <1>4, <2>2
  <2>5. Abstract!DeleteFirst(key)
    BY <1>2, <2>3, SameRemoveFirst DEF Abstract!DeleteFirst
  <2> QED BY <2>4, <2>5 DEF Abstract!Next
<1> QED BY <1>2, <1>9, <1>10, <1>12, <1>13

LEMMA DeleteEndLoop ==
  ASSUME CInv, DeleteEnd
  PROVE  /\ ListTypeOK' /\ MemNext /\ PrevBeforeTodel' /\ LoopInv'
         /\ Chain' = Chain /\ At' = At /\ UNCHANGED Contents
<1>1. MemInv /\ ListTypeOK
  BY DEF CInv, MemInv
<1>2. /\ op = "delete" /\ todel = Null
      /\ op' = "none" /\ key' = Null /\ prev' = Null /\ todel' = Null
      /\ UNCHANGED <<memory, head, walkVars>>
  BY DEF DeleteEnd, Return
<1>3. MemNext /\ Chain' = Chain /\ At' = At /\ Contents' = Contents
  BY <1>1, <1>2, StayInside
<1>4. ListTypeOK'
  BY <1>1, <1>2, <1>3 DEF ListTypeOK, MemNext, memory, head, walkVars
<1> QED BY <1>2, <1>3, <1>4 DEF PrevBeforeTodel, LoopInv

LEMMA PopBackInv ==
  ASSUME CInv, PopBack
  PROVE  CInv' /\ (Abstract!Next \/ UNCHANGED Contents)
<1>1. MemInv /\ ListTypeOK
  BY DEF CInv, MemInv
<1>2. op = "none" /\ walk = "none" /\ UNCHANGED walkVars
  BY DEF PopBack, Idle
<1>3. /\ IsChain(Chain, front, next, end) /\ Len(Chain) = size /\ size \in Nat
      /\ Linked = {Chain[i] : i \in 1 .. Len(Chain)}
  BY <1>1, ChainNow DEF MemInv
<1>4. WalkInv'
  BY <1>2 DEF WalkInv, walkVars
<1>5. CASE size < 1 /\ UNCHANGED <<memory, head, loopVars>>
  <2>1. MemNext /\ Contents' = Contents
    BY <1>1, <1>2, <1>5, StayInside DEF loopVars
  <2>2. ListTypeOK' /\ PrevBeforeTodel' /\ LoopInv'
    BY <1>1, <1>2, <1>5
    DEF ListTypeOK, PrevBeforeTodel, LoopInv, memory, head, loopVars, walkVars
  <2> QED BY <1>4, <2>1, <2>2 DEF CInv, MemNext
<1>6. CASE size = 1 /\ EmptyList /\ UNCHANGED loopVars
  <2>1. MemNext /\ Contents' = <<>>
    BY <1>1, <1>2, <1>6, EmptyListChain
  <2>2. /\ UNCHANGED <<data, next, loopVars>> /\ alive' \subseteq Nodes
        /\ front' = Null /\ end' = Null
    BY <1>1, <1>6 DEF EmptyList, Free, ListTypeOK
  <2>3. ListTypeOK'
    BY <1>1, <1>2, <2>1, <2>2 DEF ListTypeOK, MemNext, loopVars, walkVars
  <2>4. PrevBeforeTodel' /\ LoopInv'
    BY <1>2, <2>2 DEF PrevBeforeTodel, LoopInv, loopVars
  <2>5. Contents \in Seq(Keys) /\ Len(Contents) = 1
    BY <1>1, <1>2, <1>6, ContentsNow
  <2>6. Front(Contents) = <<>> /\ Contents # <<>>
    <3>1. Front(Contents) = Cut(Contents, Len(Contents))
      <4>1. Len(Contents) > 0
        BY <2>5
      <4> QED BY <2>5, <4>1, CutLast
    <3>2. Cut(Contents, 1) = <<>>
      BY <2>5 DEF Cut
    <3> QED BY <2>5, <3>1, <3>2
  <2>7. Abstract!RemoveLast
    BY <2>1, <2>6, SameFront DEF Abstract!RemoveLast
  <2> QED BY <1>4, <2>1, <2>3, <2>4, <2>7 DEF CInv, MemNext, Abstract!Next
<1>7. CASE /\ size > 1
           /\ op' = "pop" /\ prev' = front /\ todel' = front
           /\ UNCHANGED <<memory, head, key>>
  <2>1. MemNext /\ Contents' = Contents /\ Linked' = Linked
    BY <1>1, <1>2, <1>7, StayInside
  <2>2. ListTypeOK'
    BY <1>1, <1>2, <1>7 DEF ListTypeOK, memory, head, walkVars
  <2>3. front' = front /\ size' = size
    BY <1>7 DEF head
  <2>4. PrevBeforeTodel'
    BY <1>7, <2>3 DEF PrevBeforeTodel
  <2>5. front \in Linked /\ front # Null
    <3> HIDE DEF Chain
    <3> QED BY <1>3, <1>7, ListAssumption DEF IsChain
  <2>6. LoopInv'
    BY <1>2, <1>7, <2>1, <2>3, <2>5 DEF LoopInv, walkVars
  <2> QED BY <1>4, <2>1, <2>2, <2>4, <2>6 DEF CInv, MemNext
<1> QED BY <1>5, <1>6, <1>7 DEF PopBack

LEMMA PopSkipInv ==
  ASSUME CInv, PopSkip
  PROVE  CInv' /\ UNCHANGED Contents
<1>1. MemInv /\ ListTypeOK /\ LoopInv
  BY DEF CInv, MemInv
<1>2. /\ op = "pop" /\ op' = "pop" /\ todel # end /\ prev' = todel /\ todel' = next[todel]
      /\ UNCHANGED <<memory, head, key, walkVars>>
  BY DEF PopSkip
<1>3. /\ IsChain(Chain, front, next, end) /\ Len(Chain) = size /\ size \in Nat
      /\ Linked = {Chain[i] : i \in 1 .. Len(Chain)}
      /\ alive = {Chain[i] : i \in 1 .. Len(Chain)}
  BY <1>1, <1>2, ChainNow, ContentsNow DEF MemInv
<1>4. size > 1 /\ walk = "none" /\ todel \in Linked
  BY <1>1, <1>2 DEF LoopInv
<1>5. PICK j \in 1 .. size : todel = Chain[j]
  BY <1>3, <1>4
<1>6. MemNext /\ Contents' = Contents /\ Linked' = Linked
  BY <1>1, <1>2, StayInside
<1> HIDE DEF Chain
<1>7. j # size /\ todel' = Chain[j + 1] /\ j + 1 \in 1 .. size
  BY <1>2, <1>3, <1>5 DEF IsChain
<1>8. todel' \in Linked /\ todel \in alive /\ todel' \in Nodes
  BY <1>3, <1>5, <1>7 DEF IsChain
<1>9. ListTypeOK'
  BY <1>1, <1>2, <1>8 DEF ListTypeOK, memory, head, walkVars
<1>10. PrevBeforeTodel'
  BY <1>2, <1>8 DEF PrevBeforeTodel, memory
<1>11. LoopInv'
  <2>1. todel' # Null /\ size' > 1 /\ walk' = "none"
    BY <1>2, <1>4, <1>8, ListAssumption DEF head, walkVars
  <2> QED BY <1>2, <1>6, <1>8, <2>1 DEF LoopInv
<1>12. WalkInv'
  BY <1>2, <1>4 DEF WalkInv, walkVars
<1> QED BY <1>6, <1>9, <1>10, <1>11, <1>12 DEF CInv, MemNext

LEMMA PopEndInv ==
  ASSUME CInv, PopEnd
  PROVE  CInv' /\ Abstract!Next
<1>1. MemInv /\ ListTypeOK /\ LoopInv /\ PrevBeforeTodel
  BY DEF CInv, MemInv
<1>2. /\ op = "pop" /\ op' = "none" /\ key' = Null /\ prev' = Null /\ todel' = Null
      /\ end' = prev /\ next' = [next EXCEPT ![prev] = Null] /\ alive' = alive \ {todel}
      /\ UNCHANGED <<data, front, walkVars>>
  BY DEF PopEnd, Return, Free
<1>3. MemNext /\ size > 1 /\ Contents' = Cut(Contents, size)
  BY <1>1, PopEndChain
<1>4. ListTypeOK'
  <2>1. next' \in [Nodes -> Nodes \cup {Null}] /\ end' \in Nodes \cup {Null}
    BY <1>1, <1>2 DEF ListTypeOK
  <2> QED BY <1>1, <1>2, <1>3, <2>1 DEF ListTypeOK, MemNext, walkVars
<1>5. walk' = "none"
  BY <1>1, <1>2 DEF LoopInv, walkVars
<1>6. PrevBeforeTodel' /\ LoopInv' /\ WalkInv'
  BY <1>2, <1>5 DEF PrevBeforeTodel, LoopInv, WalkInv
<1>7. Contents \in Seq(Keys) /\ Len(Contents) = size
  BY <1>1, <1>2, ContentsNow
<1>8. Front(Contents) = Cut(Contents, size) /\ Contents # <<>>
  BY <1>3, <1>7, CutLast
<1>9. Abstract!RemoveLast
  BY <1>3, <1>8, SameFront DEF Abstract!RemoveLast
<1> QED BY <1>3, <1>4, <1>6, <1>9 DEF CInv, MemNext, Abstract!Next

LEMMA DestroyInv ==
  ASSUME CInv, Destroy
  PROVE  CInv' /\ Abstract!Next
<1>1. MemInv /\ ListTypeOK
  BY DEF CInv, MemInv
<1>2. /\ op = "none" /\ walk = "none" /\ op' = "destroy" /\ todel' = front
      /\ UNCHANGED <<memory, head, key, prev, walkVars>>
  BY DEF Destroy, Idle
<1>3. MemNext /\ Contents' = <<>> /\ todel' \in Linked' \cup {Null}
  BY <1>1, DestroyChain
<1>4. ListTypeOK'
  BY <1>1, <1>2 DEF ListTypeOK, memory, head, walkVars
<1>5. PrevBeforeTodel' /\ LoopInv' /\ WalkInv'
  BY <1>2, <1>3 DEF PrevBeforeTodel, LoopInv, WalkInv, walkVars
<1> QED BY <1>3, <1>4, <1>5 DEF CInv, MemNext, Abstract!Next, Abstract!Clear

LEMMA DestroyNodeInv ==
  ASSUME CInv, DestroyNode
  PROVE  CInv' /\ UNCHANGED Contents
<1>1. MemInv /\ ListTypeOK /\ LoopInv
  BY DEF CInv, MemInv
<1>2. /\ op = "destroy" /\ op' = "destroy" /\ todel # Null /\ todel' = next[todel]
      /\ alive' = alive \ {todel}
      /\ UNCHANGED <<data, next, head, key, prev, walkVars>>
  BY DEF DestroyNode, Free
<1>3. MemNext /\ Contents' = <<>> /\ todel' \in Linked' \cup {Null}
  BY <1>1, DestroyNodeChain
<1>4. walk = "none" /\ todel \in Linked
  BY <1>1, <1>2 DEF LoopInv
<1>5. ListTypeOK'
  <2>1. todel \in Nodes
    BY <1>4 DEF CInv, DataInv
  <2> QED BY <1>1, <1>2, <2>1 DEF ListTypeOK, head, walkVars
<1>6. PrevBeforeTodel' /\ LoopInv' /\ WalkInv'
  BY <1>2, <1>3, <1>4 DEF PrevBeforeTodel, LoopInv, WalkInv, walkVars
<1>7. Contents = <<>>
  BY <1>2 DEF Contents
<1> QED BY <1>3, <1>5, <1>6, <1>7 DEF CInv, MemNext

LEMMA DestroyEndInv ==
  ASSUME CInv, DestroyEnd
  PROVE  CInv' /\ UNCHANGED Contents
<1>1. MemInv /\ ListTypeOK /\ LoopInv
  BY DEF CInv, MemInv
<1>2. /\ op = "destroy" /\ op' = "none" /\ key' = Null /\ prev' = Null /\ todel' = Null
      /\ front' = Null /\ end' = Null /\ size' = 0
      /\ UNCHANGED <<memory, walkVars>>
  BY DEF DestroyEnd, Return
<1>3. MemNext /\ Contents' = <<>>
  BY <1>1, DestroyEndChain
<1>4. walk = "none"
  BY <1>1, <1>2 DEF LoopInv
<1>5. ListTypeOK'
  BY <1>1, <1>2, <1>3 DEF ListTypeOK, MemNext, memory, walkVars
<1>6. PrevBeforeTodel' /\ LoopInv' /\ WalkInv'
  BY <1>2, <1>4 DEF PrevBeforeTodel, LoopInv, WalkInv, walkVars
<1>7. Contents = <<>>
  BY <1>2 DEF Contents
<1> QED BY <1>3, <1>5, <1>6, <1>7 DEF CInv, MemNext

-------------------------------------------------------------------------------
(* The walk *)

\* What stays of the first n elements, one element after the other.
LEMMA KeptIs ==
  ASSUME ListTypeOK
  PROVE  /\ Kept(0) = <<>>
         /\ \A n \in 0 .. Len(before) : Kept(n) \in Seq(Keys) /\ Len(Kept(n)) <= n
         /\ \A n \in 1 .. Len(before) :
              Kept(n) = IF before[n] \in wanted THEN Kept(n - 1) ELSE Append(Kept(n - 1), before[n])
<1>1. before \in Seq(Keys) /\ Len(before) \in Nat
  BY DEF ListTypeOK
<1>2. /\ Picked(before, Unwanted)[0] = <<>>
      /\ \A n \in 1 .. Len(before) :
           Picked(before, Unwanted)[n] =
             IF n \in Unwanted THEN Append(Picked(before, Unwanted)[n - 1], before[n])
             ELSE Picked(before, Unwanted)[n - 1]
  BY <1>1, PickedIs
<1>3. \A n \in 0 .. Len(before) :
        /\ Picked(before, Unwanted)[n] \in Seq(Keys)
        /\ Len(Picked(before, Unwanted)[n]) <= n
  BY <1>1, PickedType
<1>4. \A n \in 1 .. Len(before) : n \in Unwanted <=> before[n] \notin wanted
  BY <1>1 DEF Unwanted
<1> QED BY <1>2, <1>3, <1>4 DEF Kept

LEMMA TakenIs ==
  ASSUME ListTypeOK
  PROVE  /\ Picked(before, Wanted)[0] = <<>>
         /\ \A n \in 1 .. Len(before) :
              Picked(before, Wanted)[n] =
                IF before[n] \in wanted THEN Append(Picked(before, Wanted)[n - 1], before[n])
                ELSE Picked(before, Wanted)[n - 1]
<1>1. before \in Seq(Keys) /\ Len(before) \in Nat
  BY DEF ListTypeOK
<1>2. /\ Picked(before, Wanted)[0] = <<>>
      /\ \A n \in 1 .. Len(before) :
           Picked(before, Wanted)[n] =
             IF n \in Wanted THEN Append(Picked(before, Wanted)[n - 1], before[n])
             ELSE Picked(before, Wanted)[n - 1]
  BY <1>1, PickedIs
<1>3. \A n \in 1 .. Len(before) : n \in Wanted <=> before[n] \in wanted
  BY <1>1 DEF Wanted
<1> QED BY <1>2, <1>3

\* None of those that stay is wanted.
LEMMA KeptUnwanted ==
  ASSUME ListTypeOK, NEW n \in 0 .. Len(before), NEW i \in 1 .. Len(Kept(n))
  PROVE  Kept(n)[i] \notin wanted
<1>1. before \in Seq(Keys)
  BY DEF ListTypeOK
<1>2. \E m \in 1 .. n : m \in Unwanted /\ Kept(n)[i] = before[m]
  BY <1>1, PickedFrom DEF Kept
<1> QED BY <1>2 DEF Unwanted

LEMMA RestIs ==
  ASSUME ListTypeOK
  PROVE  \A n \in 0 .. Len(before) :
           /\ Rest(n) \in Seq(Keys) /\ Len(Rest(n)) = Len(before) - n
           /\ \A i \in 1 .. Len(before) - n : Rest(n)[i] = before[n + i]
<1>1. before \in Seq(Keys) /\ Len(before) \in Nat
  BY DEF ListTypeOK
<1> QED BY <1>1 DEF Rest

\* The contents while the elements from the n-th on are still there.
LEMMA AheadIs ==
  ASSUME MemInv, op # "destroy", NEW n \in 1 .. Len(before), Contents = Kept(n - 1) \o Rest(n - 1)
  PROVE  /\ size = Len(Kept(n - 1)) + Len(before) - n + 1
         /\ Contents[Len(Kept(n - 1)) + 1] = before[n]
         /\ Following(n - 1) = Chain[Len(Kept(n - 1)) + 1]
         /\ next[Following(n - 1)] = At[Len(Kept(n - 1)) + 1]
<1> DEFINE k == Kept(n - 1)
           r == Rest(n - 1)
<1>1. ListTypeOK /\ n - 1 \in 0 .. Len(before) /\ Len(before) \in Nat
  BY DEF MemInv, ListTypeOK
<1>2. /\ k \in Seq(Keys) /\ r \in Seq(Keys) /\ Len(r) = Len(before) - n + 1
      /\ \A i \in 1 .. Len(r) : r[i] = before[n - 1 + i]
  <2>1. Len(r) = Len(before) - (n - 1) /\ r \in Seq(Keys) /\ k \in Seq(Keys)
    BY <1>1, KeptIs, RestIs
  <2>2. \A i \in 1 .. Len(before) - (n - 1) : r[i] = before[n - 1 + i]
    BY <1>1, RestIs
  <2> QED BY <1>1, <2>1, <2>2
<1>3. Len(Contents) = size /\ Contents = k \o r
  BY ContentsNow
<1> HIDE DEF k, r
<1>4. size = Len(k) + Len(r) /\ 1 \in 1 .. Len(r) /\ r[1] = before[n]
  BY <1>1, <1>2, <1>3
<1>5. Contents[Len(k) + 1] = before[n]
  <2>1. \A i \in 1 .. Len(r) : (k \o r)[Len(k) + i] = r[i]
    BY <1>2, Concat
  <2>2. (k \o r)[Len(k) + 1] = r[1]
    BY <1>4, <2>1
  <2> QED BY <1>3, <1>4, <2>2
<1>6. /\ IsChain(Chain, front, next, end) /\ Len(Chain) = size /\ size \in Nat
      /\ \A i \in 0 .. size : At[i] = IF i = size THEN Null ELSE Chain[i + 1]
  BY ChainNow DEF MemInv
<1>7. Len(k) \in 0 .. size /\ Len(k) # size /\ Len(k) + 1 \in 1 .. size
  BY <1>1, <1>2, <1>4
<1> HIDE DEF Chain, At
<1>8. At[Len(k)] = Chain[Len(k) + 1] /\ next[Chain[Len(k) + 1]] = At[Len(k) + 1]
  <2>1. next[Chain[Len(k) + 1]] = IF Len(k) + 1 = size THEN Null ELSE Chain[Len(k) + 1 + 1]
    BY <1>6, <1>7 DEF IsChain
  <2>2. At[Len(k) + 1] = IF Len(k) + 1 = size THEN Null ELSE Chain[Len(k) + 1 + 1]
    BY <1>6, <1>7
  <2> QED BY <1>6, <1>7, <2>1, <2>2
<1>9. Following(n - 1) = At[Len(k)]
  BY DEF Following, k
<1>10. size = Len(k) + Len(before) - n + 1
  BY <1>2, <1>4
<1>11. Following(n - 1) = Chain[Len(k) + 1] /\ next[Following(n - 1)] = At[Len(k) + 1]
  BY <1>8, <1>9
<1> QED BY <1>5, <1>10, <1>11 DEF k

\* The walk's notions after a step that leaves the walk's list and choice alone.
LEMMA WalkNext ==
  ASSUME NEW n, UNCHANGED <<wanted, before>>
  PROVE  /\ Passed(n)' <=> Contents' = Kept(n) \o Rest(n)
         /\ Following(n)' = (At')[Len(Kept(n))]
         /\ Wanted' = Wanted
         /\ Pending(n)' <=>
              /\ op' = "delete" /\ n \in Wanted /\ key' = before[n]
              /\ Contents' = Kept(n) \o Rest(n - 1)
              /\ cur' = (At')[Len(Kept(n))]
              /\ \E j \in 0 .. Len(Kept(n)) : todel' = (At')[j]
<1>1. /\ Kept(n)' = Kept(n) /\ Rest(n)' = Rest(n) /\ Rest(n - 1)' = Rest(n - 1)
      /\ Wanted' = Wanted
  BY DEF Kept, Rest, Unwanted, Wanted
<1>2. (Passed(n)' <=> Contents' = Kept(n) \o Rest(n))
      /\ Following(n)' = (At')[Len(Kept(n))]
  BY <1>1 DEF Passed, Following
<1>3. Pending(n)' <=>
        /\ op' = "delete" /\ n \in Wanted /\ key' = before[n]
        /\ Contents' = Kept(n) \o Rest(n - 1)
        /\ cur' = (At')[Len(Kept(n))]
        /\ \E j \in 0 .. Len(Kept(n)) : todel' = (At')[j]
  BY <1>1, <1>2 DEF Pending
<1> QED BY <1>1, <1>2, <1>3

\* The invariant of the walk while delete runs in it.
LEMMA WalkInside ==
  ASSUME WalkInv, op' \in {"none", "delete"}, UNCHANGED walkVars,
         walk = "step" => \E n \in 1 .. Len(before) :
           /\ taken = Picked(before, Wanted)[n]
           /\ cur # Null
           /\ \/ /\ Contents' = Kept(n) \o Rest(n)
                 /\ next'[cur] = (At')[Len(Kept(n))]
                 /\ op' = "delete" => \A i \in 1 .. size' : Contents'[i] # key'
              \/ Pending(n)',
         walk # "visit"
  PROVE  WalkInv'
<1>1. /\ walk' = walk /\ taken' = taken /\ cur' = cur /\ before' = before
      /\ UNCHANGED <<wanted, before>>
  BY DEF walkVars
<1>2. \A i, j \in DOMAIN before' : walk' # "none" /\ before'[i] = before'[j] => i = j
  BY <1>1 DEF WalkInv
<1>3. ASSUME walk' = "step"
      PROVE  \E n \in 1 .. Len(before') :
               /\ taken' = Picked(before', Wanted')[n]
               /\ cur' # Null
               /\ \/ /\ Passed(n)'
                     /\ next'[cur'] = Following(n)'
                     /\ op' = "delete" => \A i \in 1 .. size' : Contents'[i] # key'
                  \/ Pending(n)'
  <2>1. PICK n \in 1 .. Len(before) :
           /\ taken = Picked(before, Wanted)[n]
           /\ cur # Null
           /\ \/ /\ Contents' = Kept(n) \o Rest(n)
                 /\ next'[cur] = (At')[Len(Kept(n))]
                 /\ op' = "delete" => \A i \in 1 .. size' : Contents'[i] # key'
              \/ Pending(n)'
    BY <1>1, <1>3
  <2>2. /\ Passed(n)' <=> Contents' = Kept(n) \o Rest(n)
        /\ Following(n)' = (At')[Len(Kept(n))]
        /\ Wanted' = Wanted
    BY <1>1, WalkNext
  <2>3. taken' = Picked(before', Wanted')[n] /\ n \in 1 .. Len(before') /\ cur' # Null
    BY <1>1, <2>1, <2>2
  <2>4. \/ /\ Passed(n)'
           /\ next'[cur'] = Following(n)'
           /\ op' = "delete" => \A i \in 1 .. size' : Contents'[i] # key'
        \/ Pending(n)'
    BY <1>1, <2>1, <2>2
  <2> QED BY <2>3, <2>4
<1> QED BY <1>1, <1>2, <1>3 DEF WalkInv

LEMMA DeleteSkipInv ==
  ASSUME CInv, DeleteSkip
  PROVE  CInv' /\ UNCHANGED Contents
<1>1. MemInv /\ ListTypeOK /\ WalkInv
  BY DEF CInv, MemInv
<1>2. /\ op = "delete" /\ op' = "delete" /\ data[todel] # key /\ todel' = next[todel]
      /\ UNCHANGED <<memory, head, key, walkVars>>
  BY DEF DeleteSkip
<1>3. /\ ListTypeOK' /\ MemNext /\ PrevBeforeTodel' /\ LoopInv'
      /\ At' = At /\ Contents' = Contents
  BY DeleteSkipLoop
<1>4. WalkInv'
  <2>1. walk # "visit"
    BY <1>1, <1>2 DEF WalkInv
  <2>2. ASSUME walk = "step"
        PROVE  \E n \in 1 .. Len(before) :
           /\ taken = Picked(before, Wanted)[n]
           /\ cur # Null
           /\ \/ /\ Contents' = Kept(n) \o Rest(n)
                 /\ next'[cur] = (At')[Len(Kept(n))]
                 /\ op' = "delete" => \A i \in 1 .. size' : Contents'[i] # key'
              \/ Pending(n)'
    <3>1. PICK n \in 1 .. Len(before) :
            /\ taken = Picked(before, Wanted)[n]
            /\ cur # Null
            /\ \/ /\ Passed(n)
                  /\ next[cur] = Following(n)
                  /\ op = "delete" => \A i \in 1 .. size : Contents[i] # key
               \/ Pending(n)
      BY <1>1, <1>2, <2>2 DEF WalkInv
    <3>2. next' = next /\ size' = size /\ key' = key /\ UNCHANGED <<wanted, before, cur>>
      BY <1>2 DEF memory, head, walkVars
    <3>3. CASE /\ Passed(n)
               /\ next[cur] = Following(n)
               /\ op = "delete" => \A i \in 1 .. size : Contents[i] # key
      BY <3>1, <3>2, <3>3, <1>2, <1>3 DEF Passed, Following
    <3>4. CASE Pending(n)
      <4> DEFINE k == Kept(n)
      <4>1. PICK j \in 0 .. Len(k) : todel = At[j]
        BY <3>4 DEF Pending
      <4>2. /\ n \in Wanted /\ key = before[n] /\ Contents = Kept(n) \o Rest(n - 1)
            /\ cur = At[Len(k)]
        BY <3>4 DEF Pending, Following
      <4>3. Kept(n) = Kept(n - 1)
        <5>1. before[n] \in wanted
          BY <4>2 DEF Wanted
        <5> QED BY <5>1, <1>1, KeptIs
      <4>4. /\ size = Len(k) + Len(before) - n + 1
            /\ Contents[Len(k) + 1] = before[n]
            /\ At[Len(k)] = Chain[Len(k) + 1]
        <5>1. Following(n - 1) = At[Len(Kept(n - 1))]
          BY DEF Following
        <5> QED BY <1>1, <1>2, <4>2, <4>3, <5>1, AheadIs
      <4>5. k \in Seq(Keys) /\ Len(before) \in Nat
        BY <1>1, KeptIs DEF ListTypeOK
      <4> HIDE DEF k
      <4>6. /\ size \in Nat /\ Len(Chain) = size /\ IsChain(Chain, front, next, end)
            /\ \A i \in 0 .. size : At[i] = IF i = size THEN Null ELSE Chain[i + 1]
            /\ \A i \in 1 .. size : Contents[i] = data[Chain[i]]
        BY <1>1, <1>2, ChainNow, ContentsNow DEF MemInv
      <4>7. j # Len(k)
        <5>1. Len(k) + 1 \in 1 .. size
          BY <4>4, <4>5
        <5> QED BY <5>1, <4>1, <4>2, <4>4, <4>6, <1>2
      <4>8. j + 1 \in 0 .. Len(k) /\ j + 1 \in 1 .. size /\ j \in 0 .. size /\ j # size
            /\ j + 1 \in 0 .. size
        BY <4>4, <4>5, <4>7
      <4> HIDE DEF Chain, At
      <4>9. todel = Chain[j + 1]
        BY <4>1, <4>6, <4>8
      <4>10. next[Chain[j + 1]] = IF j + 1 = size THEN Null ELSE Chain[j + 1 + 1]
        BY <4>6, <4>8 DEF IsChain
      <4>11. At[j + 1] = IF j + 1 = size THEN Null ELSE Chain[j + 1 + 1]
        BY <4>6, <4>8
      <4>12. todel' = (At')[j + 1]
        BY <1>2, <1>3, <4>9, <4>10, <4>11
      <4>13. Pending(n)'
        <5>1. \E i \in 0 .. Len(Kept(n)) : todel' = (At')[i]
          BY <4>8, <4>12 DEF k
        <5>2. /\ op' = "delete" /\ key' = before[n] /\ Contents' = Kept(n) \o Rest(n - 1)
              /\ cur' = (At')[Len(Kept(n))]
          BY <1>2, <1>3, <3>2, <4>2 DEF k
        <5> QED BY <3>2, <4>2, <5>1, <5>2, WalkNext
      <4> QED BY <3>1, <4>13
    <3> QED BY <3>1, <3>3, <3>4
  <2> QED BY <1>1, <1>2, <2>1, <2>2, WalkInside
<1> QED BY <1>3, <1>4 DEF CInv, MemNext

\* The first node that is wanted is cut: what is left is what stays and what is ahead.
LEMMA CutMiddle ==
  ASSUME NEW D, NEW a \in Seq(D), NEW b \in Seq(D), NEW c \in Seq(D), Len(b) = Len(c) + 1,
         \A i \in 1 .. Len(c) : c[i] = b[i + 1]
  PROVE  Cut(a \o b, Len(a) + 1) = a \o c
<1> DEFINE s == a \o b
           r == a \o c
           d == Cut(s, Len(a) + 1)
<1>1. /\ s \in Seq(D) /\ Len(s) = Len(a) + Len(b) /\ r \in Seq(D) /\ Len(r) = Len(a) + Len(c)
      /\ \A i \in 1 .. Len(a) : s[i] = a[i] /\ r[i] = a[i]
      /\ \A i \in 1 .. Len(b) : s[Len(a) + i] = b[i]
      /\ \A i \in 1 .. Len(c) : r[Len(a) + i] = c[i]
  <2>1. s \in Seq(D) /\ r \in Seq(D)
    BY Concat
  <2>2. Len(s) = Len(a) + Len(b) /\ Len(r) = Len(a) + Len(c)
    BY Concat
  <2>3. \A i \in 1 .. Len(a) : s[i] = a[i] /\ r[i] = a[i]
    BY Concat
  <2>4. \A i \in 1 .. Len(b) : s[Len(a) + i] = b[i]
    BY Concat
  <2>5. \A i \in 1 .. Len(c) : r[Len(a) + i] = c[i]
    BY Concat
  <2> QED BY <2>1, <2>2, <2>3, <2>4, <2>5
<1> HIDE DEF s, r
<1>2. Len(a) \in Nat /\ Len(c) \in Nat /\ Len(b) \in Nat
  OBVIOUS
<1>3. /\ d \in Seq(D) /\ Len(d) = Len(r)
      /\ \A i \in 1 .. Len(r) : d[i] = IF i < Len(a) + 1 THEN s[i] ELSE s[i + 1]
  <2>1. Len(a) + 1 \in 1 .. Len(s) /\ Len(s) - 1 = Len(r)
    BY <1>1, <1>2
  <2>2. /\ d \in Seq(D) /\ Len(d) = Len(s) - 1
        /\ \A i \in 1 .. Len(s) - 1 : d[i] = IF i < Len(a) + 1 THEN s[i] ELSE s[i + 1]
    BY <1>1, <2>1, CutIs
  <2> QED BY <2>1, <2>2
<1> HIDE DEF d
<1>4. \A i \in 1 .. Len(r) : d[i] = r[i]
  <2> TAKE i \in 1 .. Len(r)
  <2>1. CASE i <= Len(a)
    BY <2>1, <1>1, <1>2, <1>3
  <2>2. CASE i > Len(a)
    <3>1. PICK m \in 1 .. Len(c) : i = Len(a) + m
      <4>1. i - Len(a) \in 1 .. Len(c) /\ i = Len(a) + (i - Len(a))
        BY <2>2, <1>1, <1>2
      <4> QED BY <4>1
    <3>2. r[i] = c[m] /\ c[m] = b[m + 1]
      BY <1>1, <3>1
    <3>3. s[Len(a) + (m + 1)] = b[m + 1] /\ Len(a) + (m + 1) = i + 1
      BY <1>1, <1>2, <3>1
    <3>4. d[i] = s[i + 1]
      BY <2>2, <1>2, <1>3
    <3> QED BY <3>2, <3>3, <3>4
  <2> QED BY <2>1, <2>2, <1>2
<1>5. d = [i \in 1 .. Len(r) |-> d[i]] /\ r = [i \in 1 .. Len(r) |-> r[i]]
  BY <1>1, <1>3
<1>6. d = r
  BY <1>4, <1>5
<1> QED BY <1>6 DEF d, s, r

\* Once the n-th element is deleted it is not in the list.
LEMMA GoneIs ==
  ASSUME ListTypeOK, NEW n \in 1 .. Len(before), before[n] \in wanted,
         \A i, j \in DOMAIN before : before[i] = before[j] => i = j,
         NEW i \in 1 .. Len(Kept(n) \o Rest(n))
  PROVE  (Kept(n) \o Rest(n))[i] # before[n]
<1> DEFINE k == Kept(n)
           r == Rest(n)
<1>1. /\ k \in Seq(Keys) /\ r \in Seq(Keys) /\ Len(before) \in Nat
      /\ Len(r) = Len(before) - n
      /\ \A m \in 1 .. Len(r) : r[m] = before[n + m]
      /\ before \in Seq(Keys)
  <2>1. before \in Seq(Keys) /\ Len(before) \in Nat /\ n \in 0 .. Len(before)
    BY DEF ListTypeOK
  <2>2. k \in Seq(Keys)
    BY <2>1, KeptIs
  <2>3. /\ r \in Seq(Keys) /\ Len(r) = Len(before) - n
        /\ \A m \in 1 .. Len(before) - n : r[m] = before[n + m]
    BY <2>1, RestIs
  <2> QED BY <2>1, <2>2, <2>3
<1>2. \A m \in 1 .. Len(k) : k[m] \notin wanted
  BY KeptUnwanted
<1>3. i \in 1 .. Len(k \o r)
  OBVIOUS
<1> HIDE DEF k, r
<1>4. \A m \in 1 .. Len(r) : r[m] # before[n]
  <2> TAKE m \in 1 .. Len(r)
  <2>1. n + m \in DOMAIN before /\ n \in DOMAIN before /\ n + m # n
    BY <1>1
  <2> QED BY <1>1, <2>1
<1>5. (k \o r)[i] # before[n]
  <2>1. CASE i \in 1 .. Len(k)
    <3>1. (k \o r)[i] = k[i]
      BY <1>1, <2>1, Concat
    <3> QED BY <2>1, <3>1, <1>2
  <2>2. CASE i \notin 1 .. Len(k)
    <3>1. i - Len(k) \in 1 .. Len(r) /\ i = Len(k) + (i - Len(k))
      BY <1>1, <1>3, <2>2
    <3>2. \A m \in 1 .. Len(r) : (k \o r)[Len(k) + m] = r[m]
      BY <1>1, Concat
    <3>3. (k \o r)[Len(k) + (i - Len(k))] = r[i - Len(k)]
      BY <3>1, <3>2
    <3> QED BY <3>1, <3>3, <1>4
  <2> QED BY <2>1, <2>2
<1> QED BY <1>5 DEF k, r

LEMMA DeleteMatchInv ==
  ASSUME CInv, DeleteMatch
  PROVE  CInv' /\ Abstract!Next
<1>1. MemInv /\ ListTypeOK /\ WalkInv /\ LoopInv /\ PrevBeforeTodel
  BY DEF CInv, MemInv
<1>2. /\ op = "delete" /\ op' = "delete" /\ todel # Null /\ data[todel] = key
      /\ todel' = next[todel] /\ UNCHANGED <<key, walkVars>>
  BY DEF DeleteMatch
<1>3. /\ ListTypeOK' /\ MemNext /\ PrevBeforeTodel' /\ LoopInv' /\ Abstract!Next
  BY DeleteMatchLoop
<1>4. PICK p \in 1 .. size :
        /\ todel = Chain[p] /\ Contents[p] = key
        /\ size' = size - 1
        /\ Contents' = Cut(Contents, p)
        /\ todel' = (At')[p - 1]
        /\ next'[todel] = next[todel]
  BY <1>1, DeleteMatchChain
<1>5. WalkInv'
  <2>1. walk # "visit"
    BY <1>1, <1>2 DEF WalkInv
  <2>2. ASSUME walk = "step"
        PROVE  \E n \in 1 .. Len(before) :
           /\ taken = Picked(before, Wanted)[n]
           /\ cur # Null
           /\ \/ /\ Contents' = Kept(n) \o Rest(n)
                 /\ next'[cur] = (At')[Len(Kept(n))]
                 /\ op' = "delete" => \A i \in 1 .. size' : Contents'[i] # key'
              \/ Pending(n)'
    <3>1. PICK n \in 1 .. Len(before) :
            /\ taken = Picked(before, Wanted)[n]
            /\ cur # Null
            /\ \/ /\ Passed(n)
                  /\ next[cur] = Following(n)
                  /\ op = "delete" => \A i \in 1 .. size : Contents[i] # key
               \/ Pending(n)
      BY <1>1, <1>2, <2>2 DEF WalkInv
    <3>2. Pending(n)
      BY <1>2, <1>4, <3>1
    <3> DEFINE k == Kept(n)
    <3>3. PICK j \in 0 .. Len(k) : todel = At[j]
      BY <3>2 DEF Pending
    <3>4. /\ before[n] \in wanted /\ key = before[n] /\ Contents = Kept(n) \o Rest(n - 1)
          /\ cur = At[Len(k)]
      BY <3>2 DEF Pending, Following, Wanted
    <3>5. Kept(n) = Kept(n - 1)
      BY <1>1, <3>4, KeptIs
    <3>6. /\ size = Len(k) + Len(before) - n + 1
          /\ Contents[Len(k) + 1] = before[n]
          /\ At[Len(k)] = Chain[Len(k) + 1]
      <4>1. Following(n - 1) = At[Len(Kept(n - 1))]
        BY DEF Following
      <4> QED BY <1>1, <1>2, <3>4, <3>5, <4>1, AheadIs
    <3>7. k \in Seq(Keys) /\ Len(before) \in Nat
      BY <1>1, KeptIs DEF ListTypeOK
    <3>8. \A m \in 1 .. Len(k) : Contents[m] \notin wanted
      <4> TAKE m \in 1 .. Len(k)
      <4>1. n \in 0 .. Len(before) /\ n - 1 \in 0 .. Len(before)
        BY <3>7
      <4>2. Kept(n)[m] \notin wanted
        BY <1>1, <4>1, KeptUnwanted
      <4>3. Rest(n - 1) \in Seq(Keys)
        BY <1>1, <4>1, RestIs
      <4>4. (Kept(n) \o Rest(n - 1))[m] = Kept(n)[m]
        BY <3>7, <4>3, Concat
      <4> QED BY <3>4, <4>2, <4>4
    <3> HIDE DEF k
    <3>9. /\ size \in Nat /\ IsChain(Chain, front, next, end) /\ Len(Chain) = size
          /\ \A i \in 0 .. size : At[i] = IF i = size THEN Null ELSE Chain[i + 1]
      BY <1>1, ChainNow DEF MemInv
    <3> HIDE DEF Chain, At
    <3>10. j \in 0 .. size /\ j # size /\ j + 1 \in 1 .. size
      <4>1. size = Len(k) + Len(before) - n + 1
        BY <3>6
      <4>2. Len(k) \in Nat
        BY <3>7
      <4> QED BY <3>7, <3>9, <4>1, <4>2
    <3>11. p = j + 1
      <4>1. Chain[p] = Chain[j + 1]
        BY <1>4, <3>3, <3>9, <3>10
      <4> QED BY <4>1, <3>9, <3>10 DEF IsChain
    <3>12. p = Len(k) + 1
      <4>1. p \notin 1 .. Len(k)
        BY <1>4, <3>4, <3>8
      <4> QED BY <4>1, <3>7, <3>11
    <3>13. Contents' = Kept(n) \o Rest(n)
      <4>1. n \in 0 .. Len(before) /\ n - 1 \in 0 .. Len(before)
        BY <3>7
      <4>2. /\ Rest(n) \in Seq(Keys) /\ Len(Rest(n)) = Len(before) - n
            /\ \A i \in 1 .. Len(before) - n : Rest(n)[i] = before[n + i]
        BY <1>1, <4>1, RestIs
      <4>3. /\ Rest(n - 1) \in Seq(Keys) /\ Len(Rest(n - 1)) = Len(before) - (n - 1)
            /\ \A i \in 1 .. Len(before) - (n - 1) : Rest(n - 1)[i] = before[n - 1 + i]
        BY <1>1, <4>1, RestIs
      <4>4. Len(Rest(n - 1)) = Len(Rest(n)) + 1
        BY <3>7, <4>2, <4>3
      <4>5. \A i \in 1 .. Len(Rest(n)) : Rest(n)[i] = Rest(n - 1)[i + 1]
        <5> TAKE i \in 1 .. Len(Rest(n))
        <5>1. Rest(n)[i] = before[n + i] /\ i \in Int
          BY <4>2
        <5>2. i + 1 \in 1 .. Len(before) - (n - 1)
          BY <3>7, <4>2
        <5>3. Rest(n - 1)[i + 1] = before[n - 1 + (i + 1)] /\ n - 1 + (i + 1) = n + i
          BY <4>3, <5>1, <5>2
        <5> QED BY <5>1, <5>3
      <4>6. Cut(k \o Rest(n - 1), Len(k) + 1) = k \o Rest(n)
        BY <3>7, <4>2, <4>3, <4>4, <4>5, CutMiddle
      <4> QED BY <1>4, <3>4, <3>12, <4>6 DEF k
    <3>14. next'[cur] = (At')[Len(Kept(n))]
      <4>1. cur = todel
        BY <1>4, <3>4, <3>6, <3>12
      <4>2. p - 1 = Len(k)
        BY <3>7, <3>12
      <4> QED BY <1>2, <1>4, <4>1, <4>2 DEF k
    <3>15. \A i \in 1 .. size' : Contents'[i] # key'
      <4>1. \A i, m \in DOMAIN before : before[i] = before[m] => i = m
        BY <1>1, <2>2 DEF WalkInv
      <4>2. Len(Contents') = size'
        <5>1. Contents \in Seq(Keys) /\ Len(Contents) = size
          BY <1>1, <1>2, ContentsNow
        <5>2. Len(Cut(Contents, p)) = size - 1
          BY <5>1, CutIs
        <5> QED BY <1>4, <5>2
      <4> QED BY <1>1, <1>2, <3>4, <3>13, <4>1, <4>2, GoneIs
    <3> QED BY <3>1, <3>13, <3>14, <3>15
  <2> QED BY <1>1, <1>2, <2>1, <2>2, WalkInside
<1> QED BY <1>3, <1>5 DEF CInv, MemNext

LEMMA DeleteEndInv ==
  ASSUME CInv, DeleteEnd
  PROVE  CInv' /\ UNCHANGED Contents
<1>1. MemInv /\ ListTypeOK /\ WalkInv
  BY DEF CInv, MemInv
<1>2. /\ op = "delete" /\ op' = "none" /\ todel = Null /\ UNCHANGED <<memory, head, walkVars>>
  BY DEF DeleteEnd, Return
<1>3. /\ ListTypeOK' /\ MemNext /\ PrevBeforeTodel' /\ LoopInv'
      /\ At' = At /\ Contents' = Contents
  BY DeleteEndLoop
<1>4. WalkInv'
  <2>1. walk # "visit"
    BY <1>1, <1>2 DEF WalkInv
  <2>2. ASSUME walk = "step"
        PROVE  \E n \in 1 .. Len(before) :
           /\ taken = Picked(before, Wanted)[n]
           /\ cur # Null
           /\ \/ /\ Contents' = Kept(n) \o Rest(n)
                 /\ next'[cur] = (At')[Len(Kept(n))]
                 /\ op' = "delete" => \A i \in 1 .. size' : Contents'[i] # key'
              \/ Pending(n)'
    <3>1. PICK n \in 1 .. Len(before) :
            /\ taken = Picked(before, Wanted)[n]
            /\ cur # Null
            /\ \/ /\ Passed(n)
                  /\ next[cur] = Following(n)
                  /\ op = "delete" => \A i \in 1 .. size : Contents[i] # key
               \/ Pending(n)
      BY <1>1, <1>2, <2>2 DEF WalkInv
    <3>2. ~ Pending(n)
      <4> SUFFICES ASSUME Pending(n) PROVE FALSE
        OBVIOUS
      <4> DEFINE k == Kept(n)
      <4>1. PICK j \in 0 .. Len(k) : todel = At[j]
        BY DEF Pending
      <4>2. before[n] \in wanted /\ Contents = Kept(n) \o Rest(n - 1)
        BY DEF Pending, Wanted
      <4>3. Kept(n) = Kept(n - 1)
        BY <1>1, <4>2, KeptIs
      <4>4. size = Len(k) + Len(before) - n + 1
        BY <1>1, <1>2, <4>2, <4>3, AheadIs
      <4>5. k \in Seq(Keys) /\ Len(before) \in Nat
        BY <1>1, KeptIs DEF ListTypeOK
      <4> HIDE DEF k
      <4>6. /\ IsChain(Chain, front, next, end) /\ Len(Chain) = size
            /\ \A i \in 0 .. size : At[i] = IF i = size THEN Null ELSE Chain[i + 1]
        BY <1>1, ChainNow DEF MemInv
      <4> HIDE DEF Chain, At
      <4>7. j \in 0 .. size /\ j # size /\ j + 1 \in 1 .. size
        BY <4>4, <4>5
      <4>8. todel = Chain[j + 1] /\ Chain[j + 1] \in Nodes
        BY <4>1, <4>6, <4>7 DEF IsChain
      <4> QED BY <1>2, <4>8, ListAssumption
    <3>3. next' = next
      BY <1>2 DEF memory
    <3> QED BY <3>1, <3>2, <3>3, <1>2, <1>3 DEF Passed, Following
  <2> QED BY <1>1, <1>2, <2>1, <2>2, WalkInside
<1> QED BY <1>3, <1>4 DEF CInv, MemNext

LEMMA FetchInv ==
  ASSUME CInv, NEW ready \in SUBSET Keys, Fetch(ready)
  PROVE  CInv' /\ UNCHANGED Contents
<1>1. MemInv /\ ListTypeOK
  BY DEF CInv, MemInv
<1>2. /\ op = "none" /\ op' = "none" /\ walk' = "visit" /\ cur' = front /\ wanted' = ready
      /\ taken' = <<>> /\ before' = Contents /\ Distinct /\ UNCHANGED <<memory, head, loopVars>>
  BY DEF Fetch, Idle, loopVars
<1>3. MemNext /\ Contents' = Contents /\ At' = At
  BY <1>1, <1>2, StayInside
<1>4. Contents \in Seq(Keys) /\ Len(Contents) = size
  BY <1>1, <1>2, ContentsNow
<1>5. ListTypeOK'
  <2>1. <<>> \in Seq(Keys)
    OBVIOUS
  <2> QED BY <1>1, <1>2, <1>4, <2>1 DEF ListTypeOK, memory, head, loopVars
<1>6. PrevBeforeTodel' /\ LoopInv'
  BY <1>2 DEF PrevBeforeTodel, LoopInv
<1>7. WalkInv'
  <2>1. \A i, j \in DOMAIN before' : before'[i] = before'[j] => i = j
    BY <1>2, <1>4 DEF Distinct
  <2>2. before' \in Seq(Keys) /\ Len(before') \in Nat
    BY <1>2, <1>4
  <2> DEFINE b == before'
             w == Wanted'
             u == Unwanted'
  <2>3. Kept(0)' = Picked(b, u)[0] /\ Rest(0)' = SubSeq(b, 1, Len(b))
    BY DEF Kept, Rest
  <2> HIDE DEF b, w, u
  <2>4. Picked(b, w)[0] = <<>> /\ Picked(b, u)[0] = <<>>
    BY <2>2, PickedIs DEF b
  <2>5. SubSeq(b, 1, Len(b)) = b /\ <<>> \o b = b
    BY <2>2 DEF b
  <2>6. taken' = Picked(b, w)[0] /\ 0 \in 0 .. Len(b)
    BY <1>2, <2>2, <2>4 DEF b
  <2>7. Passed(0)'
    <3>1. Passed(0)' <=> Contents' = Kept(0)' \o Rest(0)'
      BY DEF Passed
    <3> QED BY <3>1, <1>2, <1>3, <2>3, <2>4, <2>5 DEF b
  <2>8. cur' = Following(0)'
    <3>1. Following(0)' = (At')[Len(Kept(0)')]
      BY DEF Following
    <3>2. Len(Kept(0)') = 0
      BY <2>3, <2>4
    <3>3. At[0] = front
      BY AtNow, AtOfIs, NodesCounted
    <3> QED BY <1>2, <1>3, <3>1, <3>2, <3>3
  <2>9. \E n \in 0 .. Len(before') :
          /\ taken' = Picked(before', Wanted')[n]
          /\ Passed(n)'
          /\ cur' = Following(n)'
    BY <2>6, <2>7, <2>8 DEF b, w
  <2> QED BY <1>2, <2>1, <2>9 DEF WalkInv
<1> QED BY <1>3, <1>5, <1>6, <1>7 DEF CInv, MemNext

LEMMA VisitInv ==
  ASSUME CInv, Visit
  PROVE  CInv' /\ (Abstract!Next \/ UNCHANGED Contents)
<1>1. MemInv /\ ListTypeOK /\ WalkInv
  BY DEF CInv, MemInv
<1>2. /\ op = "none" /\ walk = "visit" /\ walk' = "step" /\ cur # Null
      /\ UNCHANGED <<cur, wanted, before>>
  BY DEF Visit
<1>3. PICK p \in 0 .. Len(before) : taken = Picked(before, Wanted)[p] /\ Passed(p) /\ cur = Following(p)
  BY <1>1, <1>2 DEF WalkInv
<1>4. /\ before \in Seq(Keys) /\ Len(before) \in Nat
      /\ \A i, j \in DOMAIN before : before[i] = before[j] => i = j
  BY <1>1, <1>2 DEF ListTypeOK, WalkInv
<1>5. /\ IsChain(Chain, front, next, end) /\ Len(Chain) = size /\ size \in Nat
      /\ \A i \in 0 .. size : At[i] = IF i = size THEN Null ELSE Chain[i + 1]
      /\ Contents \in Seq(Keys) /\ Len(Contents) = size
      /\ \A i \in 1 .. size : Contents[i] = data[Chain[i]]
  BY <1>1, <1>2, ChainNow, ContentsNow DEF MemInv
<1>6. /\ Kept(p) \in Seq(Keys) /\ Rest(p) \in Seq(Keys) /\ Len(Rest(p)) = Len(before) - p
  BY <1>1, <1>3, KeptIs, RestIs
<1>7. p < Len(before)
  <2> SUFFICES ASSUME p = Len(before) PROVE FALSE
    BY <1>3, <1>4
  <2>1. size = Len(Kept(p)) + Len(Rest(p))
    <3>1. Len(Kept(p) \o Rest(p)) = Len(Kept(p)) + Len(Rest(p))
      BY <1>6, Concat
    <3> QED BY <1>3, <1>5, <3>1 DEF Passed
  <2>2. Len(Rest(p)) = 0
    BY <1>4, <1>6
  <2>3. Len(Kept(p)) = size
    BY <1>6, <2>1, <2>2
  <2>4. At[size] = Null
    BY <1>5
  <2> QED BY <1>2, <1>3, <2>3, <2>4 DEF Following
<1> DEFINE n == p + 1
           k == Kept(p)
<1>8. n \in 1 .. Len(before) /\ n - 1 = p
  BY <1>3, <1>4, <1>7
<1>9. /\ size = Len(k) + Len(before) - n + 1
      /\ Contents[Len(k) + 1] = before[n]
      /\ cur = Chain[Len(k) + 1]
      /\ next[cur] = At[Len(k) + 1]
  <2>1. Contents = Kept(n - 1) \o Rest(n - 1)
    BY <1>3, <1>8 DEF Passed
  <2> HIDE DEF n
  <2>2. /\ size = Len(Kept(n - 1)) + Len(before) - n + 1
        /\ Contents[Len(Kept(n - 1)) + 1] = before[n]
        /\ Following(n - 1) = Chain[Len(Kept(n - 1)) + 1]
        /\ next[Following(n - 1)] = At[Len(Kept(n - 1)) + 1]
    BY <1>1, <1>2, <1>8, <2>1, AheadIs
  <2> QED BY <1>3, <1>8, <2>2
<1>10. data[cur] = before[n] /\ before[n] \in Keys /\ cur \in Nodes
  <2> HIDE DEF n, k
  <2>1. Len(k) \in Nat
    BY <1>6 DEF k
  <2>2. Len(k) + 1 \in 1 .. size
    BY <1>4, <1>8, <1>9, <2>1
  <2> HIDE DEF Chain
  <2>3. Chain[Len(k) + 1] \in Nodes /\ Contents[Len(k) + 1] = data[Chain[Len(k) + 1]]
    BY <1>5, <2>2 DEF IsChain
  <2>4. before[n] \in Keys
    BY <1>4, <1>8
  <2> QED BY <1>9, <2>3, <2>4
<1>11. \A i, j \in DOMAIN before' : before'[i] = before'[j] => i = j
  BY <1>2, <1>4
<1>12. ASSUME op' \in {"none", "delete"}, taken' = Picked(before, Wanted)[n],
              \/ /\ Contents' = Kept(n) \o Rest(n)
                 /\ next'[cur] = (At')[Len(Kept(n))]
                 /\ op' = "none"
              \/ Pending(n)'
       PROVE  WalkInv'
  <2>1. /\ Passed(n)' <=> Contents' = Kept(n) \o Rest(n)
        /\ Following(n)' = (At')[Len(Kept(n))]
        /\ Wanted' = Wanted
    BY <1>2, WalkNext
  <2>2. /\ taken' = Picked(before', Wanted')[n] /\ n \in 1 .. Len(before') /\ cur' # Null
        /\ \/ /\ Passed(n)'
              /\ next'[cur'] = Following(n)'
              /\ op' = "delete" => \A i \in 1 .. size' : Contents'[i] # key'
           \/ Pending(n)'
    BY <1>2, <1>8, <1>12, <2>1
  <2> QED BY <1>2, <1>11, <1>12, <2>2 DEF WalkInv
<1>13. CASE before[n] \notin wanted
  <2>1. UNCHANGED <<memory, head, loopVars, taken>>
    BY <1>10, <1>13 DEF Visit
  <2>2. op' = "none"
    BY <1>2, <2>1 DEF loopVars
  <2>3. MemNext /\ Contents' = Contents /\ At' = At
    BY <1>1, <1>2, <2>1, <2>2, StayInside
  <2>4. ListTypeOK' /\ PrevBeforeTodel' /\ LoopInv'
    BY <1>1, <1>2, <2>1, <2>2
    DEF ListTypeOK, PrevBeforeTodel, LoopInv, memory, head, loopVars
  <2>5. taken' = Picked(before, Wanted)[n]
    BY <1>1, <1>3, <1>8, <1>13, <2>1, TakenIs
  <2>6. Kept(n) = Append(Kept(p), before[n])
    BY <1>1, <1>8, <1>13, KeptIs
  <2>7. Contents = Kept(n) \o Rest(n)
    <3>1. Contents = Kept(p) \o Rest(p)
      BY <1>3 DEF Passed
    <3>2. Rest(n) \in Seq(Keys) /\ Len(Rest(n)) = Len(before) - n
          /\ \A i \in 1 .. Len(before) - n : Rest(n)[i] = before[n + i]
      BY <1>1, <1>8, RestIs
    <3>3. Rest(p) = <<before[n]>> \o Rest(n)
      <4> DEFINE r == Rest(p)
                 s == <<before[n]>> \o Rest(n)
      <4>1. /\ r \in Seq(Keys) /\ Len(r) = Len(before) - p
            /\ \A i \in 1 .. Len(before) - p : r[i] = before[p + i]
        BY <1>1, <1>3, RestIs
      <4>2. /\ s \in Seq(Keys) /\ Len(s) = Len(before) - p
            /\ \A i \in 1 .. Len(before) - p : s[i] = IF i = 1 THEN before[n] ELSE Rest(n)[i - 1]
        BY <1>4, <1>8, <1>10, <3>2
      <4>3. \A i \in 1 .. Len(before) - p : s[i] = before[p + i]
        <5> TAKE i \in 1 .. Len(before) - p
        <5>1. s[i] = IF i = 1 THEN before[n] ELSE Rest(n)[i - 1]
          BY <4>2
        <5>2. CASE i = 1
          BY <5>1, <5>2
        <5>3. CASE i # 1
          <6>1. i - 1 \in 1 .. Len(before) - n /\ n + (i - 1) = p + i
            BY <1>3, <1>4, <5>3
          <6>2. Rest(n)[i - 1] = before[n + (i - 1)]
            BY <3>2, <6>1
          <6> QED BY <5>1, <5>3, <6>1, <6>2
        <5> QED BY <5>2, <5>3
      <4> HIDE DEF r, s
      <4>4. r = s
        <5>1. r = [i \in 1 .. Len(before) - p |-> r[i]]
          BY <4>1
        <5>2. s = [i \in 1 .. Len(before) - p |-> s[i]]
          BY <4>2
        <5> QED BY <4>1, <4>3, <5>1, <5>2
      <4> QED BY <4>4 DEF r, s
    <3>4. Kept(p) \o (<<before[n]>> \o Rest(n)) = Append(Kept(p), before[n]) \o Rest(n)
      BY <1>6, <1>10, <3>2
    <3> QED BY <2>6, <3>1, <3>3, <3>4
  <2>8. next'[cur] = (At')[Len(Kept(n))]
    <3>1. Len(Kept(n)) = Len(k) + 1
      BY <1>6, <2>6
    <3> QED BY <1>9, <2>1, <2>3, <3>1 DEF memory
  <2> QED BY <1>12, <2>2, <2>3, <2>4, <2>5, <2>7, <2>8 DEF CInv, MemNext
<1>14. CASE before[n] \in wanted
  <2>1. taken' = Append(taken, before[n]) /\ StartDelete(before[n])
    BY <1>10, <1>14 DEF Visit
  <2>2. taken' = Picked(before, Wanted)[n] /\ taken' \in Seq(Keys)
    <3>1. taken' = Picked(before, Wanted)[n]
      BY <1>1, <1>3, <1>8, <1>14, <2>1, TakenIs
    <3>2. taken' \in Seq(Keys)
      BY <1>1, <1>10, <2>1 DEF ListTypeOK
    <3> QED BY <3>1, <3>2
  <2>3. Kept(n) = Kept(p)
    BY <1>1, <1>8, <1>14, KeptIs
  <2>4. /\ MemNext /\ op' \in {"none", "delete"} /\ PrevBeforeTodel'
        /\ data' = data /\ next' = next /\ alive' \subseteq Nodes
        /\ {front', end', prev', todel'} \subseteq Nodes \cup {Null, prev, todel}
        /\ key' \in {key, before[n]}
        /\ op' = "delete" =>
             /\ todel' \in Linked'
             /\ \A i \in 1 .. size' :
                  (\A m \in 1 .. i : Chain'[m] # todel') => data'[Chain'[i]] # key'
    BY <1>1, <1>2, <1>10, <2>1, StartDeleteIs
  <2>5. \/ /\ UNCHANGED <<memory, head, loopVars>>
           /\ \A i \in 1 .. size : Contents[i] # before[n]
        \/ size = 1 /\ data[front] = before[n] /\ EmptyList /\ UNCHANGED loopVars
        \/ /\ op' = "delete" /\ key' = before[n] /\ todel' = front /\ size > 1
           /\ UNCHANGED <<memory, head>>
    BY <1>1, <1>2, <1>10, <2>1, StartDeleteIs
  <2>6. ListTypeOK'
    BY <1>1, <1>2, <1>10, <2>2, <2>4 DEF ListTypeOK, MemNext
  <2>7. LoopInv'
    BY <2>4 DEF LoopInv
  <2>8. Len(k) \in Nat /\ Len(k) + 1 \in 1 .. size
    <3>1. Len(k) \in Nat
      BY <1>6
    <3> HIDE DEF k, n
    <3> QED BY <3>1, <1>4, <1>8, <1>9
  <2>9. CASE /\ UNCHANGED <<memory, head, loopVars>>
             /\ \A i \in 1 .. size : Contents[i] # before[n]
    BY <1>9, <2>8, <2>9
  <2>10. CASE size = 1 /\ data[front] = before[n] /\ EmptyList /\ UNCHANGED loopVars
    <3>1. /\ Contents' = <<>> /\ (At')[0] = Null /\ front = Chain[1] /\ next[front] = Null
      BY <1>1, <1>2, <2>10, EmptyListChain
    <3>2. Len(k) = 0 /\ n = Len(before)
      <4> HIDE DEF k, n
      <4> QED BY <1>4, <1>8, <1>9, <2>8, <2>10
    <3>3. cur = front
      BY <1>9, <3>1, <3>2
    <3>4. Contents' = Kept(n) \o Rest(n)
      <4>1. Rest(n) \in Seq(Keys) /\ Len(Rest(n)) = 0
        BY <1>1, <1>8, <3>2, RestIs
      <4>2. Kept(n) = <<>> /\ Rest(n) = <<>>
        BY <1>6, <2>3, <3>2, <4>1
      <4> QED BY <3>1, <4>2
    <3>5. next'[cur] = (At')[Len(Kept(n))] /\ op' = "none"
      BY <1>2, <2>3, <2>4, <2>10, <3>1, <3>2, <3>3 DEF loopVars
    <3>6. WalkInv'
      BY <1>12, <2>2, <2>4, <3>4, <3>5
    <3>7. Abstract!Next
      BY <3>1 DEF Abstract!Next, Abstract!Clear
    <3> QED BY <2>4, <2>6, <2>7, <3>6, <3>7 DEF CInv, MemNext
  <2>11. CASE /\ op' = "delete" /\ key' = before[n] /\ todel' = front /\ size > 1
              /\ UNCHANGED <<memory, head>>
    <3>1. Contents' = Contents /\ At' = At
      BY <1>1, <1>2, <2>11, StayInside
    <3>2. Pending(n)'
      <4>1. n \in Wanted
        BY <1>4, <1>8, <1>14 DEF Wanted
      <4>2. Contents' = Kept(n) \o Rest(n - 1)
        BY <1>3, <1>8, <2>3, <3>1 DEF Passed
      <4>3. cur' = (At')[Len(Kept(n))]
        BY <1>2, <1>3, <2>3, <3>1 DEF Following
      <4>4. \E j \in 0 .. Len(Kept(n)) : todel' = (At')[j]
        <5>1. At[0] = front
          BY AtNow, AtOfIs, NodesCounted
        <5>2. 0 \in 0 .. Len(Kept(n))
          BY <2>3, <2>8
        <5> QED BY <2>11, <3>1, <5>1, <5>2
      <4> QED BY <1>2, <2>11, <4>1, <4>2, <4>3, <4>4, WalkNext
    <3>3. WalkInv'
      BY <1>12, <2>2, <2>4, <3>2
    <3> QED BY <2>4, <2>6, <2>7, <3>1, <3>3 DEF CInv, MemNext
  <2> QED BY <2>5, <2>9, <2>10, <2>11
<1> QED BY <1>13, <1>14

LEMMA StepInv ==
  ASSUME CInv, Step
  PROVE  CInv' /\ UNCHANGED Contents
<1>1. MemInv /\ ListTypeOK /\ WalkInv
  BY DEF CInv, MemInv
<1>2. /\ op = "none" /\ op' = "none" /\ walk = "step" /\ walk' = "visit" /\ cur' = next[cur]
      /\ UNCHANGED <<memory, head, loopVars, wanted, taken, before>>
  BY DEF Step, loopVars
<1>3. MemNext /\ Contents' = Contents /\ At' = At
  BY <1>1, <1>2, StayInside
<1>4. PICK n \in 1 .. Len(before) :
        taken = Picked(before, Wanted)[n] /\ cur # Null /\ Passed(n) /\ next[cur] = Following(n)
  BY <1>1, <1>2 DEF WalkInv, Pending
<1>5. ListTypeOK'
  <2>1. cur' \in Nodes \cup {Null}
    BY <1>1, <1>2, <1>4 DEF ListTypeOK
  <2> QED BY <1>1, <1>2, <2>1 DEF ListTypeOK, memory, head, loopVars
<1>6. PrevBeforeTodel' /\ LoopInv'
  BY <1>2 DEF PrevBeforeTodel, LoopInv
<1>7. WalkInv'
  <2>1. /\ Passed(n)' <=> Contents' = Kept(n) \o Rest(n)
        /\ Following(n)' = (At')[Len(Kept(n))]
        /\ Wanted' = Wanted
    BY <1>2, WalkNext
  <2>2. taken' = Picked(before', Wanted')[n] /\ n \in 0 .. Len(before')
    BY <1>2, <1>4, <2>1
  <2>3. Passed(n)' /\ cur' = Following(n)'
    BY <1>2, <1>3, <1>4, <2>1 DEF Passed, Following
  <2>4. \A i, j \in DOMAIN before' : before'[i] = before'[j] => i = j
    BY <1>1, <1>2 DEF WalkInv
  <2> QED BY <1>2, <2>2, <2>3, <2>4 DEF WalkInv
<1> QED BY <1>3, <1>5, <1>6, <1>7 DEF CInv, MemNext

LEMMA StepLostInv ==
  ASSUME CInv, StepLost
  PROVE  CInv' /\ UNCHANGED Contents
<1>1. MemInv /\ ListTypeOK /\ WalkInv
  BY DEF CInv, MemInv
<1>2. /\ op = "none" /\ op' = "dead" /\ walk = "step"
      /\ UNCHANGED <<memory, head, key, prev, todel, walkVars>>
  BY DEF StepLost
<1>3. MemNext /\ Contents' = Contents
  BY <1>1, <1>2, StayInside
<1>4. ListTypeOK'
  BY <1>1, <1>2 DEF ListTypeOK, memory, head, walkVars
<1>5. PrevBeforeTodel' /\ LoopInv'
  BY <1>2 DEF PrevBeforeTodel, LoopInv
<1>6. WalkInv'
  BY <1>1, <1>2 DEF WalkInv, walkVars
<1> QED BY <1>3, <1>4, <1>5, <1>6 DEF CInv, MemNext

LEMMA FetchEndInv ==
  ASSUME CInv, FetchEnd
  PROVE  CInv' /\ UNCHANGED Contents
<1>1. MemInv /\ ListTypeOK
  BY DEF CInv, MemInv
<1>2. /\ op = "none" /\ op' = "none" /\ walk' = "none"
      /\ wanted' = {} /\ taken' = <<>> /\ before' = <<>>
      /\ UNCHANGED <<memory, head, loopVars, cur>>
  BY DEF FetchEnd, loopVars
<1>3. MemNext /\ Contents' = Contents
  BY <1>1, <1>2, StayInside
<1>4. ListTypeOK'
  <2>1. <<>> \in Seq(Keys)
    OBVIOUS
  <2> QED BY <1>1, <1>2, <2>1 DEF ListTypeOK, memory, head, loopVars
<1>5. PrevBeforeTodel' /\ LoopInv' /\ WalkInv'
  BY <1>2 DEF PrevBeforeTodel, LoopInv, WalkInv
<1> QED BY <1>3, <1>4, <1>5 DEF CInv, MemNext

-------------------------------------------------------------------------------
(* The theorems *)

LEMMA InitInv == Init => CInv /\ Contents = <<>>
<1> SUFFICES ASSUME Init PROVE CInv /\ Contents = <<>>
  OBVIOUS
<1>1. size = 0 /\ op = "none" /\ walk = "none" /\ front = Null /\ end = Null /\ alive = {}
  BY DEF Init
<1>2. At[0] = front
  BY AtNow, AtOfIs, NodesCounted
<1>3. WellFormed
  <2>1. Chain = <<>> /\ {Chain[i] : i \in 1 .. size} = {}
    BY <1>1 DEF Chain
  <2> QED BY <1>1, <1>2, <2>1 DEF WellFormed
<1>4. DataInv /\ PrevBeforeTodel /\ LoopInv /\ WalkInv
  BY <1>1 DEF DataInv, Linked, PrevBeforeTodel, LoopInv, WalkInv
<1>5. ListTypeOK
  <2>1. <<>> \in Seq(Keys)
    OBVIOUS
  <2> QED BY <2>1, NodesCounted DEF Init, ListTypeOK
<1>6. Contents = <<>>
  BY <1>1 DEF Contents
<1> QED BY <1>3, <1>4, <1>5, <1>6 DEF CInv

\* A step that changes nothing.
LEMMA StutterInv ==
  ASSUME CInv, UNCHANGED vars
  PROVE  CInv' /\ UNCHANGED Contents
<1>1. MemInv /\ ListTypeOK /\ WalkInv
  BY DEF CInv, MemInv
<1>2. UNCHANGED <<memory, head, loopVars, walkVars>>
  BY DEF vars
<1>3. At' = At /\ Chain' = Chain
  BY <1>2, AtNow, AtNext DEF Chain, head, memory
<1>4. UNCHANGED <<data, next, alive, front, end, size, op, key, prev, todel, walk, cur,
                  wanted, taken, before>>
  BY <1>2 DEF memory, head, loopVars, walkVars
<1>5. ListTypeOK' /\ WellFormed' /\ DataInv' /\ Contents' = Contents
  BY <1>3, <1>4
  DEF CInv, ListTypeOK, WellFormed, Undestroyed, DataInv, Linked, Contents
<1>6. PrevBeforeTodel' /\ LoopInv'
  BY <1>3, <1>4 DEF CInv, PrevBeforeTodel, LoopInv, Linked
<1>7. ASSUME NEW n PROVE (Passed(n)' <=> Passed(n)) /\ (Pending(n)' <=> Pending(n))
                         /\ Following(n)' = Following(n) /\ Wanted' = Wanted
  BY <1>3, <1>4, <1>5, WalkNext DEF Passed, Pending, Following
<1>8. WalkInv'
  BY <1>1, <1>4, <1>5, <1>7 DEF WalkInv
<1> QED BY <1>5, <1>6, <1>8 DEF CInv

\* The abstract list makes a step or none.
AbstractStep == [Abstract!Next]_Contents

LEMMA NextInv ==
  ASSUME CInv, [Next]_vars
  PROVE  CInv' /\ AbstractStep
<1>1. ASSUME NEW k \in Keys, Insert(k) \/ InsertBack(k) \/ Delete(k)
      PROVE  CInv' /\ AbstractStep
  BY <1>1, InsertInv, InsertBackInv, DeleteInv DEF AbstractStep
<1>2. ASSUME PopBack \/ Destroy PROVE CInv' /\ AbstractStep
  BY <1>2, PopBackInv, DestroyInv DEF AbstractStep
<1>3. ASSUME NEW ready \in SUBSET Keys, Fetch(ready) PROVE CInv' /\ AbstractStep
  BY <1>3, FetchInv DEF AbstractStep
<1>4. ASSUME DeleteMatch \/ DeleteSkip \/ DeleteEnd PROVE CInv' /\ AbstractStep
  BY <1>4, DeleteMatchInv, DeleteSkipInv, DeleteEndInv DEF AbstractStep
<1>5. ASSUME PopSkip \/ PopEnd PROVE CInv' /\ AbstractStep
  BY <1>5, PopSkipInv, PopEndInv DEF AbstractStep
<1>6. ASSUME DestroyNode \/ DestroyEnd PROVE CInv' /\ AbstractStep
  BY <1>6, DestroyNodeInv, DestroyEndInv DEF AbstractStep
<1>7. ASSUME Visit \/ Step \/ StepLost \/ FetchEnd PROVE CInv' /\ AbstractStep
  BY <1>7, VisitInv, StepInv, StepLostInv, FetchEndInv DEF AbstractStep
<1>8. CASE UNCHANGED vars
  BY <1>8, StutterInv DEF AbstractStep
<1> QED BY <1>1, <1>2, <1>3, <1>4, <1>5, <1>6, <1>7, <1>8 DEF Next, LoopStep

\* The invariant holds in every state of every list.
THEOREM ListInvariant == Spec => []CInv
<1>1. Init => CInv
  BY InitInv
<1>2. CInv /\ [Next]_vars => CInv'
  BY NextInv
<1> QED BY <1>1, <1>2, PTL DEF Spec

\* The variables of list.c and of the walk hold what the functions can put there.
THEOREM ListTypes == Spec => []ListTypeOK
<1>1. CInv => ListTypeOK
  BY DEF CInv
<1> QED BY <1>1, ListInvariant, PTL

\* Whatever is inserted and deleted in whatever order, the nodes from the front on are as many
\* as size says, all different and ended by end, and they are what is allocated, in the
\* middle of a loop too: list.c leaks no node and frees none twice.
THEOREM ListsWellFormed == Spec => []WellFormed
<1>1. CInv => WellFormed
  BY DEF CInv
<1> QED BY <1>1, ListInvariant, PTL

\* Whenever delete or pop_back unlinks through prev, prev is allocated and points to the
\* node that goes, although delete leaves it on a freed node after a match at the front.
THEOREM PrevStays == Spec => []PrevBeforeTodel
<1>1. CInv => PrevBeforeTodel
  BY DEF CInv
<1> QED BY <1>1, ListInvariant, PTL

\* At the end of the walk all elements have been visited.
LEMMA WalkEnds ==
  ASSUME CInv
  PROVE  FetchComplete
<1> SUFFICES ASSUME walk = "visit", op = "none", cur = Null
             PROVE  /\ taken = Pick(before, Wanted) /\ Contents = Pick(before, Unwanted)
  BY DEF FetchComplete, Wanted, Unwanted
<1>1. MemInv /\ ListTypeOK /\ WalkInv
  BY DEF CInv, MemInv
<1>2. PICK n \in 0 .. Len(before) :
        taken = Picked(before, Wanted)[n] /\ Passed(n) /\ cur = Following(n)
  BY <1>1 DEF WalkInv
<1>3. /\ size \in Nat /\ Len(Contents) = size /\ Contents \in Seq(Keys)
      /\ \A i \in 0 .. size : At[i] = IF i = size THEN Null ELSE Chain[i + 1]
      /\ \A i \in 1 .. size : Chain[i] \in Nodes
  BY <1>1, ChainNow, ContentsNow DEF MemInv, IsChain
<1>4. /\ Kept(n) \in Seq(Keys) /\ Rest(n) \in Seq(Keys) /\ Len(Rest(n)) = Len(before) - n
      /\ Len(before) \in Nat /\ before \in Seq(Keys)
  BY <1>1, <1>2, KeptIs, RestIs DEF ListTypeOK
<1>5. Contents = Kept(n) \o Rest(n) /\ At[Len(Kept(n))] = Null
  BY <1>2 DEF Passed, Following
<1>6. size = Len(Kept(n)) + Len(Rest(n)) /\ Len(Kept(n)) \in 0 .. size
  <2>1. Len(Kept(n) \o Rest(n)) = Len(Kept(n)) + Len(Rest(n))
    BY <1>4, Concat
  <2>2. Len(Kept(n)) \in Nat /\ Len(Rest(n)) \in Nat
    BY <1>4
  <2>3. size = Len(Kept(n)) + Len(Rest(n))
    BY <1>3, <1>5, <2>1
  <2> QED BY ONLY <2>2, <2>3
<1>7. Len(Kept(n)) = size
  <2> SUFFICES ASSUME Len(Kept(n)) # size PROVE FALSE
    OBVIOUS
  <2>1. At[Len(Kept(n))] = Chain[Len(Kept(n)) + 1] /\ Len(Kept(n)) + 1 \in 1 .. size
    BY <1>3, <1>6
  <2> QED BY <1>3, <1>5, <2>1, ListAssumption
<1>8. Len(Rest(n)) = 0
  BY <1>4, <1>6, <1>7
<1>9. n = Len(before) /\ Contents = Kept(n)
  BY <1>4, <1>5, <1>8
<1> QED BY <1>2, <1>9 DEF Pick, Kept

\* The walk of get_ready_messages and get_ready_files visits every element although delete
\* runs on the list under it: it collects what was wanted in the list's order, and
\* exactly that is gone.
THEOREM WalkComplete == Spec => []FetchComplete
<1>1. CInv => FetchComplete
  BY WalkEnds
<1> QED BY <1>1, ListInvariant, PTL

\* list.c implements the sequence that list.h promises: every loop step is
\* one change of the sequence or none.
THEOREM ListRefinement == Spec => ImplementsSequence
<1>1. Init => Abstract!Init
  BY InitInv DEF Abstract!Init
<1>2. CInv /\ [Next]_vars => AbstractStep
  BY NextInv
<1>3. Spec => [][AbstractStep]_vars
  BY <1>2, ListInvariant, PTL DEF Spec
<1> QED BY <1>1, <1>2, ListInvariant, PTL
        DEF Spec, ImplementsSequence, Abstract!Spec, AbstractStep

===============================================================================
