---------------------------- MODULE ChannelListInv ----------------------------
(***************************************************************************)
(* The inductive invariant of ChannelList: where the pointers of a running *)
(* loop are on the chain, and how far the walk has come.                   *)
(***************************************************************************)
EXTENDS ChannelList

\* The nodes that are reached from the front.
Linked == {Chain[i] : i \in 1 .. size}

\* They hold elements.
DataInv == \A n \in Linked : n \in Nodes /\ data[n] \in Keys

\* What a loop of list.c looks at is on the chain; delete has left no match behind.
LoopInv ==
  /\ op \in {"delete", "pop", "destroy"} => todel \in Linked \cup {Null}
  /\ op = "delete" =>
       \A i \in 1 .. size : (\A k \in 1 .. i : Chain[k] # todel) => data[Chain[i]] # key
  /\ op = "pop" => size > 1 /\ todel # Null
  /\ op \in {"pop", "destroy"} => walk = "none"

Wanted == {i \in DOMAIN before : before[i] \in wanted}
Unwanted == {i \in DOMAIN before : before[i] \notin wanted}

\* What stays of the first n elements, and the elements behind them.
Kept(n) == Picked(before, Unwanted)[n]
Rest(n) == SubSeq(before, n + 1, Len(before))

\* The node behind those that stay of the first n, or Null at the end.
Following(n) == At[Len(Kept(n))]

\* The first n elements have been visited, and those wanted are gone.
Passed(n) == Contents = Kept(n) \o Rest(n)

\* The n-th element is about to be deleted, which delete has not reached yet.
Pending(n) ==
  /\ op = "delete" /\ n \in Wanted /\ key = before[n]
  /\ Contents = Kept(n) \o Rest(n - 1)
  /\ cur = Following(n)
  /\ \E j \in 0 .. Len(Kept(n)) : todel = At[j]

WalkInv ==
  /\ walk # "none" =>
       /\ op \in {"none", "delete", "dead"}
       /\ \A i, j \in DOMAIN before : before[i] = before[j] => i = j
  /\ walk = "visit" =>
       /\ op = "none"
       /\ \E n \in 0 .. Len(before) :
            /\ taken = Picked(before, Wanted)[n]
            /\ Passed(n)
            /\ cur = Following(n)
  /\ walk = "step" /\ op # "dead" =>
       \E n \in 1 .. Len(before) :
         /\ taken = Picked(before, Wanted)[n]
         /\ cur # Null
         /\ \/ /\ Passed(n)
               /\ next[cur] = Following(n)
               /\ op = "delete" => \A i \in 1 .. size : Contents[i] # key
            \/ Pending(n)

\* The inductive invariant.
CInv ==
  /\ ListTypeOK /\ WellFormed /\ PrevBeforeTodel
  /\ DataInv /\ LoopInv /\ WalkInv

===============================================================================
