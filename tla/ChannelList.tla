------------------------------ MODULE ChannelList ------------------------------
(***************************************************************************)
(* The lists of the board (list.c) with their nodes and pointers, and the  *)
(* walk of get_ready_messages and get_ready_files (boardb.c) that deletes  *)
(* from the list it walks.  An iteration of a loop is a step.  list.c does *)
(* not ask for distinct elements; the walk relies on them.                 *)
(***************************************************************************)
EXTENDS Integers, Sequences, SequencesExt, FiniteSets, Prefixes

CONSTANTS
  Keys,     \* the elements, as the comparator of the list tells them apart
  Nodes,    \* bound: the addresses malloc returns
  Null,
  FreedRead \* outcomes of reading next of a freed node: "kept", "lost"

ASSUME ListAssumption ==
  /\ Null \notin Nodes /\ Null \notin Keys
  /\ IsFiniteSet(Nodes)
  /\ FreedRead \subseteq {"kept", "lost"}

VARIABLES
  data, next,      \* per address: the node's element and its successor
  alive,           \* the addresses that are allocated
  front, end, size,\* struct head
  op,              \* the function that runs
  key, prev, todel,\* its argument and its loop's pointers
  walk,            \* the walk around it: "none", "visit" or "step"
  cur,             \* tmp2 of the walk
  wanted,          \* the elements it collects: those full and of its type
  taken,           \* what it has collected
  before           \* history: the list when it began

memory   == <<data, next, alive>>
head     == <<front, end, size>>
loopVars == <<op, key, prev, todel>>
walkVars == <<walk, cur, wanted, taken, before>>
vars == <<memory, head, loopVars, walkVars>>

\* The node i steps behind the front.
At[i \in 0 .. Cardinality(Nodes)] ==
  IF i = 0 THEN front ELSE IF At[i - 1] = Null THEN Null ELSE next[At[i - 1]]

Chain == [i \in 1 .. size |-> At[i - 1]]

\* The list as its callers see it; ds_list ends with the head freed.
Contents == IF op = "destroy" THEN <<>> ELSE [i \in 1 .. size |-> data[Chain[i]]]

Init ==
  /\ data = [n \in Nodes \cup {Null} |-> Null]
  /\ next = [n \in Nodes |-> Null]
  /\ alive = {}
  /\ front = Null /\ end = Null /\ size = 0
  /\ op = "none" /\ key = Null /\ prev = Null /\ todel = Null
  /\ walk = "none" /\ cur = Null /\ wanted = {} /\ taken = <<>> /\ before = <<>>

Idle == op = "none" /\ walk = "none"

\* The function returns.
Return == op' = "none" /\ key' = Null /\ prev' = Null /\ todel' = Null

-------------------------------------------------------------------------------
(* insert, insert_back *)

\* Mutant: the first node is not the last one.
InsertNoEnd(k) ==
  /\ Idle
  /\ \E n \in Nodes \ alive :
       /\ alive' = alive \cup {n}
       /\ data' = [data EXCEPT ![n] = k]
       /\ next' = [next EXCEPT ![n] = front]
       /\ front' = n
       /\ size' = size + 1
  /\ UNCHANGED <<end, loopVars, walkVars>>

Insert(k) ==
  /\ Idle
  /\ \E n \in Nodes \ alive :
       /\ alive' = alive \cup {n}
       /\ data' = [data EXCEPT ![n] = k]
       /\ next' = [next EXCEPT ![n] = front]
       /\ front' = n
       /\ end' = IF size = 0 THEN n ELSE end
       /\ size' = size + 1
  /\ UNCHANGED <<loopVars, walkVars>>

InsertBack(k) ==
  /\ Idle
  /\ \E n \in Nodes \ alive :
       /\ alive' = alive \cup {n}
       /\ data' = [data EXCEPT ![n] = k]
       /\ next' = [m \in Nodes |-> IF m = n THEN Null ELSE IF size > 0 /\ m = end THEN n ELSE next[m]]
       /\ front' = IF size = 0 THEN n ELSE front
       /\ end' = n
       /\ size' = size + 1
  /\ UNCHANGED <<loopVars, walkVars>>

-------------------------------------------------------------------------------
(* delete, pop_back, ds_list *)

\* ds_node
Free(n) == alive' = alive \ {n}

\* Mutant: the size is not reset.
EmptyListCounted ==
  /\ Free(front)
  /\ front' = Null /\ end' = Null
  /\ UNCHANGED <<data, next, size>>

\* The only node goes.
EmptyList ==
  /\ Free(front)
  /\ front' = Null /\ end' = Null /\ size' = 0
  /\ UNCHANGED <<data, next>>

\* Mutant: the only node is not looked at.
StartDeleteLonger(k) ==
  \/ size <= 1 /\ UNCHANGED <<memory, head, loopVars>>
  \/ /\ size > 1
     /\ op' = "delete" /\ key' = k /\ prev' = front /\ todel' = front
     /\ UNCHANGED <<memory, head>>

\* delete up to its loop, which is for longer lists only.
StartDelete(k) ==
  \/ /\ size = 0 \/ (size = 1 /\ data[front] # k)
     /\ UNCHANGED <<memory, head, loopVars>>
  \/ size = 1 /\ data[front] = k /\ EmptyList /\ UNCHANGED loopVars
  \/ /\ size > 1
     /\ op' = "delete" /\ key' = k /\ prev' = front /\ todel' = front
     /\ UNCHANGED <<memory, head>>

Delete(k) == Idle /\ StartDelete(k) /\ UNCHANGED walkVars

\* Mutant: the last node is unlinked like one in the middle.
UnlinkNoEnd ==
  \/ size = 1 /\ front' = Null /\ end' = Null /\ UNCHANGED next
  \/ size > 1 /\ front = todel /\ front' = next[todel] /\ UNCHANGED <<end, next>>
  \/ size > 1 /\ front # todel /\ next' = [next EXCEPT ![prev] = next[todel]]
     /\ UNCHANGED <<front, end>>

Unlink ==
  \/ size = 1 /\ front' = Null /\ end' = Null /\ UNCHANGED next
  \/ size > 1 /\ front = todel /\ front' = next[todel] /\ UNCHANGED <<end, next>>
  \/ /\ size > 1 /\ front # todel /\ end = todel
     /\ end' = prev
     /\ next' = [next EXCEPT ![prev] = Null]
     /\ UNCHANGED front
  \/ /\ size > 1 /\ front # todel /\ end # todel
     /\ next' = [next EXCEPT ![prev] = next[todel]]
     /\ UNCHANGED <<front, end>>

\* The node that matches goes; prev stays, even if it was that node.
DeleteMatch ==
  /\ op = "delete" /\ todel # Null
  /\ data[todel] = key
  /\ Unlink
  /\ Free(todel)
  /\ size' = size - 1
  /\ todel' = next[todel]
  /\ UNCHANGED <<data, op, key, prev, walkVars>>

\* Mutant: prev stays behind.
DeleteSkipStill ==
  /\ op = "delete" /\ todel # Null
  /\ data[todel] # key
  /\ todel' = next[todel]
  /\ UNCHANGED <<memory, head, op, key, prev, walkVars>>

DeleteSkip ==
  /\ op = "delete" /\ todel # Null
  /\ data[todel] # key
  /\ prev' = todel
  /\ todel' = next[todel]
  /\ UNCHANGED <<memory, head, op, key, walkVars>>

DeleteEnd == op = "delete" /\ todel = Null /\ Return /\ UNCHANGED <<memory, head, walkVars>>

PopBack ==
  /\ Idle
  /\ \/ size < 1 /\ UNCHANGED <<memory, head, loopVars>>
     \/ size = 1 /\ EmptyList /\ UNCHANGED loopVars
     \/ /\ size > 1
        /\ op' = "pop" /\ prev' = front /\ todel' = front
        /\ UNCHANGED <<memory, head, key>>
  /\ UNCHANGED walkVars

\* Mutant: todel stays.
PopSkipStill ==
  /\ op = "pop" /\ todel # end
  /\ prev' = todel
  /\ UNCHANGED <<memory, head, op, key, todel, walkVars>>

PopSkip ==
  /\ op = "pop" /\ todel # end
  /\ prev' = todel
  /\ todel' = next[todel]
  /\ UNCHANGED <<memory, head, op, key, walkVars>>

PopEnd ==
  /\ op = "pop" /\ todel = end
  /\ end' = prev
  /\ next' = [next EXCEPT ![prev] = Null]
  /\ Free(todel)
  /\ size' = size - 1
  /\ Return
  /\ UNCHANGED <<data, front, walkVars>>

\* ds_list_plus_data
Destroy ==
  /\ Idle
  /\ op' = "destroy" /\ todel' = front
  /\ UNCHANGED <<memory, head, key, prev, walkVars>>

DestroyNode ==
  /\ op = "destroy" /\ todel # Null
  /\ todel' = next[todel]
  /\ Free(todel)
  /\ UNCHANGED <<data, next, head, op, key, prev, walkVars>>

\* free of the head; the next list begins with cr_list.
DestroyEnd ==
  /\ op = "destroy" /\ todel = Null
  /\ front' = Null /\ end' = Null /\ size' = 0
  /\ Return
  /\ UNCHANGED <<memory, walkVars>>

-------------------------------------------------------------------------------
(* get_ready_messages, get_ready_files: the second loop *)

\* The library inserts only what is not in the list yet: in() is asked before.
Distinct == \A i, j \in 1 .. size : Contents[i] = Contents[j] => i = j

Fetch(ready) ==
  /\ Idle
  /\ Distinct
  /\ walk' = "visit"
  /\ cur' = front
  /\ wanted' = ready
  /\ taken' = <<>>
  /\ before' = Contents
  /\ UNCHANGED <<memory, head, loopVars>>

\* An element that is wanted is collected and deleted.
Visit ==
  /\ walk = "visit" /\ op = "none" /\ cur # Null
  /\ walk' = "step"
  /\ \/ data[cur] \in wanted /\ taken' = Append(taken, data[cur]) /\ StartDelete(data[cur])
     \/ data[cur] \notin wanted /\ UNCHANGED <<memory, head, loopVars, taken>>
  /\ UNCHANGED <<cur, wanted, before>>

\* tmp2=next_node(tmp2), of a node that may be freed by now.
Step ==
  /\ walk = "step" /\ op = "none"
  /\ cur \in alive \/ "kept" \in FreedRead
  /\ cur' = next[cur]
  /\ walk' = "visit"
  /\ UNCHANGED <<memory, head, loopVars, wanted, taken, before>>

\* The server dies of what it read.
StepLost ==
  /\ walk = "step" /\ op = "none"
  /\ cur \notin alive /\ "lost" \in FreedRead
  /\ op' = "dead"
  /\ UNCHANGED <<memory, head, key, prev, todel, walkVars>>

FetchEnd ==
  /\ walk = "visit" /\ op = "none" /\ cur = Null
  /\ walk' = "none"
  /\ wanted' = {} /\ taken' = <<>> /\ before' = <<>>
  /\ UNCHANGED <<memory, head, loopVars, cur>>

-------------------------------------------------------------------------------
LoopStep ==
  DeleteMatch \/ DeleteSkip \/ DeleteEnd \/ PopSkip \/ PopEnd \/ DestroyNode \/ DestroyEnd
  \/ Visit \/ Step \/ StepLost \/ FetchEnd

Next ==
  \/ \E k \in Keys : Insert(k) \/ InsertBack(k) \/ Delete(k)
  \/ PopBack \/ Destroy
  \/ \E ready \in SUBSET Keys : Fetch(ready)
  \/ LoopStep

Spec == Init /\ [][Next]_vars

\* A loop that was begun goes on.
FairSpec == Spec /\ WF_vars(LoopStep)

-------------------------------------------------------------------------------
(* Properties *)

\* Every variable holds what the functions can put there.
ListTypeOK ==
  /\ data \in [Nodes \cup {Null} -> Keys \cup {Null}] /\ data[Null] = Null
  /\ next \in [Nodes -> Nodes \cup {Null}]
  /\ alive \subseteq Nodes
  /\ {front, end, prev, todel, cur} \subseteq Nodes \cup {Null}
  /\ size \in 0 .. Cardinality(Nodes)
  /\ op \in {"none", "delete", "pop", "destroy", "dead"}
  /\ key \in Keys \cup {Null}
  /\ walk \in {"none", "visit", "step"}
  /\ wanted \subseteq Keys
  /\ taken \in Seq(Keys) /\ before \in Seq(Keys)

\* The nodes from todel on, while ds_list frees them.
Undestroyed == {Chain[i] : i \in {j \in 1 .. size : \E k \in 1 .. j : Chain[k] = todel}}

\* At every moment, inside the loops too, the nodes from the front on are as many
\* as size says, all different and ended by end, and they are what is allocated: nothing
\* leaks, nothing is freed twice, nobody is left on a freed node.  list.c:76-178
WellFormed ==
  /\ \A i, j \in 1 .. size : Chain[i] = Chain[j] => i = j
  /\ At[size] = Null
  /\ end = IF size = 0 THEN Null ELSE Chain[size]
  /\ alive = IF op = "destroy" THEN Undestroyed ELSE {Chain[i] : i \in 1 .. size}

\* delete keeps prev on a node it has freed when that was the front; whenever
\* it unlinks through prev, prev is the node in front of todel.  list.c:117-146
PrevBeforeTodel ==
  op \in {"delete", "pop"} /\ todel \notin {Null, front} => prev \in alive /\ next[prev] = todel

\* The walk visits the whole list although it deletes from it: what was wanted has been
\* collected in the order of the list, and exactly that has gone.
\* boardb.c:345-361, 391-411
FetchComplete ==
  walk = "visit" /\ op = "none" /\ cur = Null =>
    /\ taken = Pick(before, {i \in DOMAIN before : before[i] \in wanted})
    /\ Contents = Pick(before, {i \in DOMAIN before : before[i] \notin wanted})

\* Every loop ends, whatever is deleted under it (the server may die of the freed node).
\* list.c:118-146, 161-170, boardb.c:346-361
LoopsEnd == ~ Idle ~> Idle \/ op = "dead"

\* The nodes and pointers implement the sequence that list.h promises, and a step
\* of a loop is a step of it or none.  list.h:14-35
Abstract == INSTANCE ListSpec WITH list <- Contents
ImplementsSequence == Abstract!Spec

===============================================================================
