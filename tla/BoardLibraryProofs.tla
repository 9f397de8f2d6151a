--------------------------- MODULE BoardLibraryProofs ---------------------------
(***************************************************************************)
(* Theorems about BoardLibrary, for any number of messages and channels    *)
(* and any bound of the counter.                                           *)
(***************************************************************************)
EXTENDS BoardLibrary, BoardStoreProofs, TLAPS, FiniteSetTheorems

(* Type correctness *)

LEMMA NextFragmentType ==
  ASSUME LibTypeOK, NEW k \in Keys, arriving[k] \notin {Unsent, Done}
  PROVE  NextFragment(k) \in Fragment
<1>1. arriving[k] \in Arriving
  BY DEF LibTypeOK
<1>2. k[1] \in Posts /\ k[2] \in Mids
  BY DEF Keys
<1>3. (IF arriving[k].next = arriving[k].size THEN "y" ELSE "n") \in Flags
  BY DEF Flags
<1> QED
  BY <1>1, <1>2, <1>3 DEF NextFragment, Fragment, Arriving

LEMMA LibTypeStep ==
  ASSUME LibTypeOK, [Next]_libVars
  PROVE  LibTypeOK'
<1> USE SizesAssumption
<1>1. CASE UNCHANGED libVars
  BY <1>1 DEF libVars, LibTypeOK, BoardType, Channels
<1>2. ASSUME NEW k \in Keys, NEW id \in Ids, NEW type \in Kinds, NEW size \in Sizes,
             Begin(k, id, type, size)
      PROVE  LibTypeOK'
  <2>1. [id |-> id, type |-> type, size |-> size, next |-> 1] \in Arriving
    BY DEF Arriving
  <2> QED
    BY <1>2, <2>1 DEF Begin, LibTypeOK, BoardType, Channels
<1>3. ASSUME NEW k \in Keys, Add(k)
      PROVE  LibTypeOK'
  <2>1. arriving[k] \in Arriving
    BY <1>3 DEF Add, LibTypeOK
  <2>2. [arriving[k] EXCEPT !.next = @ + 1] \in Arriving
    BY <2>1 DEF Arriving
  <2>3. BoardType'
    BY <1>3, NextFragmentType, AddMessageDType DEF Add, LibTypeOK
  <2>4. Rest(k) \in Arriving \cup {Unsent, Done}
    BY <2>2 DEF Rest
  <2>5. arriving' = [arriving EXCEPT ![k] = Rest(k)]
    BY <1>3 DEF Add
  <2> QED
    BY <2>3, <2>4, <2>5 DEF LibTypeOK
<1>4. ASSUME NEW id \in Ids, Insert(id) \/ Fetch(id) \/ Remove(id) \/ Delete(id)
      PROVE  LibTypeOK'
  <2>1. BoardType'
    BY <1>4, GinsertType, FetchReadyType, RemoveMessageDType, DeleteGchannelType
    DEF Insert, Fetch, Remove, Delete, LibTypeOK
  <2> QED
    BY <1>4, <2>1 DEF Insert, Fetch, Remove, Delete, LibTypeOK
<1> QED
  BY <1>1, <1>2, <1>3, <1>4 DEF Next

\* Every variable keeps its type, whatever the caller does.
THEOREM LibTypeCorrect == Spec => []LibTypeOK
<1>1. Init => LibTypeOK
  BY DEF Init, CrBboard, EmptyBoard, LibTypeOK, BoardType, Channels
<1> QED
  BY <1>1, LibTypeStep, PTL DEF Spec

-------------------------------------------------------------------------------
(* The counter *)

\* The counter of a channel is never below the length of its list.
CountedInv ==
  \A c \in Channels :
    /\ board[c].out \in Int
    /\ IsFiniteSet(board[c].msgs)
    /\ Cardinality(board[c].msgs) <= board[c].out

\* A board with nothing counted wrong that is left as it was.
LEMMA SameBoard ==
  ASSUME UNCHANGED board
  PROVE  /\ CountedInv => CountedInv'
         /\ OneRecord => OneRecord'
BY DEF CountedInv, OneRecord, Channels

\* The cardinality of a finite set that gains, or swaps, one element.
LEMMA AddOne ==
  ASSUME NEW S, IsFiniteSet(S), NEW x
  PROVE  /\ IsFiniteSet(S \cup {x})
         /\ Cardinality(S \cup {x}) <= Cardinality(S) + 1
<1>1. Cardinality(S) \in Nat
  BY FS_CardinalityType
<1> QED
  BY <1>1, FS_AddElement

LEMMA SwapOne ==
  ASSUME NEW S, IsFiniteSet(S), NEW m \in S, NEW x
  PROVE  /\ IsFiniteSet((S \ {m}) \cup {x})
         /\ Cardinality((S \ {m}) \cup {x}) <= Cardinality(S)
<1>1. /\ IsFiniteSet(S \ {m})
      /\ Cardinality(S \ {m}) = Cardinality(S) - 1
  BY FS_RemoveElement
<1>2. /\ IsFiniteSet((S \ {m}) \cup {x})
      /\ Cardinality((S \ {m}) \cup {x}) <= Cardinality(S \ {m}) + 1
  BY <1>1, AddOne
<1>3. Cardinality(S) \in Nat
  BY FS_CardinalityType
<1> QED
  BY <1>1, <1>2, <1>3

LEMMA GinsertCounted ==
  ASSUME BoardType, CountedInv, NEW id \in Ids, Ginsert(id)
  PROVE  CountedInv'
<1>1. CASE UNCHANGED board
  BY <1>1, SameBoard
<1>2. CASE /\ id \notin Channels
           /\ board' = [c \in Channels \cup {id} |->
                IF c = id THEN [msgs |-> {}, out |-> 0] ELSE board[c]]
  BY <1>2, FS_EmptySet DEF CountedInv, Channels
<1> QED
  BY <1>1, <1>2 DEF Ginsert

LEMMA AddMessageDCounted ==
  ASSUME BoardType, CountedInv, NEW w, AddMessageD(w)
  PROVE  CountedInv'
<1>1. CASE UNCHANGED board
  BY <1>1, SameBoard
<1>2. CASE /\ w.id \in Channels
           /\ board' = [board EXCEPT ![w.id] =
                [msgs |-> @.msgs \cup {NewMessage(w)}, out |-> @.out + 1]]
  <2> DEFINE S == board[w.id].msgs
  <2>1. IsFiniteSet(S) /\ Cardinality(S) <= board[w.id].out /\ board[w.id].out \in Int
    BY <1>2 DEF CountedInv
  <2>2. /\ IsFiniteSet(S \cup {NewMessage(w)})
        /\ Cardinality(S \cup {NewMessage(w)}) <= Cardinality(S) + 1
    BY <2>1, AddOne
  <2>3. board'[w.id] = [msgs |-> S \cup {NewMessage(w)}, out |-> board[w.id].out + 1]
    BY <1>2 DEF Channels
  <2>4. Cardinality(S \cup {NewMessage(w)}) <= board[w.id].out + 1
    BY <2>1, <2>2, FS_CardinalityType
  <2> QED
    BY <1>2, <2>1, <2>2, <2>3, <2>4 DEF CountedInv, Channels
<1>3. CASE /\ w.id \in Channels
           /\ \E m \in board[w.id].msgs :
                board' = [board EXCEPT ![w.id].msgs =
                            (@ \ {m}) \cup {Extended(m, w)}]
  <2> DEFINE S == board[w.id].msgs
  <2>1. PICK m \in S :
          board' = [board EXCEPT ![w.id].msgs = (@ \ {m}) \cup {Extended(m, w)}]
    BY <1>3
  <2> DEFINE T == (S \ {m}) \cup {Extended(m, w)}
  <2>2. IsFiniteSet(S) /\ Cardinality(S) <= board[w.id].out /\ board[w.id].out \in Int
    BY <1>3 DEF CountedInv
  <2>3. Cardinality(S) \in Nat
    BY <2>2, FS_CardinalityType
  <2>4. IsFiniteSet(T) /\ Cardinality(T) <= Cardinality(S) /\ Cardinality(T) \in Nat
    BY <2>1, <2>2, SwapOne, FS_CardinalityType
  <2>5. Cardinality(T) <= board[w.id].out
    BY <2>2, <2>3, <2>4
  <2>6. board'[w.id].msgs = T /\ board'[w.id].out = board[w.id].out
    BY <1>3, <2>1 DEF BoardType, Channel, Channels
  <2> QED
    BY <1>3, <2>1, <2>2, <2>4, <2>5, <2>6 DEF CountedInv, Channels
<1> QED
  BY <1>1, <1>2, <1>3 DEF AddMessageD

LEMMA FetchReadyCounted ==
  ASSUME BoardType, CountedInv, NEW id, FetchReady(id)
  PROVE  CountedInv'
<1> DEFINE S == board[id].msgs
           T == AfterFetch(AfterFetch(S, "w"), "f")
<1>1. id \in Channels /\ board' = [board EXCEPT ![id].msgs = T]
  BY DEF FetchReady
<1>2. T \subseteq S
  BY DEF AfterFetch
<1>3. IsFiniteSet(S) /\ Cardinality(S) <= board[id].out /\ board[id].out \in Int
  BY <1>1 DEF CountedInv
<1>4. IsFiniteSet(T) /\ Cardinality(T) <= Cardinality(S)
  BY <1>2, <1>3, FS_Subset
<1>5. Cardinality(T) <= board[id].out
  BY <1>3, <1>4, FS_CardinalityType
<1>6. board'[id].msgs = T /\ board'[id].out = board[id].out
  <2> HIDE DEF T
  <2> QED
    BY <1>1 DEF BoardType, Channel, Channels
<1> HIDE DEF T
<1> QED
  BY <1>1, <1>3, <1>4, <1>5, <1>6 DEF CountedInv, Channels

LEMMA RemoveMessageDCounted ==
  ASSUME BoardType, CountedInv, NEW id, RemoveMessageD(id)
  PROVE  CountedInv'
<1>1. CASE UNCHANGED board
  BY <1>1, SameBoard
<1>2. CASE /\ id \in Channels
           /\ \E m \in board[id].msgs :
                board' = [board EXCEPT ![id] =
                            [msgs |-> @.msgs \ {m}, out |-> @.out - 1]]
  <2> DEFINE S == board[id].msgs
  <2>1. PICK m \in S :
          board' = [board EXCEPT ![id] = [msgs |-> @.msgs \ {m}, out |-> @.out - 1]]
    BY <1>2
  <2>2. IsFiniteSet(S) /\ Cardinality(S) <= board[id].out /\ board[id].out \in Int
    BY <1>2 DEF CountedInv
  <2>3. /\ IsFiniteSet(S \ {m})
        /\ Cardinality(S \ {m}) = Cardinality(S) - 1
    BY <2>1, <2>2, FS_RemoveElement
  <2>4. Cardinality(S \ {m}) <= board[id].out - 1
    BY <2>2, <2>3, FS_CardinalityType
  <2>5. board'[id] = [msgs |-> S \ {m}, out |-> board[id].out - 1]
    BY <1>2, <2>1 DEF Channels
  <2>6. Channels' = Channels /\ \A c \in Channels \ {id} : board'[c] = board[c]
    BY <2>1 DEF Channels
  <2>7. ASSUME NEW c \in Channels
        PROVE  /\ board'[c].out \in Int
               /\ IsFiniteSet(board'[c].msgs)
               /\ Cardinality(board'[c].msgs) <= board'[c].out
    <3>1. CASE c = id
      BY <2>2, <2>3, <2>4, <2>5, <3>1
    <3>2. CASE c # id
      BY <2>6, <3>2 DEF CountedInv
    <3> QED
      BY <3>1, <3>2
  <2> QED
    BY <2>6, <2>7 DEF CountedInv
<1> QED
  BY <1>1, <1>2 DEF RemoveMessageD

LEMMA DeleteGchannelCounted ==
  ASSUME BoardType, CountedInv, NEW id, DeleteGchannel(id)
  PROVE  CountedInv'
<1>1. CASE UNCHANGED board
  BY <1>1, SameBoard
<1>2. CASE /\ id \in Channels
           /\ board' = [c \in Channels \ {id} |-> board[c]]
  BY <1>2 DEF CountedInv, Channels
<1> QED
  BY <1>1, <1>2 DEF DeleteGchannel

LEMMA CountedStep ==
  ASSUME LibTypeOK, CountedInv, [Next]_libVars
  PROVE  CountedInv'
<1>0. BoardType
  BY DEF LibTypeOK
<1>1. CASE UNCHANGED libVars
  BY <1>1, SameBoard DEF libVars
<1>2. ASSUME NEW k \in Keys, NEW id \in Ids, NEW type \in Kinds, NEW size \in Sizes,
             Begin(k, id, type, size)
      PROVE  CountedInv'
  BY <1>2, SameBoard DEF Begin
<1>3. ASSUME NEW k \in Keys, Add(k)
      PROVE  CountedInv'
  BY <1>0, <1>3, AddMessageDCounted DEF Add
<1>4. ASSUME NEW id \in Ids, Insert(id) \/ Fetch(id) \/ Remove(id) \/ Delete(id)
      PROVE  CountedInv'
  BY <1>0, <1>4, GinsertCounted, FetchReadyCounted, RemoveMessageDCounted,
     DeleteGchannelCounted DEF Insert, Fetch, Remove, Delete
<1> QED
  BY <1>1, <1>2, <1>3, <1>4 DEF Next

LEMMA Counted == Spec => []CountedInv
<1>1. Init => CountedInv
  BY DEF Init, CrBboard, EmptyBoard, CountedInv, Channels
<1> QED
  BY <1>1, CountedStep, LibTypeCorrect, PTL DEF Spec

\* A step that removes a channel found its counter at zero, so its list is
\* empty.
LEMMA OnlyEmptyDeleted ==
  ASSUME LibTypeOK, CountedInv, [Next]_libVars, NEW c \in Channels, c \notin Channels'
  PROVE  board[c].msgs = {}
<1>1. PICK id \in Ids : Delete(id)
  BY DEF Next, libVars, Channels, Begin, Add, AddMessageD, Insert, Ginsert, Fetch,
         FetchReady, Remove, RemoveMessageD
<1>2. c = id /\ board[c].out = 0
  BY <1>1 DEF Delete, DeleteGchannel, Channels
<1>3. IsFiniteSet(board[c].msgs) /\ Cardinality(board[c].msgs) <= 0
  BY <1>2 DEF CountedInv
<1>4. Cardinality(board[c].msgs) = 0
  BY <1>3, FS_CardinalityType
<1> QED
  BY <1>3, <1>4, FS_EmptySet

\* No channel is freed with messages in it: the counter that delete_gchannel
\* looks at is an upper bound of the length of the list.  boardb.c:270-272
THEOREM NothingFreedWithChannel == Spec => DeleteLosesNothing
<1>1. LibTypeOK /\ CountedInv /\ [Next]_libVars =>
        [\A c \in Ids : c \in Channels /\ c \notin Channels' => board[c].msgs = {}]_libVars
  BY OnlyEmptyDeleted
<1> QED
  BY <1>1, Counted, LibTypeCorrect, PTL DEF Spec, DeleteLosesNothing

-------------------------------------------------------------------------------
(* One record per message *)

LEMMA AddMessageDOneRecord ==
  ASSUME BoardType, OneRecord, NEW w, AddMessageD(w)
  PROVE  OneRecord'
<1>1. CASE UNCHANGED board
  BY <1>1, SameBoard
<1>2. CASE /\ w.id \in Channels
           /\ \A m \in board[w.id].msgs : ~ SameMessage(m, w)
           /\ board' = [board EXCEPT ![w.id] =
                [msgs |-> @.msgs \cup {NewMessage(w)}, out |-> @.out + 1]]
  <2>1. board'[w.id].msgs = board[w.id].msgs \cup {NewMessage(w)}
    BY <1>2 DEF Channels
  <2>2. \A m : SameMessage(m, NewMessage(w)) \/ SameMessage(NewMessage(w), m)
                 => SameMessage(m, w)
    BY DEF SameMessage, NewMessage
  <2> QED
    BY <1>2, <2>1, <2>2 DEF OneRecord, Channels
<1>3. CASE /\ w.id \in Channels
           /\ \E m \in board[w.id].msgs :
                /\ SameMessage(m, w)
                /\ board' = [board EXCEPT ![w.id].msgs =
                               (@ \ {m}) \cup {Extended(m, w)}]
  <2>1. PICK m \in board[w.id].msgs :
          board' = [board EXCEPT ![w.id].msgs = (@ \ {m}) \cup {Extended(m, w)}]
    BY <1>3
  <2>2. board'[w.id].msgs = (board[w.id].msgs \ {m}) \cup {Extended(m, w)}
    BY <1>3, <2>1 DEF BoardType, Channel, Channels
  <2>3. \A n : SameMessage(n, Extended(m, w)) \/ SameMessage(Extended(m, w), n)
                 => SameMessage(n, m)
    BY <2>1 DEF SameMessage, Extended, BoardType, Channel, Message
  <2>4. Channels' = Channels /\ \A c \in Channels \ {w.id} : board'[c] = board[c]
    BY <2>1 DEF Channels
  <2>5. \A a, b \in board'[w.id].msgs : SameMessage(a, b) => a = b
    BY <1>3, <2>1, <2>2, <2>3 DEF OneRecord
  <2> QED
    BY <2>4, <2>5 DEF OneRecord
<1> QED
  BY <1>1, <1>2, <1>3 DEF AddMessageD

LEMMA OneRecordStep ==
  ASSUME LibTypeOK, OneRecord, [Next]_libVars
  PROVE  OneRecord'
<1>0. BoardType
  BY DEF LibTypeOK
<1>1. CASE UNCHANGED libVars
  BY <1>1, SameBoard DEF libVars
<1>2. ASSUME NEW k \in Keys, NEW id \in Ids, NEW type \in Kinds, NEW size \in Sizes,
             Begin(k, id, type, size)
      PROVE  OneRecord'
  BY <1>2, SameBoard DEF Begin
<1>3. ASSUME NEW k \in Keys, Add(k)
      PROVE  OneRecord'
  BY <1>0, <1>3, AddMessageDOneRecord DEF Add
<1>4. ASSUME NEW id \in Ids, Insert(id)
      PROVE  OneRecord'
  BY <1>4 DEF Insert, Ginsert, OneRecord, Channels
<1>5. ASSUME NEW id \in Ids, Fetch(id)
      PROVE  OneRecord'
  <2>1. /\ id \in Channels
        /\ board' = [board EXCEPT ![id].msgs = AfterFetch(AfterFetch(@, "w"), "f")]
    BY <1>5 DEF Fetch, FetchReady
  <2>2. AfterFetch(AfterFetch(board[id].msgs, "w"), "f") \subseteq board[id].msgs
    BY DEF AfterFetch
  <2>3. board'[id].msgs = AfterFetch(AfterFetch(board[id].msgs, "w"), "f")
    BY <1>0, <2>1 DEF BoardType, Channel, Channels
  <2> QED
    BY <2>1, <2>2, <2>3 DEF OneRecord, Channels
<1>6. ASSUME NEW id \in Ids, Remove(id)
      PROVE  OneRecord'
  <2>1. CASE UNCHANGED board
    BY <2>1, SameBoard
  <2>2. CASE /\ id \in Channels
             /\ \E m \in board[id].msgs :
                  board' = [board EXCEPT ![id] =
                              [msgs |-> @.msgs \ {m}, out |-> @.out - 1]]
    <3>1. DOMAIN board' = DOMAIN board /\ board'[id].msgs \subseteq board[id].msgs
      BY <2>2 DEF Channels
    <3>2. \A c \in Channels \ {id} : board'[c] = board[c]
      BY <2>2 DEF Channels
    <3> QED
      BY <2>2, <3>1, <3>2 DEF OneRecord, Channels
  <2> QED
    BY <1>6, <2>1, <2>2 DEF Remove, RemoveMessageD
<1>7. ASSUME NEW id \in Ids, Delete(id)
      PROVE  OneRecord'
  BY <1>7 DEF Delete, DeleteGchannel, OneRecord, Channels
<1> QED
  BY <1>1, <1>2, <1>3, <1>4, <1>5, <1>6, <1>7 DEF Next

\* Whatever the order of fragments, fetches, removals and deletions, a message
\* has one record in its channel.  boardb.c:228-241
THEOREM OneRecordPerMessage == Spec => []OneRecord
<1>1. Init => OneRecord
  BY DEF Init, CrBboard, EmptyBoard, OneRecord, Channels
<1> QED
  BY <1>1, OneRecordStep, LibTypeCorrect, PTL DEF Spec

===============================================================================
