---------------------------- MODULE BoardStoreProofs ----------------------------
(***************************************************************************)
(* Facts about the operators of BoardStore: what each makes of a board of  *)
(* the right type.                                                         *)
(***************************************************************************)
EXTENDS BoardStore, TLAPS

\* A fetch takes messages away and changes none.
LEMMA AfterFetchShrinks ==
  ASSUME NEW msgs, NEW t
  PROVE  AfterFetch(msgs, t) \subseteq msgs
BY DEF AfterFetch

\* A fragment makes a message, or a longer message.
LEMMA NewMessageType ==
  ASSUME NEW w \in Fragment
  PROVE  NewMessage(w) \in Message
BY DEF NewMessage, Message, Fragment

LEMMA ExtendedType ==
  ASSUME NEW m \in Message, NEW w \in Fragment
  PROVE  Extended(m, w) \in Message
<1>1. Append(m.body, w.part) \in Seq(Nat)
  BY DEF Message, Fragment
<1> QED
  BY <1>1 DEF Extended, Message, Fragment

\* Each operation on the board keeps its type.
LEMMA EmptyBoardType ==
  ASSUME board' = EmptyBoard
  PROVE  BoardType'
BY DEF BoardType, EmptyBoard, Channels

LEMMA GinsertType ==
  ASSUME BoardType, NEW id \in Ids, Ginsert(id)
  PROVE  BoardType'
<1>1. CASE UNCHANGED board
  BY <1>1 DEF BoardType, Channels
<1>2. CASE /\ id \notin Channels
           /\ board' = [c \in Channels \cup {id} |->
                IF c = id THEN [msgs |-> {}, out |-> 0] ELSE board[c]]
  <2>1. [msgs |-> {}, out |-> 0] \in Channel
    BY DEF Channel
  <2> QED
    BY <1>2, <2>1 DEF BoardType, Channels
<1> QED
  BY <1>1, <1>2 DEF Ginsert

LEMMA AddMessageDType ==
  ASSUME BoardType, NEW w \in Fragment, AddMessageD(w)
  PROVE  BoardType'
<1>1. CASE UNCHANGED board
  BY <1>1 DEF BoardType, Channels
<1>2. CASE /\ w.id \in Channels
           /\ board' = [board EXCEPT ![w.id] =
                [msgs |-> @.msgs \cup {NewMessage(w)}, out |-> @.out + 1]]
  <2>1. [msgs |-> board[w.id].msgs \cup {NewMessage(w)},
         out |-> board[w.id].out + 1] \in Channel
    BY <1>2, NewMessageType DEF BoardType, Channel
  <2> QED
    BY <1>2, <2>1 DEF BoardType, Channels
<1>3. CASE /\ w.id \in Channels
           /\ \E m \in board[w.id].msgs :
                board' = [board EXCEPT ![w.id].msgs =
                            (@ \ {m}) \cup {Extended(m, w)}]
  <2>1. PICK m \in board[w.id].msgs :
          board' = [board EXCEPT ![w.id].msgs = (@ \ {m}) \cup {Extended(m, w)}]
    BY <1>3
  <2>2. board[w.id] \in Channel /\ m \in Message
    BY <1>3, <2>1 DEF BoardType, Channel
  <2>3. [board[w.id] EXCEPT !.msgs = (@ \ {m}) \cup {Extended(m, w)}] \in Channel
    BY <2>2, ExtendedType DEF Channel
  <2> QED
    BY <1>3, <2>1, <2>3 DEF BoardType, Channels
<1> QED
  BY <1>1, <1>2, <1>3 DEF AddMessageD

LEMMA FetchReadyType ==
  ASSUME BoardType, NEW id, FetchReady(id)
  PROVE  BoardType'
<1>1. /\ id \in Channels
      /\ board[id] \in Channel
  BY DEF FetchReady, BoardType
<1>2. AfterFetch(AfterFetch(board[id].msgs, "w"), "f") \in SUBSET Message
  BY <1>1, AfterFetchShrinks DEF Channel
<1>3. [board[id] EXCEPT !.msgs = AfterFetch(AfterFetch(@, "w"), "f")] \in Channel
  BY <1>1, <1>2 DEF Channel
<1> QED
  BY <1>1, <1>3 DEF FetchReady, BoardType, Channels

LEMMA RemoveMessageDType ==
  ASSUME BoardType, NEW id, RemoveMessageD(id)
  PROVE  BoardType'
<1>1. CASE UNCHANGED board
  BY <1>1 DEF BoardType, Channels
<1>2. CASE /\ id \in Channels
           /\ \E m \in board[id].msgs :
                board' = [board EXCEPT ![id] =
                            [msgs |-> @.msgs \ {m}, out |-> @.out - 1]]
  <2>1. PICK m \in board[id].msgs :
          board' = [board EXCEPT ![id] = [msgs |-> @.msgs \ {m}, out |-> @.out - 1]]
    BY <1>2
  <2>2. [msgs |-> board[id].msgs \ {m}, out |-> board[id].out - 1] \in Channel
    BY <1>2 DEF BoardType, Channel
  <2> QED
    BY <1>2, <2>1, <2>2 DEF BoardType, Channels
<1> QED
  BY <1>1, <1>2 DEF RemoveMessageD

LEMMA DeleteGchannelType ==
  ASSUME BoardType, NEW id, DeleteGchannel(id)
  PROVE  BoardType'
BY DEF DeleteGchannel, BoardType, Channels

===============================================================================
