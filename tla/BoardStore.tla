------------------------------ MODULE BoardStore ------------------------------
(***************************************************************************)
(* The bulletin board kept in the memory of board_server (boardb.c): the   *)
(* channels, and in each channel the messages that were written to it and  *)
(* not yet fetched.                                                        *)
(*                                                                         *)
(* A channel is found by its id alone (chcmp), so the board is a function  *)
(* on the ids of the existing channels.  The order of a channel's list     *)
(* decides only how a reply is laid out; it is abstracted to a set.  What  *)
(* a message holds is the sequence of the numbers of the fragments copied  *)
(* into its buffer, in the order of the memcpy/strcat calls.               *)
(***************************************************************************)
EXTENDS Integers, Sequences, FiniteSets

CONSTANTS Posts,   \* process ids of the boardpost programs
          Ids,     \* channel ids
          MaxMid   \* bound: how many messages one boardpost numbers

Mids == 0 .. MaxMid - 1

VARIABLE board     \* channel id |-> [msgs: its messages, out: its counter]

Kinds == {"w", "f"}       \* 'w' for a text, 'f' for a file
Flags == {"y", "n"}       \* 'y' if full, 'n' if not full

\* struct message; rcvd is Len(body), with the fragment as the unit of size.
Message == [pid : Posts, mid : Mids, type : Kinds, msgsize : Nat,
            full : Flags, body : Seq(Nat)]

\* The header of a WR request: one fragment, number part, of a message.
Fragment == [op : {"WR"}, id : Ids, pid : Posts, mid : Mids, type : Kinds,
             msgsize : Nat, part : Nat, flag : Flags]

Channel == [msgs : SUBSET Message, out : Int]

Channels == DOMAIN board

BoardType ==
  /\ Channels \subseteq Ids
  /\ \A c \in Channels : board[c] \in Channel

\* message_cmp: the identity of a message.  fst_msg_tm is left out: it is the
\* same in all fragments, and pid and mid tell the messages of a run apart.
SameMessage(a, b) ==
  /\ a.mid = b.mid
  /\ a.pid = b.pid
  /\ a.type = b.type
  /\ a.msgsize = b.msgsize

\* Mutant: the flag full is not looked at.
ReadyUnchecked(msgs, t) == {m \in msgs : m.type = t}

\* Mutant: only the last message of a boardpost is collected.
ReadyNewest(msgs, t) ==
  {m \in msgs : /\ m.full = "y" /\ m.type = t
                /\ \A n \in msgs : n.pid = m.pid => n.mid <= m.mid}

\* The messages that get_ready_messages (t = "w") and get_ready_files
\* (t = "f") collect.
Ready(msgs, t) == {m \in msgs : m.full = "y" /\ m.type = t}

\* Mutant: what was collected is not deleted.
AfterFetchKeeps(msgs, t) == IF t = "f" THEN msgs ELSE msgs \ Ready(msgs, t)

\* Mutant: the messages are found by pid alone when they are deleted.
AfterFetchByPid(msgs, t) ==
  {m \in msgs : ~ \E r \in Ready(msgs, t) : m.pid = r.pid}

\* What the list holds after they deleted each message they collected.
AfterFetch(msgs, t) ==
  {m \in msgs : ~ \E r \in Ready(msgs, t) : SameMessage(m, r)}

\* Mutant: the last two arguments of cr_message are swapped.
NewMessageSwapped(w) ==
  [pid |-> w.pid, mid |-> w.mid, type |-> w.flag, msgsize |-> w.msgsize,
   full |-> w.type, body |-> <<w.part>>]

\* Mutant: the fragment is copied to the start of the buffer.
ExtendedAtStart(m, w) == [m EXCEPT !.body = <<w.part>>, !.full = w.flag]

\* cr_message, and the branch of add_message_d that extends a message.
NewMessage(w) ==
  [pid |-> w.pid, mid |-> w.mid, type |-> w.type, msgsize |-> w.msgsize,
   full |-> w.flag, body |-> <<w.part>>]

Extended(m, w) == [m EXCEPT !.body = Append(@, w.part), !.full = w.flag]

-------------------------------------------------------------------------------
EmptyBoard == [c \in {} |-> [msgs |-> {}, out |-> 0]]

CrBboard == board = EmptyBoard

\* ginsert: an id that exists already leaves the board as it was.
Ginsert(id) ==
  \/ id \in Channels /\ UNCHANGED board
  \/ /\ id \notin Channels
     /\ board' = [c \in Channels \cup {id} |->
                    IF c = id THEN [msgs |-> {}, out |-> 0] ELSE board[c]]

\* Mutant: each fragment makes a record of its own.
AddMessageDAlwaysNew(w) ==
  \/ w.id \notin Channels /\ UNCHANGED board
  \/ /\ w.id \in Channels
     /\ board' = [board EXCEPT ![w.id] =
                    [msgs |-> @.msgs \cup {NewMessage(w)}, out |-> @.out + 1]]

\* add_message_d: a fragment for an unknown channel is refused, the first
\* fragment of a message creates it, a later one is appended to it.
AddMessageD(w) ==
  \/ w.id \notin Channels /\ UNCHANGED board
  \/ /\ w.id \in Channels
     /\ \A m \in board[w.id].msgs : ~ SameMessage(m, w)
     /\ board' = [board EXCEPT ![w.id] =
                    [msgs |-> @.msgs \cup {NewMessage(w)}, out |-> @.out + 1]]
  \/ /\ w.id \in Channels
     /\ \E m \in board[w.id].msgs :
          /\ SameMessage(m, w)
          /\ board' = [board EXCEPT ![w.id].msgs =
                         (@ \ {m}) \cup {Extended(m, w)}]

\* Mutant: a fetch counts the channel as drained.
FetchReadyResets(id) ==
  /\ id \in Channels
  /\ board' = [board EXCEPT ![id] =
                  [msgs |-> AfterFetch(AfterFetch(@.msgs, "w"), "f"), out |-> 0]]

\* get_ready_messages followed by get_ready_files, as the GM handler calls
\* them, on a channel that exists.  Neither touches the counter.
FetchReady(id) ==
  /\ id \in Channels
  /\ board' = [board EXCEPT ![id].msgs = AfterFetch(AfterFetch(@, "w"), "f")]

\* remove_message_d: takes the last message of the list, whichever it is.
RemoveMessageD(id) ==
  \/ id \notin Channels /\ UNCHANGED board
  \/ /\ id \in Channels
     /\ board[id].msgs = {}
     /\ UNCHANGED board
  \/ /\ id \in Channels
     /\ \E m \in board[id].msgs :
          board' = [board EXCEPT ![id] =
                      [msgs |-> @.msgs \ {m}, out |-> @.out - 1]]

\* delete_gchannel: refused (2) unless the counter is back at zero.
DeleteGchannel(id) ==
  \/ id \notin Channels /\ UNCHANGED board
  \/ id \in Channels /\ board[id].out # 0 /\ UNCHANGED board
  \/ /\ id \in Channels
     /\ board[id].out = 0
     /\ board' = [c \in Channels \ {id} |-> board[c]]

===============================================================================
